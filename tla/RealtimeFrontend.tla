--------------------------- MODULE RealtimeFrontend ---------------------------
(***************************************************************************)
(* RealtimeFrontend (windows/src/realtime_frontend.cpp): the romaji        *)
(* automaton that shows a preedit without asking the engine.  An object is *)
(* a record, a method an operator that returns the object afterwards       *)
(* (.fe) and the EngineState it hands out (.st).                           *)
(*                                                                         *)
(* A typed key is a record of its number and a letter; text is the         *)
(* sequence of the numbers of the keys it was made from, so that a later   *)
(* reader can tell whose text it is.  Letters stand for classes: "a" a     *)
(* vowel, "k" a consonant (a rule of two consonants is left out), upper    *)
(* case starts a reading, "n" and the mode letters are themselves and "."  *)
(* is any other character.  Which kana a key becomes is left out; the      *)
(* okurigana mark is kana too.                                             *)
(***************************************************************************)
EXTENDS Naturals, Sequences, SequencesExt

Letters == {"a", "k", "n", "A", "K", "l", "L", "q", "Q", "."}
Upper == {"A", "K", "L", "Q"}
Class(ch) == CASE ch = "A" -> "a" [] ch = "K" -> "k" [] ch = "L" -> "l"
               [] ch = "Q" -> "q" [] OTHER -> ch

NoKey == [id |-> 0, ch |-> "none"]

(* EngineState; start stands for composition_start >= 0 and cands for a    *)
(* list of candidates that is not empty.                                   *)
State(mode, start, text, pending, cands) ==
  [mode |-> mode, start |-> start, text |-> text, pending |-> pending,
   cands |-> cands]
NoState == State("none", FALSE, <<>>, <<>>, FALSE)

Ids(keys) == [i \in DOMAIN keys |-> keys[i].id]

-----------------------------------------------------------------------------
Fresh == [preedit |-> FALSE, katakana |-> FALSE, latin |-> FALSE,
          wide |-> FALSE, text |-> <<>>, pending |-> <<>>, raw |-> <<>>]

Composing(f) == f.preedit \/ f.pending # <<>>

Snapshot(f, terminal) ==
  LET open == f.preedit /\ ~terminal
      base == IF f.latin THEN "latin" ELSE IF f.wide THEN "wide-latin"
              ELSE IF f.katakana THEN "katakana" ELSE "hiragana"
  IN State(IF open THEN "preedit" ELSE base, open, f.text, Ids(f.pending),
           FALSE)

KeepsReading(f) ==                                                \* mutant
  [f EXCEPT !.preedit = FALSE, !.pending = <<>>, !.raw = <<>>]

Reset(f) ==
  [f EXCEPT !.preedit = FALSE, !.text = <<>>, !.pending = <<>>, !.raw = <<>>]

-----------------------------------------------------------------------------
(* A character that completes what is pending, and one that replaces it: a *)
(* doubled or foreign letter leaves its predecessor behind as text.        *)
Before(f) == IF f.pending = <<>> THEN "none" ELSE Class(Head(f.pending).ch)

Completes(f, key) ==
  LET now == Class(key.ch) IN
  \/ now = "."
  \/ now = "a" /\ Before(f) \in {"none", "k", "n"}
  \/ now = "n" /\ Before(f) = "n"
  \/ now = "q" /\ Before(f) \in {"none", "n", "q"}

Spelled(f, key) ==
  IF Completes(f, key)
  THEN [f EXCEPT !.text = @ \o Ids(f.pending) \o <<key.id>>, !.pending = <<>>]
  ELSE [f EXCEPT !.text = @ \o Ids(f.pending), !.pending = <<key>>]

Shown(f) == [fe |-> f, st |-> Snapshot(f, FALSE)]

(* Direct kana is handed out once, with the snapshot that completes it.    *)
Handed(f) ==
  [fe |-> IF f.preedit \/ f.pending # <<>> THEN f
          ELSE [f EXCEPT !.text = <<>>, !.raw = <<>>],
   st |-> Snapshot(f, FALSE)]

(* After a pending n a mode letter of direct input is fed once more, and   *)
(* the kana of the n stays behind in text_.                                *)
ModeAfterN(f, key) ==
  ~f.preedit /\ ~f.latin /\ ~f.wide /\ Before(f) = "n" /\ key.ch \in {"l", "q"}

Switched(f, key) ==
  LET g == [f EXCEPT !.text = @ \o Ids(f.pending), !.pending = <<>>] IN
  IF key.ch = "l"
  THEN Shown([g EXCEPT !.latin = TRUE, !.wide = FALSE, !.raw = <<>>])
  ELSE Shown([g EXCEPT !.katakana = ~@, !.raw = Append(@, key)])

FeedAscii(f, key) ==
  LET idle == ~Composing(f) IN
  CASE idle /\ key.ch = "L" ->
         Shown([f EXCEPT !.wide = TRUE, !.latin = FALSE, !.raw = <<>>])
    [] idle /\ key.ch = "l" ->
         Shown([f EXCEPT !.latin = TRUE, !.wide = FALSE, !.raw = <<>>])
    [] f.latin /\ ~(idle /\ key.ch \in {"l", "L"}) ->
         [fe |-> [f EXCEPT !.raw = Append(@, key)], st |-> NoState]
    [] f.wide /\ ~f.latin /\ ~(idle /\ key.ch \in {"l", "L"}) ->
         [fe |-> [f EXCEPT !.raw = <<>>],
          st |-> [Snapshot(f, TRUE) EXCEPT !.text = <<key.id>>]]
    [] idle /\ ~f.latin /\ ~f.wide /\ key.ch \in {"q", "Q"} ->
         Shown([f EXCEPT !.katakana = ~@, !.raw = <<>>])
    [] ModeAfterN(f, key) -> Switched(f, key)
    [] OTHER ->
         Handed(Spelled([f EXCEPT !.raw = Append(@, key),
                                  !.preedit = @ \/ key.ch \in Upper], key))

Feed(f, key) == FeedAscii(f, key)

(* The keys typed so far, once more; as a set of one frontend.            *)
RebuildPreedit(f) ==
  LET fed[n \in 0..Len(f.raw)] ==
        IF n = 0 THEN {Reset(f)}
        ELSE {FeedAscii(g, f.raw[n]).fe : g \in fed[n - 1]}
  IN fed[Len(f.raw)]

ErasesTextOnly(f) ==                                              \* mutant
  IF ~f.preedit \/ f.text = <<>> THEN [fe |-> f, st |-> NoState]
  ELSE Shown([f EXCEPT !.text = Front(@)])

Backspace(f) ==
  LET short == [f EXCEPT !.raw = Front(@)] IN
  IF ~Composing(f) \/ f.raw = <<>> THEN [fe |-> f, st |-> NoState]
  ELSE IF f.preedit
       THEN Shown(CHOOSE g \in RebuildPreedit(short) : TRUE)
  ELSE Shown([short EXCEPT !.pending = IF @ = <<>> THEN @ ELSE Front(@)])

(* The reading with its unresolved romaji, handed out as plain text.       *)
Confirmed(f) ==
  LET g == [f EXCEPT !.text = @ \o Ids(f.pending), !.pending = <<>>]
  IN [fe |-> Reset(f), st |-> Snapshot(g, TRUE)]

Commit(f) ==
  IF Composing(f) THEN Confirmed(f) ELSE [fe |-> f, st |-> NoState]

CommitKatakana(f) ==
  IF f.preedit THEN Confirmed(f) ELSE [fe |-> f, st |-> NoState]

Quit(f) ==
  IF ~Composing(f) THEN [fe |-> f, st |-> NoState]
  ELSE [fe |-> Reset(f),
        st |-> State(IF f.katakana THEN "katakana" ELSE "hiragana", FALSE,
                     <<>>, <<>>, FALSE)]

RestorePreedit(f) == Shown(f)

ToKatakana(f) ==
  IF f.preedit THEN Shown([f EXCEPT !.katakana = TRUE])
  ELSE [fe |-> f, st |-> NoState]

SaysHiragana(f) ==                                                \* mutant
  [fe |-> f, st |-> [Snapshot(f, FALSE) EXCEPT !.mode = "hiragana"]]

ToHiragana(f) ==
  Shown([f EXCEPT !.katakana = FALSE, !.latin = FALSE, !.wide = FALSE])

(* Ctrl+J: what was composed is confirmed, and the mode is kana again.     *)
Kakutei(f) ==
  LET done == Commit(f)
      kana == ToHiragana(done.fe)
  IN [fe |-> kana.fe,
      st |-> IF done.st = NoState THEN kana.st
             ELSE [done.st EXCEPT !.mode = "hiragana"]]
=============================================================================
