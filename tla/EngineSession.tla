---------------------------- MODULE EngineSession ----------------------------
(***************************************************************************)
(* One session of the DDSKK engine (engine/ddskk-engine.el over            *)
(* engine/skk-ime-session.el): what a request does to it and the STATE     *)
(* line that answers.  DDSKK itself is what the RealtimeFrontend imitates, *)
(* so its romaji automaton is the same one here; the raw keys are not      *)
(* kept.  A session is                                                     *)
(*   fe       the buffer: its text, romaji prefix and modes,               *)
(*   cand     a candidate is shown in place of the reading,                *)
(*   reading  skk-henkan-key, and the checkpoint of a registration,        *)
(*   reg      the registration editor is open, and                         *)
(*   word     its text.                                                    *)
(* Which candidates there are is left out: a conversion finds one or none. *)
(* The cursor of the registration editor stays at its end.                 *)
(***************************************************************************)
EXTENDS RealtimeFrontend

Request(verb, keys) == [verb |-> verb, keys |-> keys]

NewSession == [fe |-> Fresh, cand |-> FALSE, reading |-> <<>>,
               reg |-> FALSE, word |-> <<>>]

Idle(s) == ~s.cand /\ ~Composing(s.fe)

(* ddskk-engine--raw-state-line and --registration-state-line              *)
Line(s) ==
  LET native == IF s.cand THEN State("candidate", TRUE, s.fe.text, <<>>, TRUE)
                ELSE Snapshot(s.fe, FALSE)
  IN IF s.reg
     THEN [native EXCEPT !.mode = "registration", !.text = s.word \o @]
     ELSE native

Reply(s) == [s |-> s, st |-> Line(s)]
Refused(s) == [s |-> s, st |-> NoState]                 \* an ERR line

(* ddskk-engine--maybe-truncate-session, which runs after the snapshot     *)
Truncated(s) ==
  [s EXCEPT !.fe.raw = <<>>, !.fe.text = IF Idle(s) THEN <<>> ELSE @]
Settled(s) == [s |-> Truncated(s), st |-> Line(s)]

(* What kana cleanup keeps of the prefix: n is a kana, a consonant is not. *)
Cleaned(f) ==
  f.text \o (IF f.pending # <<>> /\ Head(f.pending).ch = "n"
             THEN Ids(f.pending) ELSE <<>>)

WithText(s, preedit, text) ==
  [s EXCEPT !.cand = FALSE, !.fe.preedit = preedit, !.fe.pending = <<>>,
            !.fe.text = text]

-----------------------------------------------------------------------------
(* skk-ime-session-feed-key and -feed-string: a key typed at a candidate   *)
(* accepts it and follows it in the same buffer.                           *)
Typed(s, key) ==
  LET f == IF s.cand THEN [s.fe EXCEPT !.preedit = FALSE] ELSE s.fe
      fed == FeedAscii(f, key)
  IN [s EXCEPT !.cand = FALSE, !.fe = [fed.fe EXCEPT !.raw = <<>>,
        !.text = IF fed.st = NoState THEN Append(f.text, key.id)
                 ELSE fed.st.text]]

(* As a set of one, like the other outcomes.                               *)
FedString(s, keys) ==
  LET fed[n \in 0..Len(keys)] ==
        IF n = 0 THEN {s} ELSE {Typed(t, keys[n]) : t \in fed[n - 1]}
  IN fed[Len(keys)]

(* skk-ime-session-control                                                 *)
Committed(s) ==
  IF s.cand \/ s.fe.preedit THEN WithText(s, FALSE, Cleaned(s.fe)) ELSE s

Cancelled(s) ==
  LET kana == [s EXCEPT !.fe.latin = FALSE, !.fe.wide = FALSE,
                        !.fe.katakana = FALSE, !.fe.pending = <<>>]
  IN IF s.cand \/ s.fe.preedit THEN WithText(kana, FALSE, <<>>) ELSE kana

Reverted(s) == WithText(s, TRUE, s.reading)

Quitted(s) ==
  IF s.cand THEN Reverted(s)
  ELSE IF s.fe.preedit THEN WithText(s, FALSE, <<>>)
  ELSE [s EXCEPT !.fe.pending = <<>>]

Erased(s) ==
  IF s.fe.pending # <<>> THEN [s EXCEPT !.fe.pending = <<>>]
  ELSE IF s.fe.text # <<>> THEN [s EXCEPT !.fe.text = Front(@)] ELSE s

Transliterated(s) == IF s.cand THEN Reverted(s) ELSE s

Shows(s, reading) ==
  [WithText(s, FALSE, reading) EXCEPT !.cand = TRUE, !.reading = reading]

-----------------------------------------------------------------------------
(* Registration: the reading is checkpointed and a fresh buffer feeds the  *)
(* editor with whatever text is final there.                               *)
Registering(reading) ==
  [NewSession EXCEPT !.reg = TRUE, !.reading = reading]

Flushed(s) ==
  IF Idle(s) THEN [s EXCEPT !.word = @ \o s.fe.text, !.fe.text = <<>>] ELSE s

CancelRegistration(s) ==
  Reverted([NewSession EXCEPT !.reading = s.reading])

FinishRegistration(s) ==
  [NewSession EXCEPT !.fe.text = s.word, !.reading = s.reading]

(* ddskk-engine--convert-or-register and --candidates-exhausted-p          *)
Converted(s) ==
  LET reading == Cleaned(s.fe) IN
  IF s.cand THEN {s, Registering(s.reading)}
  ELSE IF ~s.fe.preedit THEN {s}
  ELSE IF reading = <<>> THEN {WithText(s, FALSE, <<>>)}
  ELSE {Shows(s, reading), Registering(reading)}

(* ddskk-engine--dispatch-registration                                     *)
ExecRegistration(s, req) ==
  CASE req.verb \in {"KEY", "FEED-KEYS"} ->
         {Reply(Flushed(t)) : t \in FedString(s, req.keys)}
    [] req.verb = "COMMIT" ->
         {Reply(IF ~Idle(s) THEN Flushed(Committed(s))
                ELSE IF s.word = <<>> THEN CancelRegistration(s)
                ELSE FinishRegistration(s))}
    [] req.verb \in {"QUIT", "CANCEL"} -> {Reply(CancelRegistration(s))}
    [] req.verb = "BACKSPACE" ->
         {Reply(IF ~Idle(s) THEN Flushed(Erased(s))
                ELSE IF s.word = <<>> THEN s ELSE [s EXCEPT !.word = Front(@)])}
    [] req.verb = "CONVERT" ->
         {Reply(IF s.fe.preedit /\ Cleaned(s.fe) # <<>>
                THEN [Shows(s, Cleaned(s.fe)) EXCEPT !.reading = s.reading]
                ELSE s)}
    [] req.verb = "TO-KANA" -> {Reply(s)}
    [] OTHER -> {Refused(s)}

(* ddskk-engine--dispatch-line-1: the outcomes of one request              *)
Exec(s, req) ==
  IF s.reg /\ req.verb # "RESET" THEN ExecRegistration(s, req)
  ELSE CASE req.verb = "RESET" -> {Reply(NewSession)}
         [] req.verb = "CONVERT-KEYS" ->
              {Reply(t) : t \in UNION {Converted(b) :
                                           b \in FedString(NewSession, req.keys)}}
         [] req.verb = "CONVERT" -> {Reply(t) : t \in Converted(s)}
         [] req.verb = "PREVIOUS" ->
              {Reply(t) : t \in IF s.cand THEN {s, Reverted(s)} ELSE {s}}
         [] req.verb = "TO-KANA" -> {Reply(Transliterated(s))}
         [] req.verb = "KEY" -> {Settled(Typed(s, req.keys[1]))}
         [] req.verb = "COMMIT" -> {Settled(Committed(s))}
         [] req.verb = "CANCEL" -> {Settled(Cancelled(s))}
         [] req.verb = "QUIT" -> {Settled(Quitted(s))}
         [] req.verb = "BACKSPACE" -> {Settled(Erased(s))}
         [] OTHER -> {Refused(s)}
=============================================================================
