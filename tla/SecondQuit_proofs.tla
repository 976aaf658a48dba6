--------------------------- MODULE SecondQuit_proofs ---------------------------
(***************************************************************************)
(* Proof that a second Ctrl+G ends everything: for every set of documents, *)
(* any number of keys and calls, and with lost calls, lost results, edits  *)
(* that wait and late callbacks.                                           *)
(***************************************************************************)
EXTENDS TextService_proofs, SetInduction

-----------------------------------------------------------------------------
(* The frontend: each of its operations returns a frontend, and a state    *)
(* that is open only while this frontend composes.                         *)
LEMMA IdsOfKeys ==
  ASSUME NEW q \in Seq(KeyRecord)
  PROVE  Ids(q) \in Seq(Nat) /\ (Ids(q) = <<>> <=> q = <<>>)
<1>1. Len(q) \in Nat /\ DOMAIN q = 1..Len(q)
  OBVIOUS
<1>2. \A i \in 1..Len(q) : q[i].id \in Nat
  <2>1. \A key \in KeyRecord : key.id \in Nat
    BY DEF KeyRecord
  <2> QED BY <1>1, <2>1
<1>3. Ids(q) \in [1..Len(q) -> Nat]
  BY <1>1, <1>2 DEF Ids
<1>4. Ids(q) \in Seq(Nat)
  BY <1>1, <1>3, SeqDef
<1>5. Len(Ids(q)) = Len(q)
  BY <1>1, <1>3, <1>4
<1> QED BY <1>1, <1>4, <1>5

LEMMA Longer ==
  ASSUME NEW S, NEW p \in Seq(S), NEW q \in Seq(S)
  PROVE  p \o q \in Seq(S)
BY ConcatProperties

LEMMA Shorter ==
  ASSUME NEW S, NEW q \in Seq(S), q # <<>>
  PROVE  Front(q) \in Seq(S)
<1>1. Len(q) \in Nat /\ Len(q) > 0 /\ \A i \in 1..Len(q) : q[i] \in S
  OBVIOUS
<1>2. Len(q) - 1 \in Nat /\ \A i \in 1..Len(q) - 1 : q[i] \in S
  BY <1>1
<1>3. SubSeq(q, 1, Len(q) - 1) \in Seq(S)
  BY <1>1, <1>2
<1> QED BY <1>3 DEF Front

LEMMA Nothing ==
  /\ <<>> \in Seq(Nat) /\ <<>> \in Seq(KeyRecord)
  /\ NoState.text \in Seq(Nat) /\ NoState.mode = "none" /\ ~NoState.start /\ NoState.pending = <<>>
  /\ ~NoState.cands
BY DEF NoState, State

BaseMode == {"none", "hiragana", "katakana", "latin", "wide-latin", "preedit"}
Tells(f, r) ==
  /\ r.fe \in Frontend
  /\ ~r.st.cands /\ r.st.mode \in BaseMode /\ r.st.text \in Seq(Nat)
  /\ r.st.start \/ r.st.pending # <<>> => Composing(r.fe)
  /\ r.st = NoState => (Composing(r.fe) <=> Composing(f))

LEMMA SnapshotTells ==
  ASSUME NEW f \in Frontend, NEW terminal \in BOOLEAN
  PROVE  LET st == Snapshot(f, terminal)
         IN /\ st.start = (f.preedit /\ ~terminal) /\ ~st.cands /\ st.text = f.text
            /\ st.pending = Ids(f.pending) /\ st.mode \in BaseMode /\ st.mode # "none"
            /\ st.text \in Seq(Nat)
BY DEF Snapshot, State, BaseMode, Frontend

LEMMA ShownTells ==
  ASSUME NEW f \in Frontend
  PROVE  Tells(f, Shown(f)) /\ Shown(f).fe = f /\ Shown(f).st # NoState
         /\ Shown(f).st.start = f.preedit
<1>1. f.pending \in Seq(KeyRecord)
  BY DEF Frontend
<1>2. Snapshot(f, FALSE).mode # "none"
  BY SnapshotTells
<1>3. Shown(f).st # NoState
  BY <1>2, Nothing DEF Shown
<1>4. Shown(f).fe = f /\ Shown(f).st = Snapshot(f, FALSE)
  BY DEF Shown
<1>5. /\ Snapshot(f, FALSE).start = f.preedit /\ ~Snapshot(f, FALSE).cands
      /\ Snapshot(f, FALSE).pending = Ids(f.pending)
      /\ Snapshot(f, FALSE).mode \in BaseMode /\ Snapshot(f, FALSE).text \in Seq(Nat)
  BY SnapshotTells DEF Frontend
<1>6. Ids(f.pending) # <<>> => f.pending # <<>>
  BY <1>1, IdsOfKeys
<1> QED BY <1>3, <1>4, <1>5, <1>6 DEF Tells, Composing

LEMMA ResetIsFrontend ==
  ASSUME NEW f \in Frontend
  PROVE  Reset(f) \in Frontend /\ ~Composing(Reset(f))
BY Nothing DEF Reset, Frontend, Composing

LEMMA SpelledIsFrontend ==
  ASSUME NEW f \in Frontend, NEW key \in KeyRecord
  PROVE  Spelled(f, key) \in Frontend
<1>1. f.text \in Seq(Nat) /\ f.pending \in Seq(KeyRecord)
  BY DEF Frontend
<1>2. key.id \in Nat /\ <<key.id>> \in Seq(Nat) /\ <<key>> \in Seq(KeyRecord)
  BY DEF KeyRecord
<1>3. f.text \o Ids(f.pending) \in Seq(Nat)
  BY <1>1, IdsOfKeys, Longer
<1>4. f.text \o Ids(f.pending) \o <<key.id>> \in Seq(Nat)
  BY <1>2, <1>3, Longer
<1> QED BY <1>2, <1>3, <1>4, Nothing DEF Spelled, Frontend

LEMMA HandedTells ==
  ASSUME NEW f \in Frontend
  PROVE  Tells(f, Handed(f)) /\ Handed(f).st # NoState
<1>1. f.pending \in Seq(KeyRecord)
  BY DEF Frontend
<1>2. Handed(f).fe \in Frontend /\ (Composing(Handed(f).fe) <=> Composing(f))
  BY Nothing DEF Handed, Frontend, Composing
<1>3. Handed(f).st = Snapshot(f, FALSE) /\ Snapshot(f, FALSE).mode # "none"
  BY SnapshotTells DEF Handed
<1>4. Handed(f).st # NoState
  BY <1>3, Nothing
<1> QED BY <1>1, <1>2, <1>3, <1>4, SnapshotTells, IdsOfKeys DEF Tells, Composing

(* A mode key after a pending n.                                           *)
LEMMA SwitchedTells ==
  ASSUME NEW f \in Frontend, NEW key \in KeyRecord
  PROVE  Tells(f, Switched(f, key))
<1> DEFINE g == [f EXCEPT !.text = @ \o Ids(f.pending), !.pending = <<>>]
           latin == [g EXCEPT !.latin = TRUE, !.wide = FALSE, !.raw = <<>>]
           other == [g EXCEPT !.katakana = ~@, !.raw = Append(@, key)]
<1>1. g \in Frontend
  <2>1. f.text \o Ids(f.pending) \in Seq(Nat)
    BY IdsOfKeys, Longer DEF Frontend
  <2> QED BY <2>1, Nothing DEF Frontend
<1>2. Switched(f, key) = IF key.ch = "l" THEN Shown(latin) ELSE Shown(other)
  BY DEF Switched
<1> HIDE DEF g
<1>3. latin \in Frontend
  BY <1>1, Nothing DEF Frontend
<1>4. other \in Frontend
  <2>1. Append(g.raw, key) \in Seq(KeyRecord) /\ (~g.katakana) \in BOOLEAN
    BY <1>1 DEF Frontend
  <2> QED BY <1>1, <2>1 DEF Frontend
<1> HIDE DEF latin, other
<1> QED BY <1>2, <1>3, <1>4, ShownTells DEF Tells

LEMMA ConfirmedTells ==
  ASSUME NEW f \in Frontend
  PROVE  /\ Confirmed(f).fe = Reset(f) /\ Confirmed(f).st.mode \in BaseMode \ {"none"}
         /\ ~Confirmed(f).st.start /\ Confirmed(f).st.pending = <<>>
         /\ ~Confirmed(f).st.cands /\ Confirmed(f).st # NoState
         /\ Tells(f, Confirmed(f))
         /\ Tells(f, [fe |-> Confirmed(f).fe,
                      st |-> [Confirmed(f).st EXCEPT !.mode = "hiragana"]])
<1> DEFINE g == [f EXCEPT !.text = @ \o Ids(f.pending), !.pending = <<>>]
<1>1. f.text \o Ids(f.pending) \in Seq(Nat)
  BY IdsOfKeys, Longer DEF Frontend
<1>2. g \in Frontend /\ g.pending = <<>>
  BY <1>1, Nothing DEF Frontend
<1>3. Ids(g.pending) = <<>>
  BY <1>2 DEF Ids
<1>4. Confirmed(f).fe = Reset(f) /\ Confirmed(f).st = Snapshot(g, TRUE)
  BY DEF Confirmed
<1> HIDE DEF g
<1>5. LET st == Snapshot(g, TRUE)
      IN /\ ~st.start /\ ~st.cands /\ st.pending = <<>>
         /\ st.mode \in BaseMode /\ st.mode # "none" /\ st.text \in Seq(Nat)
  BY <1>2, <1>3, SnapshotTells
<1>6. Snapshot(g, TRUE) # NoState
  BY <1>5, Nothing
<1>7. LET st == [Snapshot(g, TRUE) EXCEPT !.mode = "hiragana"]
      IN /\ ~st.start /\ ~st.cands /\ st.pending = <<>> /\ st.mode = "hiragana"
         /\ st.text \in Seq(Nat)
  BY <1>2, <1>3 DEF Frontend, Snapshot, State
<1>8. [Snapshot(g, TRUE) EXCEPT !.mode = "hiragana"] # NoState
  BY <1>7, Nothing
<1> QED
  BY <1>4, <1>5, <1>6, <1>7, <1>8, ResetIsFrontend DEF Tells, BaseMode

LEMMA NothingTells ==
  ASSUME NEW f \in Frontend, NEW g \in Frontend, Composing(g) <=> Composing(f)
  PROVE  Tells(f, [fe |-> g, st |-> NoState])
BY Nothing DEF Tells, BaseMode

LEMMA FeedTells ==
  ASSUME NEW f \in Frontend, NEW key \in KeyRecord
  PROVE  Tells(f, Feed(f, key)) /\ FeedAscii(f, key).fe \in Frontend
<1> DEFINE idle == ~Composing(f)
           wide == [f EXCEPT !.wide = TRUE, !.latin = FALSE, !.raw = <<>>]
           latin == [f EXCEPT !.latin = TRUE, !.wide = FALSE, !.raw = <<>>]
           longer == [f EXCEPT !.raw = Append(@, key)]
           empty == [f EXCEPT !.raw = <<>>]
           other == [f EXCEPT !.katakana = ~@, !.raw = <<>>]
           fed == [f EXCEPT !.raw = Append(@, key),
                            !.preedit = @ \/ key.ch \in Upper]
           sign == [Snapshot(f, TRUE) EXCEPT !.text = <<key.id>>]
<1>1. /\ wide \in Frontend /\ latin \in Frontend /\ longer \in Frontend
      /\ empty \in Frontend /\ other \in Frontend /\ fed \in Frontend
  <2>1. Append(f.raw, key) \in Seq(KeyRecord)
    BY DEF Frontend
  <2>2. f.preedit \in BOOLEAN /\ f.katakana \in BOOLEAN
    BY DEF Frontend
  <2>3. (~f.katakana) \in BOOLEAN /\ (f.preedit \/ key.ch \in Upper) \in BOOLEAN
    BY <2>2
  <2>4. wide \in Frontend /\ latin \in Frontend /\ empty \in Frontend
    BY Nothing DEF Frontend
  <2>5. longer \in Frontend
    BY <2>1 DEF Frontend
  <2>6. other \in Frontend
    BY <2>3, Nothing DEF Frontend
  <2>7. fed \in Frontend
    BY <2>1, <2>3 DEF Frontend
  <2> QED BY <2>4, <2>5, <2>6, <2>7
<1>2. (Composing(longer) <=> Composing(f)) /\ (Composing(empty) <=> Composing(f))
  BY DEF Frontend, Composing
<1>3. Tells(f, Shown(wide)) /\ Tells(f, Shown(latin)) /\ Tells(f, Shown(other))
  BY <1>1, ShownTells DEF Tells
<1>4. Tells(f, [fe |-> longer, st |-> NoState])
  BY <1>1, <1>2, NothingTells
<1>5. Tells(f, [fe |-> empty, st |-> sign])
  <2>0. <<key.id>> \in Seq(Nat)
    BY DEF KeyRecord
  <2>1. /\ sign.start = FALSE /\ sign.pending = Ids(f.pending) /\ ~sign.cands
        /\ sign.text = <<key.id>> /\ sign.mode \in BaseMode /\ sign.mode # "none"
    BY DEF Snapshot, State, BaseMode
  <2>2. sign # NoState
    BY <2>1, Nothing
  <2>3. Ids(f.pending) # <<>> => Composing(f)
    BY IdsOfKeys DEF Frontend, Composing
  <2> QED BY <2>0, <1>1, <1>2, <2>1, <2>2, <2>3 DEF Tells
<1>6. Tells(f, Handed(Spelled(fed, key)))
  BY <1>1, SpelledIsFrontend, HandedTells DEF Tells
<1>7. \/ Feed(f, key) = Shown(wide) \/ Feed(f, key) = Shown(latin)
      \/ Feed(f, key) = Shown(other)
      \/ Feed(f, key) = [fe |-> longer, st |-> NoState]
      \/ Feed(f, key) = [fe |-> empty, st |-> sign]
      \/ Feed(f, key) = Switched(f, key)
      \/ Feed(f, key) = Handed(Spelled(fed, key))
  <2> HIDE DEF wide, latin, longer, empty, other, fed, sign
  <2>1. Feed(f, key) =
          CASE idle /\ key.ch = "L" -> Shown(wide)
            [] idle /\ key.ch = "l" -> Shown(latin)
            [] f.latin /\ ~(idle /\ key.ch \in {"l", "L"}) ->
                 [fe |-> longer, st |-> NoState]
            [] f.wide /\ ~f.latin /\ ~(idle /\ key.ch \in {"l", "L"}) ->
                 [fe |-> empty, st |-> sign]
            [] idle /\ ~f.latin /\ ~f.wide /\ key.ch \in {"q", "Q"} -> Shown(other)
            [] ModeAfterN(f, key) -> Switched(f, key)
            [] OTHER -> Handed(Spelled(fed, key))
    BY DEF Feed, FeedAscii, wide, latin, longer, empty, other, fed, sign
  <2> QED BY <2>1
<1> HIDE DEF wide, latin, longer, empty, other, fed, sign
<1>8. Tells(f, Feed(f, key))
  BY <1>3, <1>4, <1>5, <1>6, <1>7, SwitchedTells
<1> QED BY <1>8 DEF Tells, Feed

(* The loop of RebuildPreedit ends with one frontend at least: the value   *)
(* after every round is a set of frontends that is not empty.              *)
LEMMA RebuiltIsFrontend ==
  ASSUME NEW f \in Frontend
  PROVE  (CHOOSE g \in RebuildPreedit(f) : TRUE) \in Frontend
<1> DEFINE n == Len(f.raw)
           V == (SUBSET Frontend) \ {{}}
           feed == [i \in 1..n |->
                      [gs \in V |-> {FeedAscii(g, f.raw[i]).fe : g \in gs}]]
           z == {Reset(f)}
           fed == CHOOSE h : h = [m \in 0..n |->
                    IF m = 0 THEN z ELSE {FeedAscii(g, f.raw[m]).fe : g \in h[m - 1]}]
<1>1. n \in Nat /\ \A i \in 1..n : f.raw[i] \in KeyRecord
  BY DEF Frontend
<1>2. z \in V
  BY ResetIsFrontend
<1>3. feed \in [1..n -> [V -> V]]
  <2>1. ASSUME NEW i \in 1..n, NEW gs \in V
        PROVE  {FeedAscii(g, f.raw[i]).fe : g \in gs} \in V
    BY <1>1, FeedTells
  <2> QED BY <2>1
<1>4. PICK h : IsLoop(V, z, n, feed, h)
  <2> HIDE DEF n, V, feed, z
  <2> QED BY <1>1, <1>2, <1>3, LoopHasValues
<1>5. h = [m \in 0..n |->
             IF m = 0 THEN z ELSE {FeedAscii(g, f.raw[m]).fe : g \in h[m - 1]}]
  <2>1. h \in [0..n -> V] /\ h[0] = z
        /\ \A i \in 1..n : h[i] = feed[i][h[i - 1]]
    BY <1>4 DEF IsLoop
  <2>2. ASSUME NEW m \in 1..n
        PROVE  h[m] = {FeedAscii(g, f.raw[m]).fe : g \in h[m - 1]}
    <3>1. m - 1 \in 0..n /\ h[m - 1] \in V
      BY <1>1, <2>1
    <3> QED BY <2>1, <3>1
  <2>3. \A m \in 0..n : m = 0 \/ m \in 1..n
    BY <1>1
  <2>4. \A m \in 0..n :
          h[m] = IF m = 0 THEN z ELSE {FeedAscii(g, f.raw[m]).fe : g \in h[m - 1]}
    BY <2>1, <2>2, <2>3
  <2>5. DOMAIN h = 0..n /\ h = [m \in DOMAIN h |-> h[m]]
    BY <2>1
  <2> HIDE DEF n, V, feed, z
  <2> QED BY <2>4, <2>5
<1>6. fed = [m \in 0..n |->
               IF m = 0 THEN z ELSE {FeedAscii(g, f.raw[m]).fe : g \in fed[m - 1]}]
  <2> HIDE DEF n, z
  <2> QED BY <1>5
<1>7. fed[n] \in V
  <2> HIDE DEF fed, V
  <2>1. fed[0] = z
    BY <1>1, <1>6
  <2>2. ASSUME NEW i \in 1..n, fed[i - 1] \in V
        PROVE  fed[i] = feed[i][fed[i - 1]]
    <3>1. i \in 0..n /\ i # 0
      BY <1>1
    <3>2. fed[i] = {FeedAscii(g, f.raw[i]).fe : g \in fed[i - 1]}
      BY <1>6, <3>1
    <3> QED BY <2>2, <3>2
  <2> HIDE DEF z, feed, n
  <2>3. \A i \in 0..n : fed[i] \in V
    BY <1>1, <1>2, <1>3, <2>1, <2>2, LoopStays
  <2> QED BY <1>1, <2>3
<1>8. RebuildPreedit(f) = fed[n]
  BY DEF RebuildPreedit
<1> HIDE DEF fed
<1>9. RebuildPreedit(f) \subseteq Frontend /\ RebuildPreedit(f) # {}
  BY <1>7, <1>8
<1> QED BY <1>9

LEMMA BackspaceTells ==
  ASSUME NEW f \in Frontend
  PROVE  Tells(f, Backspace(f))
<1> DEFINE short == [f EXCEPT !.raw = Front(@)]
           last == [short EXCEPT !.pending = IF @ = <<>> THEN @ ELSE Front(@)]
           g == CHOOSE h \in RebuildPreedit(short) : TRUE
<1>1. CASE ~Composing(f) \/ f.raw = <<>>
  BY <1>1, NothingTells DEF Backspace
<1>2. CASE ~(~Composing(f) \/ f.raw = <<>>)
  <2>1. Front(f.raw) \in Seq(KeyRecord)
    BY <1>2, Shorter DEF Frontend
  <2>2. short \in Frontend
    BY <2>1 DEF Frontend
  <2>3. short.pending = f.pending /\ f.pending \in Seq(KeyRecord)
    BY DEF Frontend
  <2>4. f.pending = <<>> \/ Front(f.pending) \in Seq(KeyRecord)
    BY <2>3, Shorter
  <2>5. last \in Frontend
    BY <2>1, <2>3, <2>4 DEF Frontend
  <2>6. g \in Frontend
    BY <2>2, RebuiltIsFrontend
  <2>7. Backspace(f) = Shown(g) \/ Backspace(f) = Shown(last)
    BY <1>2 DEF Backspace
  <2> HIDE DEF g, last
  <2> QED BY <2>5, <2>6, <2>7, ShownTells DEF Tells
<1> QED BY <1>1, <1>2

LEMMA QuitTells ==
  ASSUME NEW f \in Frontend
  PROVE  /\ Tells(f, Quit(f))
         /\ ~Quit(f).st.start /\ Quit(f).st.pending = <<>>
         /\ Composing(f) => Quit(f).st # NoState
<1> DEFINE st == State(IF f.katakana THEN "katakana" ELSE "hiragana", FALSE,
                       <<>>, <<>>, FALSE)
<1>1. /\ st.mode \in BaseMode /\ st.mode # "none" /\ ~st.start /\ ~st.cands
      /\ st.pending = <<>> /\ st.text \in Seq(Nat)
  BY DEF State, BaseMode
<1>2. st # NoState
  BY <1>1, Nothing
<1>3. Quit(f) = IF ~Composing(f) THEN [fe |-> f, st |-> NoState]
                ELSE [fe |-> Reset(f), st |-> st]
  BY DEF Quit
<1> HIDE DEF st
<1> QED BY <1>1, <1>2, <1>3, NothingTells, ResetIsFrontend, Nothing DEF Tells

LEMMA OthersTell ==
  ASSUME NEW f \in Frontend
  PROVE  /\ Tells(f, Commit(f)) /\ Tells(f, RestorePreedit(f))
         /\ Tells(f, ToKatakana(f)) /\ Tells(f, Kakutei(f))
<1>1. Tells(f, Commit(f))
  BY ConfirmedTells, NothingTells DEF Commit
<1>2. Tells(f, RestorePreedit(f))
  BY ShownTells DEF RestorePreedit
<1>3. Tells(f, ToKatakana(f))
  <2>1. [f EXCEPT !.katakana = TRUE] \in Frontend
    BY DEF Frontend
  <2> QED BY <2>1, ShownTells, NothingTells DEF ToKatakana, Tells
<1>4. Tells(f, Kakutei(f))
  <2>1. \A h \in Frontend : Tells(h, ToHiragana(h))
                            /\ (Composing(ToHiragana(h).fe) <=> Composing(h))
    <3> TAKE h \in Frontend
    <3> DEFINE k == [h EXCEPT !.katakana = FALSE, !.latin = FALSE, !.wide = FALSE]
    <3>1. k \in Frontend /\ (Composing(k) <=> Composing(h))
      BY DEF Frontend, Composing
    <3>2. ToHiragana(h) = Shown(k)
      BY DEF ToHiragana
    <3> HIDE DEF k
    <3> QED BY <3>1, <3>2, ShownTells DEF Tells
  <2>2. CASE ~Composing(f)
    <3>1. Kakutei(f) = [fe |-> ToHiragana(f).fe, st |-> ToHiragana(f).st]
      BY <2>2 DEF Kakutei, Commit
    <3> QED BY <2>1, <3>1 DEF Tells
  <2>3. CASE Composing(f)
    <3>1. Commit(f) = Confirmed(f) /\ Commit(f).st # NoState
      BY <2>3, ConfirmedTells DEF Commit
    <3>2. Kakutei(f) = [fe |-> ToHiragana(Reset(f)).fe,
                        st |-> [Confirmed(f).st EXCEPT !.mode = "hiragana"]]
      BY <3>1, ConfirmedTells DEF Kakutei
    <3>3. ToHiragana(Reset(f)).fe \in Frontend /\ ~Composing(ToHiragana(Reset(f)).fe)
      BY <2>1, ResetIsFrontend DEF Tells
    <3> DEFINE st == [Confirmed(f).st EXCEPT !.mode = "hiragana"]
    <3>4. Tells(f, [fe |-> Reset(f), st |-> st]) /\ ~Composing(Reset(f))
      BY ConfirmedTells, ResetIsFrontend
    <3> HIDE DEF st
    <3> QED BY <3>2, <3>3, <3>4 DEF Tells, st
  <2> QED BY <2>2, <2>3
<1> QED BY <1>1, <1>2, <1>3, <1>4

-----------------------------------------------------------------------------
(* The engine's session: what a request that finds or needs no candidate   *)
(* list answers, and that a session at rest stays at rest.                 *)
LEMMA TextOfSession ==
  ASSUME NEW s \in Session, NEW preedit \in BOOLEAN, NEW text \in Seq(Nat)
  PROVE  LET t == WithText(s, preedit, text)
         IN /\ t \in Session /\ ~t.cand /\ t.fe.preedit = preedit
            /\ t.fe.pending = <<>> /\ t.reg = s.reg
BY Nothing DEF WithText, Session, Frontend

LEMMA CleanedIsText ==
  ASSUME NEW f \in Frontend
  PROVE  Cleaned(f) \in Seq(Nat)
<1>1. f.text \in Seq(Nat) /\ f.pending \in Seq(KeyRecord)
  BY DEF Frontend
<1>2. f.text \o Ids(f.pending) \in Seq(Nat) /\ f.text \o <<>> \in Seq(Nat)
  BY <1>1, IdsOfKeys, Longer, Nothing
<1> QED BY <1>2 DEF Cleaned

LEMMA TypedStays ==
  ASSUME NEW s \in Session, NEW key \in KeyRecord
  PROVE  Typed(s, key) \in Session /\ ~Typed(s, key).cand /\ Typed(s, key).reg = s.reg
<1> DEFINE f == IF s.cand THEN [s.fe EXCEPT !.preedit = FALSE] ELSE s.fe
           fed == FeedAscii(f, key)
           text == IF fed.st = NoState THEN Append(f.text, key.id) ELSE fed.st.text
           after == [fed.fe EXCEPT !.raw = <<>>, !.text = text]
<1>1. f \in Frontend
  BY DEF Session, Frontend
<1>2. Typed(s, key) = [s EXCEPT !.cand = FALSE, !.fe = after]
  BY DEF Typed
<1> HIDE DEF f
<1>3. fed.fe \in Frontend /\ fed.st.text \in Seq(Nat)
  BY <1>1, FeedTells DEF Feed, Tells
<1> HIDE DEF fed
<1>4. text \in Seq(Nat)
  BY <1>1, <1>3 DEF Frontend, KeyRecord
<1> HIDE DEF text
<1>5. after \in Frontend
  BY <1>3, <1>4, Nothing DEF Frontend
<1> HIDE DEF after
<1> QED BY <1>2, <1>5 DEF Session

LEMMA NewSessionRests ==
  NewSession \in Session /\ ~NewSession.reg /\ Resting(NewSession)
  /\ ~NewSession.cand
BY Nothing DEF NewSession, Fresh, Session, Frontend, Resting

(* The loop of FedString.                                                  *)
LEMMA FedStays ==
  ASSUME NEW s \in Session, ~s.reg, ~s.cand, NEW keys \in Seq(KeyRecord),
         NEW t \in FedString(s, keys)
  PROVE  t \in Session /\ ~t.reg /\ ~t.cand
<1> DEFINE n == Len(keys)
           G == {u \in Session : ~u.reg /\ ~u.cand}
           V == SUBSET G
           z == {s}
           type == [i \in 1..n |-> [us \in V |-> {Typed(u, keys[i]) : u \in us}]]
           fed == CHOOSE h : h = [m \in 0..n |->
                    IF m = 0 THEN z ELSE {Typed(u, keys[m]) : u \in h[m - 1]}]
<1>1. n \in Nat /\ \A i \in 1..n : keys[i] \in KeyRecord
  OBVIOUS
<1>2. z \in V
  OBVIOUS
<1>3. type \in [1..n -> [V -> V]]
  <2>1. ASSUME NEW i \in 1..n, NEW us \in V
        PROVE  {Typed(u, keys[i]) : u \in us} \in V
    <3>1. \A u \in us : Typed(u, keys[i]) \in G
      BY <1>1, TypedStays
    <3> QED BY <3>1
  <2> QED BY <2>1
<1>4. PICK h : IsLoop(V, z, n, type, h)
  <2> HIDE DEF n, V, type, z
  <2> QED BY <1>1, <1>2, <1>3, LoopHasValues
<1>5. h = [m \in 0..n |->
             IF m = 0 THEN z ELSE {Typed(u, keys[m]) : u \in h[m - 1]}]
  <2>1. h \in [0..n -> V] /\ h[0] = z
        /\ \A i \in 1..n : h[i] = type[i][h[i - 1]]
    BY <1>4 DEF IsLoop
  <2>2. ASSUME NEW m \in 1..n
        PROVE  h[m] = {Typed(u, keys[m]) : u \in h[m - 1]}
    <3>1. m - 1 \in 0..n /\ h[m - 1] \in V
      BY <1>1, <2>1
    <3> QED BY <2>1, <3>1
  <2>3. \A m \in 0..n : m = 0 \/ m \in 1..n
    BY <1>1
  <2>4. \A m \in 0..n :
          h[m] = IF m = 0 THEN z ELSE {Typed(u, keys[m]) : u \in h[m - 1]}
    BY <2>1, <2>2, <2>3
  <2>5. DOMAIN h = 0..n /\ h = [m \in DOMAIN h |-> h[m]]
    BY <2>1
  <2> HIDE DEF n, V, type, z
  <2> QED BY <2>4, <2>5
<1>6. fed = [m \in 0..n |->
               IF m = 0 THEN z ELSE {Typed(u, keys[m]) : u \in fed[m - 1]}]
  <2> HIDE DEF n, z
  <2> QED BY <1>5
<1>7. fed[n] \in V
  <2> HIDE DEF fed, V
  <2>1. fed[0] = z
    BY <1>1, <1>6
  <2>2. ASSUME NEW i \in 1..n, fed[i - 1] \in V
        PROVE  fed[i] = type[i][fed[i - 1]]
    <3>1. i \in 0..n /\ i # 0
      BY <1>1
    <3>2. fed[i] = {Typed(u, keys[i]) : u \in fed[i - 1]}
      BY <1>6, <3>1
    <3> QED BY <2>2, <3>2
  <2> HIDE DEF z, type, n
  <2>3. \A i \in 0..n : fed[i] \in V
    BY <1>1, <1>2, <1>3, <2>1, <2>2, LoopStays
  <2> QED BY <1>1, <2>3
<1>8. FedString(s, keys) = fed[n]
  BY DEF FedString
<1> HIDE DEF fed
<1> QED BY <1>7, <1>8

LEMMA LineTells ==
  ASSUME NEW s \in Session, ~s.reg
  PROVE  LET st == Line(s)
         IN /\ st.start <=> s.cand \/ s.fe.preedit
            /\ st.cands <=> s.cand
            /\ st.mode = "candidate" => s.cand
            /\ st.mode # "registration" /\ st # NoState
            /\ s.fe.pending = <<>> => st.pending = <<>>
<1>1. s.cand \in BOOLEAN /\ s.fe \in Frontend
  BY DEF Session
<1>2. CASE s.cand
  <2>1. Line(s) = State("candidate", TRUE, s.fe.text, <<>>, TRUE)
    BY <1>2 DEF Line
  <2>2. Line(s).start /\ Line(s).cands /\ Line(s).mode = "candidate"
        /\ Line(s).pending = <<>>
    BY <2>1 DEF State
  <2> QED BY <1>1, <1>2, <2>2, Nothing
<1>3. CASE ~s.cand
  <2>1. Line(s) = Snapshot(s.fe, FALSE)
    BY <1>3 DEF Line
  <2>2. /\ Line(s).start = s.fe.preedit /\ ~Line(s).cands /\ Line(s).mode \in BaseMode
        /\ Line(s).mode # "none" /\ Line(s).pending = Ids(s.fe.pending)
    BY <1>1, <2>1, SnapshotTells DEF Frontend
  <2>3. s.fe.pending = <<>> => Ids(s.fe.pending) = <<>>
    BY <1>1, IdsOfKeys DEF Frontend
  <2>4. Line(s).mode # "candidate" /\ Line(s).mode # "registration" /\ Line(s) # NoState
    BY <2>2, Nothing DEF BaseMode
  <2> QED BY <1>3, <2>2, <2>3, <2>4
<1> QED BY <1>2, <1>3

(* What a control leaves of a session, and what a conversion makes of it.  *)
Kept(t) == t \in Session /\ ~t.reg

LEMMA ControlsKeep ==
  ASSUME NEW s \in Session, ~s.reg
  PROVE  /\ Kept(Committed(s)) /\ Resting(Committed(s))
         /\ Kept(Cancelled(s)) /\ Resting(Cancelled(s))
         /\ Cancelled(s).fe.pending = <<>>
         /\ Kept(Quitted(s)) /\ ~Quitted(s).cand /\ Quitted(s).fe.pending = <<>>
         /\ Kept(Erased(s)) /\ Kept(Reverted(s)) /\ Kept(Transliterated(s))
         /\ Resting(s) => /\ Resting(Quitted(s)) /\ Resting(Erased(s))
                          /\ Resting(Transliterated(s))
<1>1. /\ s.cand \in BOOLEAN /\ s.fe \in Frontend /\ s.reading \in Seq(Nat)
      /\ s.fe.text \in Seq(Nat) /\ Cleaned(s.fe) \in Seq(Nat)
  BY CleanedIsText DEF Session, Frontend
<1>2. Kept(Committed(s)) /\ Resting(Committed(s))
  <2>1. LET t == WithText(s, FALSE, Cleaned(s.fe)) IN Kept(t) /\ Resting(t)
    BY <1>1, TextOfSession DEF Kept, Resting
  <2> QED BY <2>1 DEF Committed, Kept, Resting
<1>3. Kept(Cancelled(s)) /\ Resting(Cancelled(s)) /\ Cancelled(s).fe.pending = <<>>
  <2> DEFINE plain == [s EXCEPT !.fe.latin = FALSE, !.fe.wide = FALSE,
                                !.fe.katakana = FALSE, !.fe.pending = <<>>]
  <2>1. plain \in Session /\ ~plain.reg
    BY Nothing DEF Session, Frontend
  <2>2. plain.cand = s.cand /\ plain.fe.preedit = s.fe.preedit /\ plain.fe.pending = <<>>
    BY <1>1 DEF Session, Frontend
  <2>3. Cancelled(s) = IF s.cand \/ s.fe.preedit THEN WithText(plain, FALSE, <<>>) ELSE plain
    BY DEF Cancelled
  <2> HIDE DEF plain
  <2>4. LET t == WithText(plain, FALSE, <<>>)
        IN Kept(t) /\ Resting(t) /\ t.fe.pending = <<>>
    BY <2>1, Nothing, TextOfSession DEF Kept, Resting
  <2> QED BY <2>1, <2>2, <2>3, <2>4 DEF Kept, Resting
<1>4. /\ Kept(Reverted(s)) /\ ~Reverted(s).cand /\ Reverted(s).fe.pending = <<>>
  BY <1>1, TextOfSession DEF Reverted, Kept
<1>5. /\ Kept(Quitted(s)) /\ ~Quitted(s).cand /\ Quitted(s).fe.pending = <<>>
      /\ Resting(s) => Resting(Quitted(s))
  <2> DEFINE empty == WithText(s, FALSE, <<>>)
             short == [s EXCEPT !.fe.pending = <<>>]
  <2>1. Kept(empty) /\ ~empty.cand /\ empty.fe.pending = <<>> /\ Resting(empty)
    BY <1>1, Nothing, TextOfSession DEF Kept, Resting
  <2>2. /\ short \in Session /\ ~short.reg /\ short.cand = s.cand
        /\ short.fe.preedit = s.fe.preedit /\ short.fe.pending = <<>>
    BY Nothing DEF Session, Frontend
  <2>3. Quitted(s) = IF s.cand THEN Reverted(s)
                     ELSE IF s.fe.preedit THEN empty ELSE short
    BY DEF Quitted
  <2> HIDE DEF empty, short
  <2> QED BY <1>4, <2>1, <2>2, <2>3 DEF Kept, Resting
<1>6. Kept(Erased(s)) /\ (Resting(s) => Resting(Erased(s)))
  <2> DEFINE short == [s EXCEPT !.fe.pending = <<>>]
             less == [s EXCEPT !.fe.text = Front(@)]
  <2>1. /\ short \in Session /\ ~short.reg /\ short.cand = s.cand
        /\ short.fe.preedit = s.fe.preedit
    BY Nothing DEF Session, Frontend
  <2>2. ASSUME s.fe.text # <<>>
        PROVE  /\ less \in Session /\ ~less.reg /\ less.cand = s.cand
               /\ less.fe.preedit = s.fe.preedit
    <3>1. Front(s.fe.text) \in Seq(Nat)
      BY <1>1, <2>2, Shorter
    <3> QED BY <3>1 DEF Session, Frontend
  <2>3. Erased(s) = IF s.fe.pending # <<>> THEN short
                    ELSE IF s.fe.text # <<>> THEN less ELSE s
    BY DEF Erased
  <2> HIDE DEF short, less
  <2> QED BY <2>1, <2>2, <2>3 DEF Kept, Resting
<1>7. Kept(Transliterated(s)) /\ (Resting(s) => Resting(Transliterated(s)))
  BY <1>4 DEF Transliterated, Kept, Resting
<1> QED BY <1>2, <1>3, <1>4, <1>5, <1>6, <1>7

LEMMA ConvertedKeeps ==
  ASSUME NEW s \in Session, ~s.reg, NEW t \in Converted(s), ~t.reg
  PROVE  Kept(t) /\ (Resting(s) => Resting(t))
<1> DEFINE reading == Cleaned(s.fe)
<1>1. reading \in Seq(Nat)
  BY CleanedIsText DEF Session
<1>2. \A words : Registering(words).reg
  BY DEF Registering, NewSession
<1>3. Kept(Shows(s, reading))
  <2> HIDE DEF reading
  <2>1. LET u == WithText(s, FALSE, reading) IN u \in Session /\ u.reg = s.reg
    BY <1>1, TextOfSession
  <2>2. s.reg = FALSE
    BY DEF Session
  <2> QED BY <1>1, <2>1, <2>2 DEF Shows, Kept, Session
<1>4. Kept(WithText(s, FALSE, <<>>)) /\ Resting(WithText(s, FALSE, <<>>))
  BY Nothing, TextOfSession DEF Kept, Resting
<1>5. t = s \/ (t = WithText(s, FALSE, <<>>)) \/ (t = Shows(s, reading) /\ s.fe.preedit)
  BY <1>2 DEF Converted
<1> QED BY <1>3, <1>4, <1>5 DEF Kept, Resting

(* The answer r to a request says what the session r.s is afterwards.      *)
Reports(r) ==
  /\ r.s \in Session /\ ~r.s.reg
  /\ r.st.start <=> r.s.cand \/ r.s.fe.preedit
  /\ r.st.cands <=> r.s.cand
  /\ r.st.mode = "candidate" => r.s.cand
  /\ r.st.mode # "registration" /\ r.st # NoState

LEMMA ReplyAnswers ==
  ASSUME NEW s, Kept(s)
  PROVE  /\ Reports(Reply(s)) /\ Reply(s).s = s
         /\ s.fe.pending = <<>> => Reply(s).st.pending = <<>>
BY LineTells DEF Reply, Kept, Reports

LEMMA SettledAnswers ==
  ASSUME NEW s, Kept(s)
  PROVE  /\ Reports(Settled(s))
         /\ Resting(s) => Resting(Settled(s).s)
         /\ s.fe.pending = <<>> => Settled(s).st.pending = <<>>
<1>1. Settled(s).s = Truncated(s) /\ Settled(s).st = Line(s)
  BY DEF Settled
<1>2. /\ Truncated(s) \in Session /\ Truncated(s).reg = s.reg
      /\ Truncated(s).cand = s.cand /\ Truncated(s).fe.preedit = s.fe.preedit
  <2>1. (IF Idle(s) THEN <<>> ELSE s.fe.text) \in Seq(Nat)
    BY Nothing DEF Kept, Session, Frontend
  <2> QED BY <2>1, Nothing DEF Truncated, Kept, Session, Frontend
<1> QED BY <1>1, <1>2, LineTells DEF Kept, Reports, Resting

LEMMA ExecAnswers ==
  ASSUME NEW s \in Session, ~s.reg, NEW req \in Call, NEW r \in Exec(s, req),
         ~r.s.reg
  PROVE  /\ Reports(r)
         /\ req.verb \in {"QUIT", "CANCEL"} => r.st.pending = <<>>
         /\ req.verb = "QUIT" => ~r.s.cand
         /\ req.verb = "CANCEL" \/ (Resting(s) /\ req.verb # "CONVERT-KEYS")
              => Resting(r.s)
<1> USE DEF Exec
<1>1. CASE req.verb = "CONVERT-KEYS"
  <2>0. PICK b \in FedString(NewSession, req.keys) : \E u \in Converted(b) : r = Reply(u)
    BY <1>1
  <2>1. PICK t \in Converted(b) : r = Reply(t)
    BY <2>0
  <2>2. b \in Session /\ ~b.reg
    BY <2>0, FedStays, NewSessionRests DEF Call
  <2>3. ~t.reg
    BY <2>1 DEF Reply
  <2> QED BY <1>1, <2>1, <2>2, <2>3, ConvertedKeeps, ReplyAnswers
<1>2. CASE req.verb = "CONVERT"
  <2>1. PICK t \in Converted(s) : r = Reply(t)
    BY <1>2
  <2>2. ~t.reg
    BY <2>1 DEF Reply
  <2> QED BY <1>2, <2>1, <2>2, ConvertedKeeps, ReplyAnswers
<1>3. CASE req.verb = "PREVIOUS"
  <2>1. r = Reply(s) \/ (s.cand /\ r = Reply(Reverted(s)))
    BY <1>3
  <2> QED BY <1>3, <2>1, ControlsKeep, ReplyAnswers DEF Kept, Resting
<1>4. CASE req.verb = "TO-KANA"
  <2>1. r = Reply(Transliterated(s))
    BY <1>4
  <2> QED BY <1>4, <2>1, ControlsKeep, ReplyAnswers
<1>5. CASE req.verb = "COMMIT"
  <2>1. r = Settled(Committed(s))
    BY <1>5
  <2> QED BY <1>5, <2>1, ControlsKeep, SettledAnswers
<1>6. CASE req.verb = "CANCEL"
  <2>1. r = Settled(Cancelled(s))
    BY <1>6
  <2> QED BY <1>6, <2>1, ControlsKeep, SettledAnswers
<1>7. CASE req.verb = "QUIT"
  <2>1. r = Settled(Quitted(s))
    BY <1>7
  <2>2. r.s.cand = Quitted(s).cand
    BY <2>1, ControlsKeep, SettledAnswers DEF Settled, Truncated, Kept, Session
  <2> QED BY <1>7, <2>1, <2>2, ControlsKeep, SettledAnswers
<1>8. CASE req.verb = "BACKSPACE"
  <2>1. r = Settled(Erased(s))
    BY <1>8
  <2> QED BY <1>8, <2>1, ControlsKeep, SettledAnswers
<1> QED BY <1>1, <1>2, <1>3, <1>4, <1>5, <1>6, <1>7, <1>8 DEF Call

-----------------------------------------------------------------------------
(* The queues of calls and results, as far as they know which one counts.  *)
NoneCounts == \A i \in DOMAIN posted : ~posted[i].current
NoNewResult ==
  \A i \in DOMAIN posted' : \E j \in DOMAIN posted : posted'[i].st = posted[j].st

LEMMA ResultsStayTrue ==
  ASSUME ResultIsTrue, NoNewResult, NoneCounts'  PROVE ResultIsTrue'
BY DEF ResultIsTrue, NoNewResult, NoneCounts

LEMMA StaleCount ==
  ASSUME Queues, NEW q, IsSequence(q), \A i \in DOMAIN q : Clear(q[i]),
         \A i \in DOMAIN q : \E j \in DOMAIN posted : q[i].st = posted[j].st,
         posted' = Stale(q)
  PROVE  NoneCounts' /\ NoNewResult
<1>1. /\ DOMAIN posted' = DOMAIN q
      /\ \A i \in DOMAIN q : ~posted'[i].current
  BY StaleResults
<1>2. ASSUME NEW i \in DOMAIN q  PROVE posted'[i].st = q[i].st
  <2>1. posted'[i] = [q[i] EXCEPT !.current = FALSE] /\ IsResult(q[i])
    BY DEF Stale, Clear
  <2> QED BY <2>1 DEF IsResult
<1> QED BY <1>1, <1>2 DEF NoneCounts, NoNewResult

LEMMA TailOfPosted ==
  ASSUME Queues, posted # <<>>
  PROVE  /\ IsSequence(Tail(posted)) /\ \A i \in DOMAIN Tail(posted) : Clear(Tail(posted)[i])
         /\ Head(posted) = posted[1] /\ 1 \in DOMAIN posted
         /\ \A i \in DOMAIN Tail(posted) :
              i + 1 \in DOMAIN posted /\ i + 1 # 1 /\ Tail(posted)[i] = posted[i + 1]
<1>1. /\ Len(posted) \in Nat /\ DOMAIN posted = 1..Len(posted)
      /\ DOMAIN Tail(posted) = 1..Len(posted) - 1
      /\ \A i \in 1..Len(posted) - 1 : Tail(posted)[i] = posted[i + 1]
  BY TailShape DEF Queues
<1> QED BY <1>1, TailOfResults

LEMMA BegunCall ==
  ASSUME Queues, CallsInOrder, NEW req \in Call,
         calls' = Append(Stale(calls), NewCall(req)), pending' = TRUE
  PROVE  CallsInOrder'
<1> DEFINE s == Stale(calls)
<1>1. /\ IsSequence(s) /\ DOMAIN s = DOMAIN calls /\ \A i \in DOMAIN s : ~s[i].current
  BY StaleCalls DEF Queues
<1>2. ASSUME NEW i \in DOMAIN calls
      PROVE  s[i].sent = calls[i].sent /\ s[i].req = calls[i].req
  <2>1. s[i] = [calls[i] EXCEPT !.current = FALSE] /\ IsCall(calls[i])
    BY DEF Stale, Queues
  <2> QED BY <2>1 DEF IsCall
<1>3. calls' = Append(s, NewCall(req))
  OBVIOUS
<1> HIDE DEF s
<1>4. /\ IsSequence(calls') /\ DOMAIN calls' = 1..Len(s) + 1 /\ DOMAIN s = 1..Len(s)
      /\ Len(s) \in Nat /\ \A i \in 1..Len(s) : calls'[i] = s[i]
      /\ calls'[Len(s) + 1] = NewCall(req)
  BY <1>1, <1>3, AppendShape
<1>5. Len(calls') = Len(s) + 1
  BY <1>4, SequenceShape DEF IsSequence
<1>6. NewCall(req).req = req /\ ~NewCall(req).sent
  BY DEF NewCall
<1>7. ASSUME NEW i \in DOMAIN calls'
      PROVE  /\ calls'[i].req \in Call
             /\ calls'[i].current => i = Len(calls') /\ pending'
             /\ calls'[i].sent => i = 1
  <2>1. i = Len(s) + 1 \/ i \in 1..Len(s)
    BY <1>4
  <2>2. CASE i = Len(s) + 1
    BY <1>4, <1>5, <1>6, <2>2
  <2>3. CASE i \in 1..Len(s)
    BY <1>1, <1>2, <1>4, <2>3 DEF CallsInOrder
  <2> QED BY <2>1, <2>2, <2>3
<1> QED BY <1>7 DEF CallsInOrder

LEMMA BeginsInOrder ==
  ASSUME Queues, CallsInOrder, ResultIsTrue, NEW req \in Call, Begin(req)
  PROVE  CallsInOrder' /\ ResultIsTrue' /\ pending'
<1>1. NoneCounts' /\ NoNewResult
  BY StaleCount DEF Begin, Queues
<1> QED BY <1>1, BegunCall, ResultsStayTrue DEF Begin

LEMMA BeginsNextInOrder ==
  ASSUME Queues, CallsInOrder, ResultIsTrue, posted # <<>>, NEW req \in Call,
         BeginNext(req)
  PROVE  CallsInOrder' /\ ResultIsTrue' /\ pending'
<1>1. NoneCounts' /\ NoNewResult
  BY TailOfPosted, StaleCount DEF BeginNext
<1> QED BY <1>1, BegunCall, ResultsStayTrue DEF BeginNext

LEMMA CancelsInOrder ==
  ASSUME Queues, CallsInOrder, ResultIsTrue, CancelPendingProvider
  PROVE  CallsInOrder' /\ ResultIsTrue' /\ ~pending' /\ deferred' = <<>>
<1>1. calls' = [i \in DOMAIN calls |-> calls'[i]]
      /\ \A i \in DOMAIN calls :
           calls'[i] = [calls[i] EXCEPT !.current = FALSE, !.cut = @ \/ calls[i].sent]
  BY DEF CancelPendingProvider
<1>2. ASSUME NEW i \in DOMAIN calls
      PROVE  ~calls'[i].current /\ calls'[i].sent = calls[i].sent
             /\ calls'[i].req = calls[i].req
  BY <1>1 DEF Queues, IsCall
<1>3. CallsInOrder'
  BY <1>1, <1>2 DEF CallsInOrder
<1>4. NoneCounts' /\ NoNewResult
  BY StaleCount DEF Queues, CancelPendingProvider
<1> QED BY <1>3, <1>4, ResultsStayTrue DEF CancelPendingProvider

LEMMA TailInOrder ==
  ASSUME Queues, CallsInOrder, ResultIsTrue, posted # <<>>, posted' = Tail(posted),
         UNCHANGED <<calls, session>>,
         \/ pending' = pending
         \/ Head(posted).current
  PROVE  CallsInOrder' /\ ResultIsTrue'
<1>1. /\ Head(posted) = posted[1] /\ 1 \in DOMAIN posted
      /\ \A i \in DOMAIN posted' :
           i + 1 \in DOMAIN posted /\ i + 1 # 1 /\ posted'[i] = posted[i + 1]
  BY TailOfPosted
<1>2. CASE pending' = pending
  BY <1>1, <1>2 DEF CallsInOrder, ResultIsTrue
<1>3. CASE Head(posted).current
  <2>1. calls = <<>> /\ DOMAIN calls = {}
    BY <1>1, <1>3 DEF ResultIsTrue
  <2>2. \A i \in DOMAIN posted' : ~posted'[i].current
    BY <1>1, <1>3 DEF Queues, NewestCall
  <2>3. NoneCounts' /\ NoNewResult
    BY <1>1, <2>2 DEF NoneCounts, NoNewResult
  <2> QED BY <2>1, <2>3, ResultsStayTrue DEF CallsInOrder
<1> QED BY <1>2, <1>3

-----------------------------------------------------------------------------
(* What a key gets, and what its answer does.                              *)
Good == Invariant /\ QuitInv

LEMMA CalmFacts ==
  ASSUME Calm
  PROVE  /\ Granted = {TRUE}
         /\ {"unknown", "overtake", "denied", "terminate", "close", "mouse", "langbar",
             "reactivate"} \cap Events = {}
         /\ Keys \subseteq (Letters \cup Controls) \ {"Q"}
BY ServiceAssumption DEF Calm, Granted

LEMMA KeyFacts ==
  ASSUME Calm, Good, ui.at = "key"
  PROVE  /\ ui.key \in KeyRecord /\ ui.key.ch \in (Letters \cup Controls) \ {"Q"}
         /\ context \in Context
<1>1. ui.key \in KeyRecord /\ context \in Context
  BY DEF Good, QuitInv, Automata, Invariant, Settings
<1> QED BY <1>1, CalmFacts DEF KeyRecord

LEMMA AskReports ==
  ASSUME Calm, Good, NEW req \in Call, NEW r \in Ask(req)
  PROVE  /\ r.fe = fe /\ r.s \in Session /\ ~r.s.reg
         /\ \/ r.st = NoState /\ r.s = session
            \/ /\ Reports(r)
               /\ req.verb \in {"QUIT", "CANCEL"} => r.st.pending = <<>>
               /\ req.verb = "QUIT" => ~r.s.cand
               /\ req.verb = "CANCEL"
                  \/ (Resting(session) /\ req.verb # "CONVERT-KEYS") => Resting(r.s)
<1>1. session \in Session /\ ~session.reg
  BY DEF Good, QuitInv, Automata
<1>2. CASE r = [fe |-> fe, s |-> session, resync |-> TRUE, st |-> NoState]
  BY <1>1, <1>2
<1>3. CASE r # [fe |-> fe, s |-> session, resync |-> TRUE, st |-> NoState]
  <2> DEFINE before == IF resync THEN NewSession ELSE session
  <2>1. PICK a \in Outcomes(before, req) :
          r = [fe |-> fe, s |-> a.s, resync |-> FALSE, st |-> a.st]
    BY <1>3 DEF Ask
  <2>2. before \in Session /\ ~before.reg /\ (Resting(session) => Resting(before))
    BY <1>1, NewSessionRests
  <2> HIDE DEF before
  <2>3. a \in Exec(before, req) /\ ~a.s.reg
    BY <2>1, CalmFacts DEF Outcomes
  <2>4. r.s = a.s /\ r.st = a.st /\ r.fe = fe
    BY <2>1
  <2> QED BY <2>2, <2>3, <2>4, ExecAnswers DEF Reports
<1> QED BY <1>2, <1>3

LEMMA LocallyTells ==
  ASSUME NEW t, Tells(fe, t), NEW r \in Locally(t)
  PROVE  Tells(fe, r) /\ r.s = session /\ r.st = t.st /\ r.fe = t.fe
<1>1. r = [fe |-> t.fe, s |-> session, resync |-> resync, st |-> t.st]
  BY DEF Locally
<1>2. r.fe = t.fe /\ r.st = t.st /\ r.s = session
  BY <1>1
<1> QED BY <1>2 DEF Tells

(* The frontend answers, or the engine: it is asked about a candidate only *)
(* with Ctrl+G, and with nothing under way only about the input mode.      *)
FromFrontend(r) ==
  /\ Tells(fe, r) /\ r.s = session
  /\ provComp => r.st.start \/ r.st.pending = <<>>
  /\ ui.key.ch = "ctrlg" => provComp \/ (~r.st.start /\ r.st.pending = <<>>)
FromSession(r, req) ==
  /\ r \in Ask(req) /\ req.verb # "CONVERT-KEYS"
  /\ provComp => ui.key.ch = "ctrlg"
  /\ ui.key.ch = "ctrlg" => req.verb = "QUIT" /\ (provComp \/ ~Composing(fe))
  /\ InFlight \/ Composing(fe) \/ provComp \/ req.verb = "CANCEL"

LEMMA ControlCalls ==
  ASSUME NEW key, key.ch \in Controls
  PROVE  LET req == Request(ControlOf[key.ch], <<>>)
         IN /\ req \in Call /\ req.verb # "CONVERT-KEYS"
            /\ key.ch \in {"ctrlg", "escape"} <=> req.verb = "QUIT"
            /\ key.ch = "ctrlj" <=> req.verb = "CANCEL"
BY Nothing DEF Controls, ControlOf, Request, Call

LEMMA LocalOrAsked ==
  ASSUME Calm, Good, Takes(Letters \cup Controls), ~pending, ~AsksProvider,
         NEW r \in Result(ui.key)
  PROVE  FromFrontend(r) \/ \E req \in Call : FromSession(r, req)
<1> DEFINE ch == ui.key.ch
           req == Request(ControlOf[ch], <<>>)
<1>1. /\ ui.at = "key" /\ Claimed(ch) /\ ui.key \in KeyRecord
      /\ ch \in (Letters \cup Controls) \ {"Q"}
  BY KeyFacts DEF Takes
<1>2. ~regMode /\ fe \in Frontend /\ (candidate => provComp)
  BY DEF Good, QuitInv, Plain, Automata, Candidates
<1>3. provComp => ch \in {"escape", "ctrlg"}
  BY <1>1 DEF AsksProvider, KatakanaQ
<1>4. ~provComp => RealTime
  BY <1>2 DEF RealTime
<1>5. ch \in Controls => InFlight \/ ch = "ctrlj" \/ (ch = "space" /\ fe.wide)
  BY <1>1, <1>2 DEF Claimed, Controls, ControlOf, Letters
<1>6. ASSUME NEW t, Tells(fe, t), r \in Locally(t), ~provComp, ch # "ctrlg"
      PROVE  FromFrontend(r)
  BY <1>6, LocallyTells DEF FromFrontend
<1>7. ASSUME r \in FromEngine(ui.key), ch \in Controls, ~provComp, ch # "ctrlg",
             ~(ch = "space" /\ fe.wide)
      PROVE  \E q \in Call : FromSession(r, q)
  <2>1. FromSession(r, req) /\ req \in Call
    BY <1>5, <1>7, ControlCalls DEF FromSession, FromEngine
  <2> QED BY <2>1
<1>8. CASE ch \in {"ctrlj", "back", "space", "left", "right"}
  <2>1. ~provComp /\ ch # "ctrlg" /\ ch \in Controls
    BY <1>3, <1>8 DEF Controls, ControlOf
  <2>2. r \in EditingKey(ui.key)
    BY <1>8 DEF Result
  <2>3. CASE ch = "ctrlj"
    <3>1. r \in Locally(Kakutei(fe)) \/ r \in FromEngine(ui.key)
      BY <2>2, <2>3 DEF EditingKey
    <3> QED BY <1>2, <1>6, <1>7, <2>1, <2>3, <3>1, OthersTell
  <2>4. CASE ch = "back"
    <3>1. r \in Locally(Backspace(fe)) \/ r \in FromEngine(ui.key)
      BY <2>2, <2>4 DEF EditingKey
    <3> QED BY <1>2, <1>6, <1>7, <2>1, <2>4, <3>1, BackspaceTells
  <2>5. CASE ch = "space"
    <3>1. IF fe.wide THEN r \in Locally(Feed(fe, ui.key)) ELSE r \in FromEngine(ui.key)
      BY <2>2, <2>5 DEF EditingKey
    <3> QED BY <1>1, <1>2, <1>6, <1>7, <2>1, <2>5, <3>1, FeedTells
  <2>6. CASE ch \in {"left", "right"}
    <3>1. r \in FromEngine(ui.key)
      BY <2>2, <2>6 DEF EditingKey
    <3> QED BY <1>7, <2>1, <2>6, <3>1
  <2> QED BY <1>8, <2>3, <2>4, <2>5, <2>6
<1>9. CASE ch = "f7"
  <2>1. ~provComp /\ ch \in Controls
    BY <1>3, <1>9 DEF Controls, ControlOf
  <2>2. r \in Locally(ToKatakana(fe)) \/ r \in FromEngine(ui.key)
    BY <1>9 DEF Result
  <2> QED BY <1>2, <1>6, <1>7, <1>9, <2>1, <2>2, OthersTell
<1>10. CASE ch = "return"
  <2>1. ~provComp /\ ch \in Controls
    BY <1>3, <1>10 DEF Controls, ControlOf
  <2>2. r \in Locally(Commit(fe)) \/ r \in FromEngine(ui.key)
    BY <1>10 DEF Result
  <2> QED BY <1>2, <1>6, <1>7, <1>10, <2>1, <2>2, OthersTell
<1>11. CASE ch = "escape"
  <2>1. ch \in Controls
    BY <1>11 DEF Controls, ControlOf
  <2>2. \/ Restores /\ r \in Locally(RestorePreedit(fe))
        \/ Composing(fe) /\ r \in Locally(Quit(fe))
        \/ ~Composing(fe) /\ r \in FromEngine(ui.key)
    BY <1>11 DEF Result
  <2>3. CASE Restores /\ r \in Locally(RestorePreedit(fe))
    BY <1>2, <1>11, <2>3, LocallyTells, OthersTell, ShownTells
    DEF FromFrontend, Restores, RestorePreedit
  <2>4. CASE r \in Locally(Quit(fe))
    BY <1>2, <1>11, <2>4, LocallyTells, QuitTells DEF FromFrontend
  <2>5. CASE ~Composing(fe) /\ r \in FromEngine(ui.key)
    <3>1. ~provComp
      BY <2>5 DEF Good, QuitInv, Owned, Quiet
    <3> QED BY <1>7, <1>11, <2>1, <2>5, <3>1
  <2> QED BY <2>2, <2>3, <2>4, <2>5
<1>12. CASE ch = "ctrlg"
  <2>1. ch \in Controls
    BY <1>12 DEF Controls, ControlOf
  <2>2. \/ Restores /\ r \in Locally(RestorePreedit(fe))
        \/ Composing(fe) /\ ~provComp /\ r \in Locally(Quit(fe))
        \/ (~Composing(fe) \/ provComp) /\ r \in FromEngine(ui.key)
    BY <1>2, <1>12 DEF Result
  <2>3. CASE Restores /\ r \in Locally(RestorePreedit(fe))
    BY <1>2, <2>3, LocallyTells, OthersTell, ShownTells
    DEF FromFrontend, Restores, RestorePreedit
  <2>4. CASE r \in Locally(Quit(fe))
    BY <1>2, <2>4, LocallyTells, QuitTells DEF FromFrontend
  <2>5. CASE (~Composing(fe) \/ provComp) /\ r \in FromEngine(ui.key)
    <3>1. InFlight
      BY <1>5, <1>12, <2>1
    <3>2. FromSession(r, req) /\ req \in Call
      BY <1>12, <2>1, <2>5, <3>1, ControlCalls DEF FromSession, FromEngine
    <3> QED BY <3>2
  <2> QED BY <2>2, <2>3, <2>4, <2>5
<1>13. CASE ch \in Letters \ {"Q"}
  <2>1. ~provComp /\ ch # "ctrlg"
    BY <1>3, <1>13 DEF Letters
  <2>2. r \in Locally(Feed(fe, ui.key))
    BY <1>4, <1>13, <2>1 DEF Result, Letters
  <2> QED BY <1>1, <1>2, <1>6, <2>1, <2>2, FeedTells
<1>14. ch \in Controls => ch \in {"return", "space", "back", "ctrlj", "left", "right",
                                 "f7", "escape", "ctrlg"}
  BY DEF Controls, ControlOf
<1> QED BY <1>1, <1>8, <1>9, <1>10, <1>11, <1>12, <1>13, <1>14

LEMMA QueuesUntouched ==
  ASSUME QuitInv, UNCHANGED <<calls, posted, pending>>, ~pending \/ UNCHANGED session
  PROVE  CallsInOrder' /\ ResultIsTrue'
BY DEF QuitInv, CallsInOrder, ResultIsTrue

(* An edit that is granted shows the composition that the state opens.     *)
LEMMA EditShows ==
  ASSUME NEW c, NEW st, NEW range, IsComp(comp), comp # NoComp => comp.ctx = c,
         Edit(c, st, FALSE, range, TRUE)
  PROVE  /\ ~regCommit'
         /\ comp' # NoComp => comp'.ctx = c /\ (st.start \/ st.pending # <<>>)
<1> DEFINE ends == ~st.start /\ st.pending = <<>>
<1>1. regCommit' = FALSE
  BY DEF Edit
<1>2. \/ comp' = NoComp
      \/ comp # NoComp /\ ~ends /\ \E text : comp' = [comp EXCEPT !.text = text]
      \/ ~ends /\ \E text : comp' = [id |-> NewId, ctx |-> c, text |-> text]
  BY DEF Edit
<1>3. ASSUME comp # NoComp, NEW text, comp' = [comp EXCEPT !.text = text]
      PROVE  comp'.ctx = c
  BY <1>3 DEF IsComp
<1>4. ASSUME NEW text, comp' = [id |-> NewId, ctx |-> c, text |-> text]
      PROVE  comp'.ctx = c
  BY <1>4
<1> QED BY <1>1, <1>2, <1>3, <1>4

LEMMA ApplyShows ==
  ASSUME Good, NEW f, NEW st, st.mode # "registration", Apply(context, f, st, TRUE)
  PROVE  /\ fe' = f /\ ~regMode' /\ ~regCommit'
         /\ provComp' <=> st.start /\ st.cands
         /\ enginePending' <=> st.start \/ st.pending # <<>>
         /\ candidate' <=> st.mode = "candidate"
         /\ comp' # NoComp => comp'.ctx = context /\ (st.start \/ st.pending # <<>>)
<1>1. ~regMode /\ IsComp(comp) /\ (comp # NoComp => comp.ctx = context)
  BY DEF Good, QuitInv, Plain, CompositionHere, Invariant, Compositions
<1>2. /\ fe' = f /\ regMode' = FALSE
      /\ provComp' <=> st.start /\ st.cands
      /\ enginePending' <=> st.start \/ st.pending # <<>>
      /\ candidate' <=> st.mode = "candidate"
  BY DEF Apply
<1>3. Edit(context, st, FALSE, regRange, TRUE)
  BY <1>1 DEF Apply
<1> QED BY <1>1, <1>2, <1>3, EditShows

(* Relinquishing the composition leaves nothing under way.                 *)
LEMMA RelinquishEnds ==
  ASSUME Calm, Good, NEW kept, Relinquish(kept)
  PROVE  /\ fe' = Reset(fe) /\ UNCHANGED session /\ deferred' = <<>>
         /\ ~regMode' /\ ~regCommit' /\ orphans' = {} /\ ~candidate' /\ Ended'
         /\ \A i \in DOMAIN edits' : edits'[i].kind = "end"
         /\ CallsInOrder' /\ ResultIsTrue'
<1>1. /\ fe' = Reset(fe) /\ UNCHANGED session
      /\ ~regMode' /\ ~regCommit' /\ ~candidate'
      /\ ~provComp' /\ ~enginePending' /\ comp' = NoComp
      /\ CancelPendingProvider /\ EndComposition(kept)
  BY DEF Relinquish
<1>2. /\ CallsInOrder' /\ ResultIsTrue' /\ ~pending' /\ deferred' = <<>>
  BY <1>1, CancelsInOrder DEF Good, QuitInv, Invariant
<1>3. /\ orphans = {} /\ IsSequence(edits)
      /\ \A i \in DOMAIN edits : edits[i].kind = "end"
  BY DEF Good, QuitInv, Plain, Invariant, Compositions, Waiting
<1>4. UNCHANGED orphans
  BY <1>1, CalmFacts DEF EndComposition, tsf
<1>5. \A i \in DOMAIN edits' : edits'[i].kind = "end"
  <2>1. UNCHANGED edits \/ \E e : e.kind = "end" /\ edits' = Append(edits, e)
    BY <1>1, CalmFacts DEF EndComposition, tsf
  <2>2. ASSUME NEW e, e.kind = "end", edits' = Append(edits, e)
        PROVE  \A i \in DOMAIN edits' : edits'[i].kind = "end"
    <3>1. /\ DOMAIN edits' = 1..Len(edits) + 1 /\ DOMAIN edits = 1..Len(edits)
          /\ Len(edits) \in Nat /\ \A i \in 1..Len(edits) : edits'[i] = edits[i]
          /\ edits'[Len(edits) + 1] = e
      BY <1>3, <2>2, AppendShape
    <3>2. \A i \in DOMAIN edits' : i = Len(edits) + 1 \/ i \in 1..Len(edits)
      BY <3>1
    <3> QED BY <1>3, <2>2, <3>1, <3>2
  <2> QED BY <1>3, <2>1, <2>2
<1> QED BY <1>1, <1>2, <1>3, <1>4, <1>5 DEF Ended

(* When everything has ended little is left to say.                        *)
LEMMA AllEnded ==
  ASSUME Good, UNCHANGED <<active, keyboardOpen>>, ~regMode', ~regCommit', orphans' = {},
         ~candidate', Ended', \A i \in DOMAIN edits' : edits'[i].kind = "end"
  PROVE  Plain' /\ CompositionHere' /\ Owned' /\ (candidate' => provComp')
BY DEF Good, QuitInv, Plain, CompositionHere, Owned, InFlight, Ended

-----------------------------------------------------------------------------
(* Keys.                                                                   *)
LEMMA QuitsAtLoop ==
  ASSUME ui' = Loop, quits' \in 0..2, candidate' => provComp',
         quits' = 2 => Ended', quits' = 1 => ~pending' /\ ~provComp'
  PROVE  Quits' /\ Candidates'
BY AtLoop DEF Quits, Candidates

LEMMA CountsQuits ==
  ASSUME quits \in 0..2
  PROVE  /\ Min({2, quits + 1}) \in 1..2
         /\ Min({2, quits + 1}) = 2 => quits >= 1
<1>1. \E x \in {2, quits + 1} : \A y \in {2, quits + 1} : x <= y
  BY SMT
<1>2. /\ Min({2, quits + 1}) \in {2, quits + 1}
      /\ \A y \in {2, quits + 1} : Min({2, quits + 1}) <= y
  BY <1>1 DEF Min
<1> QED BY <1>2

LEMMA KeyDownEnds ==
  ASSUME Calm, Good, NEW c \in Context, NEW ch \in Keys, KeyDown(c, ch)
  PROVE  QuitInv'
<1> DEFINE key == [id |-> Len(where) + 1, ch |-> ch]
<1>1. /\ QuitInv /\ ~regMode /\ quits \in 0..2 /\ ui = Loop /\ where \in Seq(Context)
  BY DEF Good, QuitInv, Plain, Quits, Automata, KeyDown
<1>2. /\ UNCHANGED <<active, keyboardOpen>> /\ where' \in Seq(Context)
      /\ quits' = IF ch = "ctrlg" /\ keyboardOpen /\ Claimed(ch)
                  THEN Min({2, quits + 1}) ELSE 0
  BY <1>1 DEF KeyDown, keyboard
<1>3. quits' \in 0..2
  BY <1>1, <1>2, CountsQuits
<1>4. quits' >= 1 => ch = "ctrlg" /\ Claimed(ch)
  BY <1>2
<1>5. ch = "ctrlg" /\ Claimed(ch) => kana /\ InFlight
  BY <1>1 DEF Claimed, Letters
<1>6. quits' = 2 => ~pending /\ ~provComp
  BY <1>1, <1>2, CountsQuits DEF QuitInv, Quits, Ended
<1>7. key \in KeyRecord /\ key.ch = ch
  BY <1>1 DEF KeyRecord
<1>8. CASE /\ ~(keyboardOpen /\ Claimed(ch))
           /\ PassThrough(c, key) /\ UNCHANGED context
  <2>1. /\ UNCHANGED <<comp, context, regCommit, fe, kana, candidate, enginePending,
                       provComp, regMode, pending, deferred, calls, posted, session,
                       edits, orphans>>
        /\ ui' = Loop /\ quits' = 0
    BY <1>2, <1>8 DEF PassThrough, provider, engine, tsf, modes
  <2>2. CallsInOrder' /\ ResultIsTrue'
    BY <1>1, <2>1, QueuesUntouched
  <2>3. Automata' /\ Plain' /\ CompositionHere' /\ Owned'
    BY <1>1, <1>2, <2>1, AtLoop
    DEF QuitInv, Automata, Plain, CompositionHere, Owned, Quiet, InFlight
  <2>4. Quits' /\ Candidates'
    BY <1>1, <2>1, QuitsAtLoop DEF QuitInv, Candidates
  <2> QED BY <2>2, <2>3, <2>4 DEF QuitInv
<1>9. CASE /\ keyboardOpen /\ Claimed(ch) /\ (context = c \/ ~Abandons)
           /\ context' = c /\ ui' = [at |-> "key", key |-> key]
           /\ UNCHANGED <<document, fe, modes, failed, candUi, provider, engine, tsf>>
  <2>1. /\ UNCHANGED <<comp, regCommit, fe, kana, candidate, enginePending, provComp,
                       regMode, pending, deferred, calls, posted, session, edits,
                       orphans>>
        /\ ui'.at = "key" /\ ui'.key = key /\ ui' # Loop
    BY <1>9, AtLoop DEF document, provider, engine, tsf, modes
  <2>2. CallsInOrder' /\ ResultIsTrue'
    BY <1>1, <2>1, QueuesUntouched
  <2>3. Automata' /\ Plain' /\ Owned'
    BY <1>1, <1>2, <1>7, <2>1 DEF QuitInv, Automata, Plain, Owned, Quiet, InFlight
  <2>4. CompositionHere'
    BY <1>1, <1>9, <2>1 DEF QuitInv, CompositionHere, Abandons, InFlight
  <2>5. Candidates'
    BY <1>1, <2>1 DEF QuitInv, Candidates
  <2>6. Quits'
    BY <1>3, <1>4, <1>5, <1>6, <1>7, <2>1 DEF Quits, InFlight
  <2> QED BY <2>2, <2>3, <2>4, <2>5, <2>6 DEF QuitInv
<1>10. CASE /\ context' = c /\ ui' = [at |-> "key", key |-> key]
            /\ Relinquish(TRUE)
  <2>1. ui'.at = "key" /\ ui'.key = key /\ ui' # Loop
    BY <1>10, AtLoop
  <2>2. /\ fe' = Reset(fe) /\ UNCHANGED session /\ deferred' = <<>>
        /\ ~regMode' /\ ~regCommit' /\ orphans' = {} /\ ~candidate' /\ Ended'
        /\ \A i \in DOMAIN edits' : edits'[i].kind = "end"
        /\ CallsInOrder' /\ ResultIsTrue'
    BY <1>10, RelinquishEnds
  <2>3. Plain' /\ CompositionHere' /\ Owned' /\ (candidate' => provComp')
    BY <1>2, <2>2, AllEnded
  <2>4. Automata'
    BY <1>1, <1>2, <1>7, <2>1, <2>2, ResetIsFrontend, Nothing DEF QuitInv, Automata
  <2>5. Quits' /\ Candidates'
    BY <1>3, <1>4, <1>7, <2>1, <2>2 DEF Quits, Candidates, Ended
  <2> QED BY <2>2, <2>3, <2>4, <2>5 DEF QuitInv
<1> QED BY <1>8, <1>9, <1>10 DEF KeyDown

LEMMA DeclinedEnds == ASSUME Calm, Good, Declined PROVE QuitInv'
<1>1. /\ QuitInv /\ ui.at = "key" /\ ~Claimed(ui.key.ch) /\ ~regMode
      /\ ui' = Loop /\ UNCHANGED <<active, keyboardOpen, where, quits>>
      /\ UNCHANGED <<comp, context, regCommit, fe, kana, candidate, enginePending,
                     provComp, regMode, pending, deferred, calls, posted, session,
                     edits, orphans>>
  BY DEF Declined, PassThrough, provider, engine, tsf, modes, keyboard, history, Good,
         QuitInv, Plain
<1>2. CallsInOrder' /\ ResultIsTrue'
  BY <1>1, QueuesUntouched
<1>3. Automata' /\ Plain' /\ CompositionHere' /\ Owned'
  BY <1>1, AtLoop
  DEF QuitInv, Automata, Plain, CompositionHere, Owned, Quiet, InFlight
<1>4. quits >= 1 => Ended
  BY <1>1 DEF QuitInv, Quits, Claimed, Controls, ControlOf
<1>5. Quits' /\ Candidates'
  BY <1>1, <1>4, QuitsAtLoop DEF QuitInv, Candidates, Quits, Ended
<1> QED BY <1>2, <1>3, <1>5 DEF QuitInv

LEMMA DeferEnds == ASSUME Calm, Good, Defer PROVE QuitInv'
<1>1. /\ QuitInv /\ ui.at = "key" /\ ui.key.ch \in Letters \cup Semantic
      /\ ui' = Loop /\ UNCHANGED <<active, keyboardOpen, where, quits>>
      /\ deferred' = Append(deferred, ui.key)
      /\ UNCHANGED <<comp, context, regCommit, fe, kana, candidate, enginePending,
                     provComp, regMode, pending, calls, posted, session, edits, orphans>>
  BY DEF Defer, Takes, Queued, document, engine, tsf, modes, keyboard, history, Good
<1>2. CallsInOrder' /\ ResultIsTrue'
  BY <1>1, QueuesUntouched
<1>3. deferred' \in Seq(KeyRecord)
  BY <1>1 DEF QuitInv, Automata
<1>4. Automata' /\ Plain' /\ CompositionHere' /\ Owned'
  BY <1>1, <1>3, AtLoop
  DEF QuitInv, Automata, Plain, CompositionHere, Owned, Quiet, InFlight
<1>5. quits = 0
  BY <1>1 DEF QuitInv, Quits, Letters, Semantic, Controls
<1>6. Quits' /\ Candidates'
  BY <1>1, <1>5, QuitsAtLoop DEF QuitInv, Candidates
<1> QED BY <1>2, <1>4, <1>6 DEF QuitInv

LEMMA CancelForKeyEnds == ASSUME Calm, Good, CancelForKey PROVE QuitInv'
<1>1. /\ QuitInv /\ ui.at = "key" /\ pending /\ CancelPendingProvider
      /\ UNCHANGED <<active, keyboardOpen, where, quits, ui>>
      /\ UNCHANGED <<comp, context, regCommit, fe, kana, candidate, enginePending,
                     provComp, regMode, session, edits, orphans>>
  BY DEF CancelForKey, Takes, document, engine, tsf, modes, keyboard, history, Good
<1>2. CallsInOrder' /\ ResultIsTrue' /\ ~pending' /\ deferred' = <<>>
  BY <1>1, CancelsInOrder DEF Good, QuitInv, Invariant
<1>3. Automata' /\ Plain' /\ CompositionHere'
  BY <1>1, <1>2, Nothing DEF QuitInv, Automata, Plain, CompositionHere
<1>4. Owned' /\ Candidates'
  BY <1>1, <1>2 DEF QuitInv, Owned, Quiet, Candidates
<1>5. ui # Loop
  BY <1>1, AtLoop
<1>6. Quits'
  BY <1>1, <1>2, <1>5 DEF QuitInv, Quits, Ended, InFlight
<1> QED BY <1>2, <1>3, <1>4, <1>6 DEF QuitInv

(* A call that a key begins.                                               *)
LEMMA BeginEnds ==
  ASSUME Calm, Good, ui.at = "key", Composing(fe), quits = 0, NEW req \in Call, Begin(req),
         deferred' \in Seq(KeyRecord), ui' = Loop,
         UNCHANGED <<keyboard, context, document, fe, modes, engine, tsf, history>>
  PROVE  QuitInv'
<1>1. /\ QuitInv /\ context \in Context
      /\ UNCHANGED <<active, keyboardOpen, where, quits>>
      /\ UNCHANGED <<comp, context, regCommit, fe, kana, candidate, enginePending,
                     provComp, regMode, session, edits, orphans>>
  BY KeyFacts DEF document, engine, tsf, modes, keyboard, history, Good
<1>2. CallsInOrder' /\ ResultIsTrue' /\ pending'
  BY BeginsInOrder DEF Good, QuitInv, Invariant
<1>3. Automata' /\ Plain' /\ CompositionHere' /\ Owned'
  BY <1>1, AtLoop DEF QuitInv, Automata, Plain, CompositionHere, Owned
<1>4. Quits' /\ Candidates'
  BY <1>1, QuitsAtLoop DEF QuitInv, Candidates
<1> QED BY <1>2, <1>3, <1>4 DEF QuitInv

LEMMA AskProviderEnds == ASSUME Calm, Good, AskProvider PROVE QuitInv'
<1> DEFINE ch == ui.key.ch
<1>1. /\ ui.at = "key" /\ ~pending /\ AsksProvider /\ ui' = Loop /\ ~regMode
      /\ UNCHANGED <<keyboard, context, document, fe, modes, engine, tsf, history>>
      /\ IF ch \in Controls
         THEN UNCHANGED deferred /\ Begin(Request(ControlOf[ch], <<>>))
         ELSE deferred' = Append(deferred, ui.key) /\ Begin(Request("COMMIT", <<>>))
  BY DEF AskProvider, Takes, Queued, Good, QuitInv, Plain
<1>2. provComp /\ ch # "ctrlg"
  BY <1>1, KeyFacts DEF AsksProvider, KatakanaQ
<1>3. Composing(fe) /\ quits = 0
  BY <1>1, <1>2 DEF Good, QuitInv, Owned, Quiet, Quits
<1>4. deferred' \in Seq(KeyRecord)
  BY <1>1, KeyFacts DEF Good, QuitInv, Automata
<1>5. Request("COMMIT", <<>>) \in Call
  BY Nothing DEF Request, Call
<1> QED BY <1>1, <1>3, <1>4, <1>5, BeginEnds, ControlCalls

LEMMA StartConversionEnds == ASSUME Calm, Good, StartConversion PROVE QuitInv'
<1>1. /\ ui.at = "key" /\ ui.key.ch = "space" /\ fe.preedit /\ ui' = Loop
      /\ Begin(Request("CONVERT-KEYS", fe.raw)) /\ UNCHANGED deferred
      /\ UNCHANGED <<keyboard, context, document, fe, modes, engine, tsf, history>>
  BY DEF StartConversion, Takes, ConvertsReading, BeginConversion
<1>2. Composing(fe) /\ quits = 0
  BY <1>1 DEF Composing, Good, QuitInv, Quits
<1>3. Request("CONVERT-KEYS", fe.raw) \in Call /\ deferred' \in Seq(KeyRecord)
  BY <1>1 DEF Good, QuitInv, Automata, Frontend, Request, Call
<1> QED BY <1>1, <1>2, <1>3, BeginEnds

(* Ctrl+G without an answer.                                               *)
LEMMA RelinquishedEnds ==
  ASSUME Calm, Good, Relinquish(FALSE), ui' = Loop, UNCHANGED <<keyboard, context, history>>
  PROVE  QuitInv'
<1>1. QuitInv /\ UNCHANGED <<active, keyboardOpen, where, quits>>
  BY DEF keyboard, history, Good
<1>2. /\ fe' = Reset(fe) /\ UNCHANGED session /\ deferred' = <<>>
      /\ ~regMode' /\ ~regCommit' /\ orphans' = {} /\ ~candidate' /\ Ended'
      /\ \A i \in DOMAIN edits' : edits'[i].kind = "end"
      /\ CallsInOrder' /\ ResultIsTrue'
  BY RelinquishEnds
<1>3. Plain' /\ CompositionHere' /\ Owned' /\ (candidate' => provComp')
  BY <1>1, <1>2, AllEnded
<1>4. Automata'
  BY <1>1, <1>2, AtLoop, ResetIsFrontend, Nothing DEF QuitInv, Automata
<1>5. Quits' /\ Candidates'
  BY <1>1, <1>2, <1>3, QuitsAtLoop DEF QuitInv, Quits, Ended
<1> QED BY <1>2, <1>3, <1>4, <1>5 DEF QuitInv

LEMMA ForceCancelEnds == ASSUME Calm, Good, ForceCancelComposition PROVE QuitInv'
BY RelinquishedEnds DEF ForceCancelComposition

(* A key that is answered: what stays open the frontend composes, unless   *)
(* the engine rests; and Ctrl+G leaves the provider or everything.         *)
LEMMA AnsweredEnds == ASSUME Calm, Good, Answered PROVE QuitInv'
<1> DEFINE after(r) == FrontendAfter(r.fe, r.st)
<1>1. /\ QuitInv /\ ~regMode /\ fe \in Frontend /\ (candidate => provComp)
      /\ ui.at = "key" /\ Takes(Letters \cup Controls) /\ ~pending /\ ~AsksProvider
      /\ ui' = Loop /\ UNCHANGED <<keyboard, context, tsf, history>>
  BY DEF Answered, Takes, Good, QuitInv, Plain, Automata, Candidates
<1>2. PICK r \in Result(ui.key) :
        /\ r.st # NoState /\ Apply(context, after(r), r.st, TRUE) /\ session' = r.s
        /\ UNCHANGED provider
  <2>1. PICK r \in Result(ui.key), ok \in Granted :
          /\ r.st # NoState /\ Apply(context, after(r), r.st, ok) /\ session' = r.s
          /\ UNCHANGED provider
    BY <1>1 DEF Answered
  <2>2. ok = TRUE
    BY CalmFacts
  <2>3. Apply(context, after(r), r.st, TRUE)
    BY <2>1, <2>2, Zenon
  <2> QED BY <2>1, <2>3
<1>3. FromFrontend(r) \/ \E req \in Call : FromSession(r, req)
  BY <1>1, LocalOrAsked
<1>4. /\ UNCHANGED <<active, keyboardOpen, where, quits, context, pending, deferred,
                     calls, posted, edits, orphans>>
  BY <1>1, <1>2 DEF keyboard, tsf, history, provider
<1>5. \/ after(r) = r.fe
      \/ after(r) = Reset(r.fe) /\ ~r.st.start /\ provComp
  BY <1>1 DEF FrontendAfter
<1> DEFINE open == r.st.start \/ r.st.pending # <<>>
<1>6. ASSUME NEW req \in Call, FromSession(r, req)
      PROVE  /\ r.fe = fe /\ Reports(r)
             /\ req.verb \in {"QUIT", "CANCEL"} => r.st.pending = <<>>
             /\ req.verb = "QUIT" => ~r.s.cand
             /\ req.verb = "CANCEL" \/ Resting(session) => Resting(r.s)
  BY <1>2, <1>6, AskReports DEF FromSession
<1>7. /\ r.fe \in Frontend /\ session' \in Session /\ ~session'.reg
      /\ r.st.mode # "registration"
      /\ r.st.mode = "candidate" => r.st.start /\ r.st.cands
  BY <1>1, <1>2, <1>3, <1>6 DEF FromFrontend, Tells, BaseMode, Reports, QuitInv, Automata
<1>8. /\ fe' = after(r) /\ ~regMode' /\ ~regCommit'
      /\ provComp' <=> r.st.start /\ r.st.cands
      /\ enginePending' <=> open
      /\ candidate' <=> r.st.mode = "candidate"
      /\ comp' # NoComp => comp'.ctx = context /\ open
  BY <1>2, <1>7, ApplyShows
<1>9. CallsInOrder' /\ ResultIsTrue'
  BY <1>1, <1>4, QueuesUntouched
<1>10. Automata' /\ Plain' /\ CompositionHere'
  <2>1. fe' \in Frontend
    BY <1>5, <1>7, <1>8, ResetIsFrontend
  <2> QED BY <1>1, <1>4, <1>7, <1>8, <2>1, AtLoop DEF QuitInv, Automata, Plain, CompositionHere
<1>11. InFlight' \/ pending' \/ provComp' => open
  BY <1>1, <1>4, <1>8 DEF InFlight
<1>12. Owned'
  <2> SUFFICES ASSUME open PROVE Composing(fe') \/ Quiet'
    BY <1>11 DEF Owned
  <2>1. CASE FromFrontend(r)
    <3>1. after(r) = r.fe
      BY <1>5, <2>1 DEF FromFrontend
    <3> QED BY <1>8, <2>1, <3>1 DEF FromFrontend, Tells
  <2>2. ASSUME NEW req \in Call, FromSession(r, req)
        PROVE  Composing(fe') \/ Quiet'
    <3>1. CASE Composing(fe)
      <4>1. after(r) = r.fe
        BY <1>5, <1>6, <2>2 DEF FromSession
      <4> QED BY <1>6, <1>8, <2>2, <3>1, <4>1
    <3>2. CASE ~Composing(fe)
      <4>1. ~provComp /\ (InFlight => calls = <<>> /\ Resting(session))
        BY <1>1, <3>2 DEF QuitInv, Owned, Quiet
      <4>2. CASE InFlight
        <5>1. Resting(r.s)
          BY <1>6, <2>2, <4>1, <4>2
        <5>2. ~provComp'
          BY <1>6, <1>8, <2>2, <5>1 DEF Reports, Resting
        <5> QED BY <1>1, <1>2, <1>4, <4>1, <4>2, <5>1, <5>2 DEF Quiet
      <4>3. CASE ~InFlight
        <5>1. req.verb = "CANCEL"
          BY <2>2, <3>2, <4>1, <4>3 DEF FromSession
        <5>2. ~r.st.start /\ r.st.pending = <<>>
          BY <1>6, <2>2, <5>1 DEF Reports, Resting
        <5> QED BY <5>2
      <4> QED BY <4>2, <4>3
    <3> QED BY <3>1, <3>2
  <2> QED BY <1>3, <2>1, <2>2
<1>13. ASSUME quits >= 1  PROVE ~provComp' /\ (~provComp => ~open)
  <2>1. ui.key.ch = "ctrlg" /\ (InFlight \/ Ended)
    BY <1>1, <1>13 DEF QuitInv, Quits
  <2>2. CASE FromFrontend(r)
    BY <1>8, <2>1, <2>2 DEF FromFrontend, Tells
  <2>3. ASSUME NEW req \in Call, FromSession(r, req)
        PROVE  ~provComp' /\ (~provComp => ~open)
    <3>1. req.verb = "QUIT" /\ (provComp \/ ~Composing(fe))
      BY <2>1, <2>3 DEF FromSession
    <3>2. ~r.s.cand /\ r.st.pending = <<>> /\ ~provComp'
      BY <1>6, <1>8, <2>3, <3>1 DEF Reports
    <3>3. ASSUME ~provComp  PROVE ~r.st.start
      <4>1. InFlight
        BY <2>1, <2>3, <3>1, <3>3 DEF FromSession
      <4>2. Resting(session)
        BY <1>1, <3>1, <3>3, <4>1 DEF QuitInv, Owned, Quiet
      <4> QED BY <1>6, <2>3, <4>2 DEF Reports, Resting
    <3> QED BY <3>2, <3>3
  <2> QED BY <1>3, <2>2, <2>3
<1>14. Quits' /\ Candidates'
  <2>1. quits \in 0..2 /\ (quits = 2 => ~provComp)
    BY <1>1 DEF QuitInv, Quits
  <2>2. quits = 2 => Ended'
    BY <1>1, <1>4, <1>8, <1>13, <2>1 DEF Ended
  <2>3. quits = 1 => ~pending' /\ ~provComp'
    BY <1>1, <1>4, <1>13
  <2>4. candidate' => provComp'
    BY <1>7, <1>8
  <2> QED BY <1>1, <1>4, <2>1, <2>2, <2>3, <2>4, QuitsAtLoop
<1> QED BY <1>9, <1>10, <1>12, <1>14 DEF QuitInv

LEMMA UnansweredEnds == ASSUME Calm, Good, Unanswered PROVE QuitInv'
<1>1. /\ QuitInv /\ fe \in Frontend /\ Takes(Letters \cup Controls) /\ ui.at = "key"
      /\ ~pending /\ ~AsksProvider
      /\ ui' = Loop /\ UNCHANGED <<keyboard, context, history>>
  BY DEF Unanswered, Takes, Good, QuitInv, Automata
<1>2. CASE Relinquish(FALSE)
  BY <1>1, <1>2, RelinquishedEnds
<1>3. CASE ~Relinquish(FALSE)
  <2>1. PICK r \in Result(ui.key) :
          /\ r.st = NoState /\ ui.key.ch # "ctrlg"
          /\ fe' = r.fe /\ session' = r.s /\ UNCHANGED <<document, modes, provider, tsf>>
    BY <1>3 DEF Unanswered
  <2>2. FromFrontend(r) \/ \E req \in Call : FromSession(r, req)
    BY <1>1, LocalOrAsked
  <2>3. /\ UNCHANGED <<active, keyboardOpen, where, quits, context, pending, deferred,
                       calls, posted, edits, orphans>>
        /\ UNCHANGED <<comp, regCommit, kana, candidate, enginePending, provComp, regMode>>
    BY <1>1, <2>1 DEF keyboard, tsf, history, provider, document, modes
  <2>4. fe' \in Frontend /\ (Composing(fe') <=> Composing(fe)) /\ session' = session
    <3>1. CASE FromFrontend(r)
      BY <2>1, <3>1 DEF FromFrontend, Tells
    <3>2. ASSUME NEW req \in Call, FromSession(r, req)
          PROVE  fe' = fe /\ session' = session
      BY <2>1, <3>2, AskReports DEF FromSession, Reports
    <3> QED BY <1>1, <2>2, <3>1, <3>2
  <2>5. CallsInOrder' /\ ResultIsTrue'
    BY <1>1, <2>3, QueuesUntouched
  <2>6. Automata' /\ Plain' /\ CompositionHere' /\ Owned'
    BY <1>1, <2>3, <2>4, AtLoop
    DEF QuitInv, Automata, Plain, CompositionHere, Owned, Quiet, InFlight
  <2>7. quits = 0
    BY <1>1, <2>1 DEF QuitInv, Quits
  <2>8. Quits' /\ Candidates'
    BY <1>1, <2>3, <2>7, QuitsAtLoop DEF QuitInv, Candidates
  <2> QED BY <2>5, <2>6, <2>8 DEF QuitInv
<1> QED BY <1>2, <1>3

-----------------------------------------------------------------------------
(* Provider threads and their results.                                     *)
LEMMA LockEnds ==
  ASSUME Calm, Good, NEW i \in DOMAIN calls, Lock(i)  PROVE QuitInv'
<1>1. /\ QuitInv /\ i = 1 /\ calls' = [calls EXCEPT ![i].sent = TRUE, ![i].reset = resync]
      /\ UNCHANGED <<active, keyboardOpen, where, quits, context, pending, deferred,
                     posted, edits, orphans, ui, fe, session>>
      /\ UNCHANGED <<comp, regCommit, kana, candidate, enginePending, provComp, regMode>>
  BY CalmFacts DEF Lock, keyboard, tsf, history, document, modes, engine, Good
<1>2. /\ DOMAIN calls' = DOMAIN calls
      /\ \A j \in DOMAIN calls :
           calls'[j] = IF j = i THEN [calls[i] EXCEPT !.sent = TRUE, !.reset = resync]
                       ELSE calls[j]
  BY <1>1
<1>3. ASSUME NEW j \in DOMAIN calls
      PROVE  /\ calls'[j].req = calls[j].req /\ calls'[j].current = calls[j].current
             /\ calls'[j].sent => j = 1
  <2>1. IsCall(calls[j])
    BY DEF Good, Invariant, Queues
  <2>2. CASE j = i
    <3>1. calls'[j] = [calls[j] EXCEPT !.sent = TRUE, !.reset = resync]
      BY <1>2, <2>2
    <3> QED BY <1>1, <2>1, <2>2, <3>1 DEF IsCall
  <2>3. CASE j # i
    BY <1>1, <1>2, <2>3 DEF QuitInv, CallsInOrder
  <2> QED BY <2>2, <2>3
<1>4. Len(calls') = Len(calls) /\ calls # <<>>
  <2>1. DOMAIN calls = 1..Len(calls) /\ Len(calls) \in Nat
    BY SequenceShape DEF Good, Invariant, Queues, IsSequence
  <2>2. IsSequence(calls')
    <3>1. calls' = [j \in DOMAIN calls |-> calls'[j]]
      BY <1>1
    <3> QED BY <3>1, MapShape DEF Good, Invariant, Queues
  <2>3. DOMAIN calls' = 1..Len(calls') /\ Len(calls') \in Nat
    BY <2>2, SequenceShape DEF IsSequence
  <2>4. Len(calls) \in DOMAIN calls /\ Len(calls') \in DOMAIN calls'
    BY <1>1, <1>2, <2>1, <2>3
  <2> QED BY <1>2, <2>1, <2>3, <2>4
<1>5. CallsInOrder'
  BY <1>1, <1>2, <1>3, <1>4 DEF QuitInv, CallsInOrder
<1>6. ResultIsTrue' /\ Owned'
  BY <1>1, <1>4 DEF QuitInv, ResultIsTrue, Owned, Quiet, InFlight
<1>7. Automata' /\ Plain' /\ CompositionHere'
  BY <1>1 DEF QuitInv, Automata, Plain, CompositionHere
<1>8. Quits' /\ Candidates'
  BY <1>1 DEF QuitInv, Quits, Candidates, Ended, InFlight
<1> QED BY <1>5, <1>6, <1>7, <1>8 DEF QuitInv

(* The first call is over; its answer is posted or lost.                   *)
LEMMA PostEnds ==
  ASSUME Calm, Good, NEW i \in DOMAIN calls, calls[i].sent, NEW st, Post(i, st),
         session' \in Session, ~session'.reg, st.mode # "registration",
         st.mode = "candidate" => st.start /\ st.cands,
         st # NoState /\ ~st.start => Resting(session')
  PROVE  QuitInv'
<1>1. /\ QuitInv /\ i = 1 /\ calls' = RemoveAt(calls, i)
      /\ UNCHANGED <<active, keyboardOpen, where, quits, context, pending, deferred,
                     edits, orphans, ui, fe>>
      /\ UNCHANGED <<comp, regCommit, kana, candidate, enginePending, provComp, regMode>>
  BY DEF Post, keyboard, tsf, history, document, modes, Good, QuitInv, CallsInOrder
<1>2. /\ IsSequence(calls') /\ Len(calls) \in Nat /\ DOMAIN calls = 1..Len(calls)
      /\ DOMAIN calls' = 1..Len(calls) - 1
      /\ \A j \in 1..Len(calls) - 1 : calls'[j] = calls[j + 1]
  <2>1. /\ IsSequence(calls') /\ Len(calls) \in Nat /\ DOMAIN calls = 1..Len(calls)
        /\ DOMAIN calls' = 1..Len(calls) - 1
        /\ \A j \in 1..Len(calls) - 1 : calls'[j] = calls[IF j < i THEN j ELSE j + 1]
    BY <1>1, RemoveShape DEF Good, Invariant, Queues
  <2> QED BY <1>1, <2>1
<1>3. Len(calls') = Len(calls) - 1
  <2>1. Len(calls') \in Nat /\ DOMAIN calls' = 1..Len(calls')
    BY <1>2, SequenceShape DEF IsSequence
  <2>2. Len(calls) \in Nat /\ Len(calls) >= 1 /\ 1..Len(calls') = 1..Len(calls) - 1
    <3>1. Len(calls) \in Nat /\ i \in 1..Len(calls) /\ i = 1
      BY <1>1, <1>2
    <3>2. 1..Len(calls') = 1..Len(calls) - 1
      BY <1>2, <2>1
    <3> QED BY <3>1, <3>2
  <2>3. Len(calls') >= 1 => Len(calls') <= Len(calls) - 1
    <3>1. Len(calls') >= 1 => Len(calls') \in 1..Len(calls')
      BY <2>1
    <3> QED BY <2>2, <3>1
  <2>4. Len(calls) - 1 >= 1 => Len(calls) - 1 <= Len(calls')
    <3>1. Len(calls) - 1 >= 1 => Len(calls) - 1 \in 1..Len(calls) - 1
      BY <2>2
    <3> QED BY <2>1, <2>2, <3>1
  <2> QED BY <2>1, <2>2, <2>3, <2>4
<1>4. CallsInOrder'
  <2> SUFFICES ASSUME NEW j \in DOMAIN calls'
               PROVE  /\ calls'[j].req \in Call
                      /\ calls'[j].current => j = Len(calls') /\ pending'
                      /\ calls'[j].sent => j = 1
    BY DEF CallsInOrder
  <2>1. j + 1 \in DOMAIN calls /\ j + 1 # 1 /\ calls'[j] = calls[j + 1]
    BY <1>2
  <2>2. /\ calls[j + 1].req \in Call /\ ~calls[j + 1].sent
        /\ calls[j + 1].current => j + 1 = Len(calls) /\ pending
    BY <1>1, <2>1 DEF QuitInv, CallsInOrder
  <2> QED BY <1>1, <1>2, <1>3, <2>1, <2>2
<1>5. calls # <<>> /\ NoneCounts
  BY <1>1 DEF QuitInv, ResultIsTrue, NoneCounts
<1>6. ASSUME NEW j \in DOMAIN posted', j \in DOMAIN posted, posted'[j] = posted[j]
      PROVE  LET r == posted'[j].st IN
             /\ r.mode # "registration"
             /\ r.mode = "candidate" => r.start /\ r.cands
             /\ ~posted'[j].current
  BY <1>1, <1>5, <1>6 DEF QuitInv, ResultIsTrue, NoneCounts
<1>7. ResultIsTrue'
  <2>1. CASE UNCHANGED posted
    BY <1>6, <2>1 DEF ResultIsTrue
  <2> DEFINE m == [current |-> calls[i].current, st |-> st]
  <2>2. CASE posted' = Append(posted, m)
    <3>1. /\ DOMAIN posted' = 1..Len(posted) + 1 /\ DOMAIN posted = 1..Len(posted)
          /\ Len(posted) \in Nat /\ \A j \in 1..Len(posted) : posted'[j] = posted[j]
          /\ posted'[Len(posted) + 1] = m
      BY <2>2, AppendShape DEF Good, Invariant, Queues
    <3>2. m.st = st /\ (m.current => calls[1].current)
      BY <1>1
    <3>3. m.current => calls' = <<>> /\ pending'
      <4>1. m.current => Len(calls) = 1 /\ pending
        BY <1>1, <3>2 DEF QuitInv, CallsInOrder
      <4>2. Len(calls') = 0 => calls' = <<>>
        BY <1>2 DEF IsSequence
      <4> QED BY <1>1, <1>3, <4>1, <4>2
    <3> HIDE DEF m
    <3>4. ASSUME NEW j \in DOMAIN posted'
          PROVE  j = Len(posted) + 1 \/ (j \in DOMAIN posted /\ posted'[j] = posted[j])
      <4>1. j = Len(posted) + 1 \/ j \in 1..Len(posted)
        BY <3>1
      <4> QED BY <3>1, <4>1
    <3> QED BY <1>6, <3>1, <3>2, <3>3, <3>4 DEF ResultIsTrue
  <2> QED BY <2>1, <2>2 DEF Post
<1>8. Owned'
  BY <1>1, <1>5 DEF QuitInv, Owned, Quiet, InFlight
<1>9. Automata' /\ Plain' /\ CompositionHere'
  BY <1>1 DEF QuitInv, Automata, Plain, CompositionHere
<1>10. Quits' /\ Candidates'
  BY <1>1 DEF QuitInv, Quits, Candidates, Ended, InFlight
<1> QED BY <1>4, <1>7, <1>8, <1>9, <1>10 DEF QuitInv

LEMMA ProviderThreadEnds == ASSUME Calm, Good, ProviderThread PROVE QuitInv'
<1>1. PICK i \in DOMAIN calls : Lock(i) \/ Served(i) \/ Lost(i)
  BY DEF ProviderThread
<1>2. session \in Session /\ ~session.reg /\ calls[i].req \in Call
  BY DEF Good, QuitInv, Automata, CallsInOrder
<1>3. CASE Served(i)
  <2> DEFINE before == IF calls[i].reset THEN NewSession ELSE session
  <2>1. PICK r \in Outcomes(before, calls[i].req) :
          calls[i].sent /\ session' = r.s /\ Post(i, r.st)
    BY <1>3 DEF Served
  <2>2. before \in Session /\ ~before.reg
    BY <1>2, NewSessionRests
  <2> HIDE DEF before
  <2>3. r \in Exec(before, calls[i].req) /\ ~r.s.reg
    BY <2>1, CalmFacts DEF Outcomes
  <2>4. Reports(r)
    BY <1>2, <2>2, <2>3, ExecAnswers
  <2> QED BY <2>1, <2>4, PostEnds DEF Reports, Resting
<1>4. CASE Lost(i)
  BY <1>2, <1>4, PostEnds, Nothing DEF Lost
<1> QED BY <1>1, <1>3, <1>4, LockEnds

LEMMA DropStaleEnds == ASSUME Calm, Good, DropStale PROVE QuitInv'
<1>1. /\ QuitInv /\ posted # <<>> /\ posted' = Tail(posted)
      /\ UNCHANGED <<active, keyboardOpen, where, quits, context, pending, deferred,
                     calls, edits, orphans, ui, fe, session>>
      /\ UNCHANGED <<comp, regCommit, kana, candidate, enginePending, provComp, regMode>>
  BY DEF DropStale, keyboard, tsf, history, document, modes, engine, Good
<1>2. CallsInOrder' /\ ResultIsTrue'
  BY <1>1, TailInOrder DEF Good, QuitInv, Invariant
<1>3. Automata' /\ Plain' /\ CompositionHere' /\ Owned'
  BY <1>1 DEF QuitInv, Automata, Plain, CompositionHere, Owned, Quiet, InFlight
<1>4. Quits' /\ Candidates'
  BY <1>1 DEF QuitInv, Quits, Candidates, Ended, InFlight
<1> QED BY <1>2, <1>3, <1>4 DEF QuitInv

(* A result that counts finds no calls, a frontend that composes and no    *)
(* Ctrl+G.                                                                 *)
LEMMA ArrivalFacts ==
  ASSUME Good, Arrived
  PROVE  /\ ui = Loop /\ posted # <<>> /\ Head(posted).current
         /\ calls = <<>> /\ pending /\ Composing(fe) /\ quits = 0
         /\ context \in Context /\ Answer.mode # "registration"
         /\ Answer.mode = "candidate" => Answer.start /\ Answer.cands
         /\ Answer # NoState /\ ~Answer.start => Resting(session)
<1>1. ui = Loop /\ posted # <<>> /\ Head(posted).current
  BY DEF Arrived
<1>2. Head(posted) = posted[1] /\ 1 \in DOMAIN posted
  BY <1>1, TailOfPosted DEF Good, Invariant
<1>3. /\ calls = <<>> /\ pending
      /\ Answer.mode # "registration"
      /\ Answer.mode = "candidate" => Answer.start /\ Answer.cands
      /\ Answer # NoState /\ ~Answer.start => Resting(session)
  BY <1>1, <1>2 DEF Answer, Good, QuitInv, ResultIsTrue
<1>4. Composing(fe) /\ quits = 0 /\ context \in Context
  BY <1>1, <1>3 DEF Good, QuitInv, Owned, Quiet, Quits, Ended, CompositionHere
<1> QED BY <1>1, <1>3, <1>4

LEMMA ResultMissingEnds == ASSUME Calm, Good, ResultMissing PROVE QuitInv'
<1>1. /\ QuitInv /\ Arrived /\ posted' = Tail(posted) /\ ~pending'
      /\ UNCHANGED <<active, keyboardOpen, where, quits, context, deferred,
                     calls, edits, orphans, ui, fe, session>>
      /\ UNCHANGED <<comp, regCommit, kana, candidate, enginePending, provComp, regMode>>
  BY DEF ResultMissing, keyboard, tsf, history, document, modes, engine, Good
<1>2. ui = Loop /\ posted # <<>> /\ Head(posted).current /\ Composing(fe) /\ quits = 0
  BY <1>1, ArrivalFacts
<1>3. CallsInOrder' /\ ResultIsTrue'
  BY <1>1, <1>2, TailInOrder DEF Good, QuitInv, Invariant
<1>4. Automata' /\ Plain' /\ CompositionHere' /\ Owned'
  BY <1>1, <1>2 DEF QuitInv, Automata, Plain, CompositionHere, Owned, Quiet, InFlight
<1>5. Quits' /\ Candidates'
  BY <1>1, <1>2, QuitsAtLoop DEF QuitInv, Candidates
<1> QED BY <1>3, <1>4, <1>5 DEF QuitInv

LEMMA ResolveCandidateEnds == ASSUME Calm, Good, ResolveCandidate PROVE QuitInv'
<1> DEFINE ch == Head(deferred).ch
           req == Request(IF ch \in Semantic THEN ControlOf[ch] ELSE "COMMIT", <<>>)
<1>1. /\ QuitInv /\ Arrived /\ deferred # <<>> /\ BeginNext(req)
      /\ deferred' \in {deferred, Tail(deferred)}
      /\ UNCHANGED <<active, keyboardOpen, where, quits, context,
                     edits, orphans, ui, fe, session>>
      /\ UNCHANGED <<comp, regCommit, kana, candidate, enginePending, provComp, regMode>>
  BY DEF ResolveCandidate, keyboard, tsf, history, document, modes, engine, Good
<1>2. /\ ui = Loop /\ posted # <<>> /\ Composing(fe) /\ quits = 0 /\ context \in Context
  BY <1>1, ArrivalFacts
<1>3. req \in Call
  <2>1. CASE ch \in Semantic
    BY <2>1, ControlCalls DEF Semantic
  <2>2. CASE ch \notin Semantic
    BY <2>2, Nothing DEF Request, Call
  <2> QED BY <2>1, <2>2
<1>4. deferred' \in Seq(KeyRecord)
  BY <1>1 DEF QuitInv, Automata
<1> HIDE DEF req
<1>5. CallsInOrder' /\ ResultIsTrue' /\ pending'
  BY <1>1, <1>2, <1>3, BeginsNextInOrder DEF Good, QuitInv, Invariant
<1>6. Automata' /\ Plain' /\ CompositionHere' /\ Owned'
  BY <1>1, <1>2, <1>4 DEF QuitInv, Automata, Plain, CompositionHere, Owned
<1>7. Quits' /\ Candidates'
  BY <1>1, <1>2, QuitsAtLoop DEF QuitInv, Candidates
<1> QED BY <1>5, <1>6, <1>7 DEF QuitInv

(* The answer of the conversion: a composition that it opens is the        *)
(* frontend's, one that it leaves behind is nobody's.                      *)
LEMMA ApplyProviderResultEnds == ASSUME Calm, Good, ApplyProviderResult PROVE QuitInv'
<1> DEFINE st == Answer
           open == st.start \/ st.pending # <<>>
<1>1. /\ QuitInv /\ Arrived /\ st # NoState /\ st.mode # "registration"
      /\ ~(OffersCandidates /\ deferred # <<>>)
      /\ posted' = Tail(posted) /\ ~pending'
      /\ UNCHANGED <<active, keyboardOpen, where, quits, context, deferred, calls,
                     edits, orphans, session>>
  BY DEF ApplyProviderResult, keyboard, tsf, history, engine, Good
<1>2. /\ ui = Loop /\ posted # <<>> /\ Head(posted).current /\ calls = <<>> /\ pending
      /\ Composing(fe) /\ quits = 0 /\ context \in Context /\ context # NoOne
      /\ st.mode = "candidate" => st.start /\ st.cands
      /\ ~st.start => Resting(session)
  BY <1>1, ArrivalFacts, ServiceAssumption
<1>3. /\ Apply(context, FrontendKeeps(st), st, TRUE)
      /\ ui' = IF Replays(TRUE) THEN [Loop EXCEPT !.at = "replay"] ELSE Loop
  <2>1. PICK ok \in Granted :
          /\ Apply(context, FrontendKeeps(st), st, ok /\ context # NoOne)
          /\ ui' = IF Replays(ok) THEN [Loop EXCEPT !.at = "replay"] ELSE Loop
    BY DEF ApplyProviderResult
  <2>2. ok = TRUE
    BY CalmFacts
  <2>3. (ok /\ context # NoOne) = TRUE
    BY <1>2, <2>2, Zenon
  <2>4. Apply(context, FrontendKeeps(st), st, TRUE)
    BY <2>1, <2>3, Zenon
  <2> QED BY <2>1, <2>2, <2>4, Zenon
<1>4. /\ fe' = FrontendKeeps(st) /\ ~regMode' /\ ~regCommit'
      /\ provComp' <=> st.start /\ st.cands
      /\ enginePending' <=> open
      /\ candidate' <=> st.mode = "candidate"
      /\ comp' # NoComp => comp'.ctx = context /\ open
  BY <1>1, <1>3, ApplyShows
<1>5. fe' = IF st.start THEN fe ELSE Reset(fe)
  BY <1>1, <1>2, <1>4 DEF FrontendKeeps
<1>6. CallsInOrder' /\ ResultIsTrue'
  BY <1>1, <1>2, TailInOrder DEF Good, QuitInv, Invariant
<1>7. ui'.at # "key"
  BY <1>3, AtLoop
<1>8. Automata'
  <2>1. fe' \in Frontend
    BY <1>1, <1>5, ResetIsFrontend DEF QuitInv, Automata
  <2> QED BY <1>1, <1>7, <2>1 DEF QuitInv, Automata
<1>9. Plain' /\ CompositionHere'
  BY <1>1, <1>4 DEF QuitInv, Plain, CompositionHere
<1>10. Owned'
  <2>1. CASE st.start
    BY <1>2, <1>5, <2>1 DEF Owned
  <2>2. CASE ~st.start
    BY <1>1, <1>2, <1>4, <2>2 DEF Owned, Quiet
  <2> QED BY <2>1, <2>2
<1>11. ui' = Loop \/ (ui'.at = "replay" /\ ui' # Loop /\ ~provComp' /\ ~candidate')
  BY <1>1, <1>3, <1>4, AtLoop DEF Replays, OffersCandidates
<1>12. Quits' /\ Candidates'
  <2>1. quits' = 0 /\ (candidate' => provComp')
    BY <1>1, <1>2, <1>4
  <2>2. CASE ui' = Loop
    BY <2>1, <2>2, QuitsAtLoop
  <2>3. CASE ui' # Loop
    BY <1>7, <1>11, <2>1, <2>3 DEF Quits, Candidates
  <2> QED BY <2>2, <2>3
<1> QED BY <1>6, <1>8, <1>9, <1>10, <1>12 DEF QuitInv

LEMMA ReplayConvertsEnds == ASSUME Calm, Good, ReplayConverts PROVE QuitInv'
<1>1. /\ QuitInv /\ ui.at = "replay" /\ fe.preedit /\ ui' = Loop
      /\ Begin(Request("CONVERT-KEYS", fe.raw))
      /\ deferred' \in {deferred, Tail(deferred)} /\ deferred # <<>>
      /\ context \in Context
      /\ UNCHANGED <<active, keyboardOpen, where, quits, context,
                     edits, orphans, fe, session>>
      /\ UNCHANGED <<comp, regCommit, kana, candidate, enginePending, provComp, regMode>>
  BY DEF ReplayConverts, BeginConversion, keyboard, tsf, history, document, modes, engine,
         Good, Invariant, Settings
<1>2. Composing(fe) /\ quits = 0
  BY <1>1 DEF Composing, QuitInv, Candidates
<1>3. Request("CONVERT-KEYS", fe.raw) \in Call /\ deferred' \in Seq(KeyRecord)
  <2>1. fe.raw \in Seq(KeyRecord) /\ deferred \in Seq(KeyRecord)
    BY <1>1 DEF QuitInv, Automata, Frontend
  <2>2. Request("CONVERT-KEYS", fe.raw) \in Call
    BY <2>1 DEF Request, Call
  <2>3. Tail(deferred) \in Seq(KeyRecord)
    BY <1>1, <2>1
  <2> QED BY <1>1, <2>1, <2>2, <2>3
<1>4. CallsInOrder' /\ ResultIsTrue' /\ pending'
  BY <1>1, <1>3, BeginsInOrder DEF Good, QuitInv, Invariant
<1>5. Automata' /\ Plain' /\ CompositionHere' /\ Owned'
  BY <1>1, <1>2, <1>3, AtLoop DEF QuitInv, Automata, Plain, CompositionHere, Owned
<1>6. Quits' /\ Candidates'
  BY <1>1, <1>2, QuitsAtLoop DEF QuitInv, Candidates
<1> QED BY <1>4, <1>5, <1>6 DEF QuitInv

LEMMA ReplayedTells ==
  ASSUME NEW key \in KeyRecord, fe \in Frontend  PROVE Tells(fe, Replayed(key))
BY FeedTells, BackspaceTells, OthersTell, NothingTells DEF Replayed

LEMMA ReplayKeyEnds == ASSUME Calm, Good, ReplayKey PROVE QuitInv'
<1> DEFINE r == Replayed(Head(deferred))
           open == r.st.start \/ r.st.pending # <<>>
<1>1. /\ QuitInv /\ ui.at = "replay" /\ deferred # <<>> /\ deferred' = Tail(deferred)
      /\ fe' = r.fe /\ ~pending /\ quits = 0 /\ ~provComp
      /\ UNCHANGED <<active, keyboardOpen, where, quits, context, pending, calls, posted,
                     edits, orphans, session>>
  BY DEF ReplayKey, keyboard, tsf, history, engine, Good, Invariant, Settings, QuitInv,
         Candidates
<1>2. Head(deferred) \in KeyRecord /\ deferred' \in Seq(KeyRecord) /\ fe \in Frontend
  BY <1>1 DEF QuitInv, Automata
<1>3. Tells(fe, r)
  BY <1>2, ReplayedTells
<1>4. ~regMode /\ ~regCommit /\ IsComp(comp) /\ (comp # NoComp => comp.ctx = context)
  BY <1>1 DEF QuitInv, Plain, CompositionHere, Good, Invariant, Compositions
<1>5. /\ UNCHANGED <<provComp, regMode>> /\ ui' \in {Loop, ui}
      /\ \/ r.st = NoState /\ UNCHANGED <<comp, regCommit, enginePending, candidate>>
         \/ /\ enginePending' = open /\ candidate' = FALSE
            /\ ~regCommit' /\ (comp' # NoComp => comp'.ctx = context /\ open)
  <2>1. CASE /\ r.st = NoState /\ ui' = Continues(Tail(deferred))
             /\ UNCHANGED <<document, modes, candUi>>
    BY <2>1 DEF Continues, document, modes
  <2>2. CASE /\ r.st # NoState
             /\ enginePending' = open
             /\ kana' = (r.st.mode # "latin") /\ candidate' = FALSE
             /\ candUi' = NoOne /\ UNCHANGED <<provComp, regMode>>
             /\ \E ok \in Granted :
                  /\ Edit(context, r.st, regCommit, regRange, ok)
                  /\ ui' = IF ok THEN Continues(Tail(deferred)) ELSE Loop
    <3>1. PICK ok \in Granted :
            /\ Edit(context, r.st, regCommit, regRange, ok)
            /\ ui' = IF ok THEN Continues(Tail(deferred)) ELSE Loop
      BY <2>2
    <3>2. ok = TRUE /\ regCommit = FALSE
      <4>1. regCommit \in BOOLEAN
        BY DEF Good, Invariant, Modes
      <4> QED BY <1>4, <4>1, CalmFacts
    <3>3. Edit(context, r.st, FALSE, regRange, TRUE)
      BY <3>1, <3>2, Zenon
    <3>4. ui' \in {Loop, ui}
      BY <3>1 DEF Continues
    <3> HIDE DEF r
    <3> QED BY <1>4, <2>2, <3>3, <3>4, EditShows
  <2> QED BY <2>1, <2>2 DEF ReplayKey
<1> HIDE DEF r
<1>6. CallsInOrder' /\ ResultIsTrue'
  BY <1>1, QueuesUntouched
<1>7. Automata' /\ Plain' /\ CompositionHere'
  BY <1>1, <1>2, <1>3, <1>5, AtLoop
  DEF QuitInv, Automata, Plain, CompositionHere, Tells
<1>8. Owned'
  <2>1. CASE r.st = NoState /\ UNCHANGED <<comp, enginePending>>
    BY <1>1, <1>3, <1>5, <2>1 DEF QuitInv, Owned, Quiet, InFlight, Tells
  <2>2. CASE enginePending' = open /\ (comp' # NoComp => open)
    BY <1>1, <1>3, <1>5, <2>2 DEF Owned, InFlight, Tells
  <2> QED BY <1>5, <2>1, <2>2
<1>9. ~candidate' /\ ~provComp' /\ quits' = 0
  BY <1>1, <1>5 DEF QuitInv, Candidates
<1>10. Quits' /\ Candidates'
  BY <1>1, <1>5, <1>9, AtLoop DEF Quits, Candidates
<1> QED BY <1>6, <1>7, <1>8, <1>10 DEF QuitInv

LEMMA MessageLoopEnds == ASSUME Calm, Good, MessageLoop PROVE QuitInv'
<1>1. ~EnterRegistration
  BY ArrivalFacts DEF EnterRegistration
<1> QED BY <1>1, DropStaleEnds, ResultMissingEnds, ResolveCandidateEnds,
           ApplyProviderResultEnds, ReplayConvertsEnds, ReplayKeyEnds DEF MessageLoop

-----------------------------------------------------------------------------
(* What TSF delivers, and what a calm environment never does.              *)
LEMMA NothingMoves ==
  ASSUME QuitInv,
         UNCHANGED <<active, keyboardOpen, where, quits, context, pending, deferred, calls,
                     posted, orphans, ui, fe, session, comp, regCommit, kana, candidate,
                     enginePending, provComp, regMode>>,
         \A i \in DOMAIN edits' : edits'[i].kind = "end"
  PROVE  QuitInv'
<1>1. CallsInOrder' /\ ResultIsTrue'
  BY QueuesUntouched
<1>2. Automata' /\ Plain' /\ CompositionHere' /\ Owned'
  BY DEF QuitInv, Automata, Plain, CompositionHere, Owned, Quiet, InFlight
<1>3. Quits' /\ Candidates'
  BY DEF QuitInv, Quits, Candidates, Ended, InFlight
<1> QED BY <1>1, <1>2, <1>3 DEF QuitInv

LEMMA RunEditEnds == ASSUME Calm, Good, RunEdit PROVE QuitInv'
<1>1. /\ QuitInv /\ edits # <<>> /\ IsSequence(edits) /\ edits' = Tail(edits)
      /\ \A i \in DOMAIN edits : edits[i].kind = "end"
  BY DEF RunEdit, Good, QuitInv, Plain, Invariant, Compositions, Waiting
<1>2. /\ Len(edits) \in Nat /\ Len(edits) > 0 /\ DOMAIN edits = 1..Len(edits)
      /\ DOMAIN edits' = 1..Len(edits) - 1
      /\ \A i \in 1..Len(edits) - 1 : edits'[i] = edits[i + 1]
      /\ Head(edits) = edits[1]
  BY <1>1, TailShape
<1>3. Head(edits).kind = "end"
  BY <1>1, <1>2
<1>4. UNCHANGED <<comp, regCommit>>
  BY <1>3 DEF RunEdit
<1>5. \A i \in DOMAIN edits' : edits'[i].kind = "end"
  <2>1. \A i \in 1..Len(edits) - 1 : i + 1 \in DOMAIN edits
    BY <1>2
  <2> QED BY <1>1, <1>2, <2>1
<1>6. UNCHANGED <<active, keyboardOpen, where, quits, context, pending, deferred, calls,
                  posted, orphans, ui, fe, session, kana, candidate, enginePending,
                  provComp, regMode>>
  BY DEF RunEdit, keyboard, modes, provider, engine, history
<1> QED BY <1>1, <1>4, <1>5, <1>6, NothingMoves

LEMMA LateCallbackEnds == ASSUME Calm, Good, LateCallback PROVE QuitInv'
<1>1. PICK id \in callbacks :
        /\ OnCompositionTerminated([NoComp EXCEPT !.id = id]) /\ UNCHANGED history
  BY DEF LateCallback
<1>2. [NoComp EXCEPT !.id = id].id = id
  BY DEF NoComp
<1>3. Expected(id)
  BY Together, Standing DEF Good, Expected
<1>4. Acknowledge(id) /\ UNCHANGED <<keyboard, context, ui, edits>>
  BY <1>1, <1>2, <1>3 DEF OnCompositionTerminated, ParkedEnds, ForeignEnds
<1>5. /\ UNCHANGED <<active, keyboardOpen, where, quits, context, pending, deferred, calls,
                     posted, orphans, ui, fe, session, comp, regCommit, kana, candidate,
                     enginePending, provComp, regMode, edits>>
  BY <1>1, <1>4 DEF Acknowledge, keyboard, modes, provider, engine, history
<1> QED BY <1>5, NothingMoves DEF Good, QuitInv, Plain

LEMMA EnvironmentEnds == ASSUME Calm, Good, Environment PROVE QuitInv'
<1>1. \A event \in {"terminate", "close", "mouse", "langbar", "reactivate"} : ~Happens(event)
  BY CalmFacts DEF Happens
<1>2. /\ ~ApplicationTerminates /\ ~CloseKeyboard /\ ~ClickCandidate /\ ~SelectInputMode
      /\ ~Deactivate
  BY <1>1
  DEF ApplicationTerminates, CloseKeyboard, ClickCandidate, SelectInputMode, Deactivate
<1>3. ~OpenKeyboard /\ ~Activate
  BY DEF OpenKeyboard, Activate, Good, QuitInv, Plain
<1> QED BY <1>2, <1>3, KeyDownEnds DEF Environment

LEMMA StillEnds == ASSUME Calm, Good, [Next]_vars PROVE QuitInv'
<1>1. CASE UiThread
  BY <1>1, DeclinedEnds, DeferEnds, CancelForKeyEnds, AskProviderEnds,
     StartConversionEnds, ForceCancelEnds, AnsweredEnds, UnansweredEnds DEF UiThread
<1>2. CASE UNCHANGED vars
  <2>1. UNCHANGED <<active, keyboardOpen, where, quits, context, pending, deferred, calls,
                    posted, orphans, ui, fe, session, comp, regCommit, kana, candidate,
                    enginePending, provComp, regMode, edits>>
    BY <1>2 DEF vars, keyboard, document, modes, provider, engine, tsf, history
  <2> QED BY <2>1, NothingMoves DEF Good, QuitInv, Plain
<1> QED BY <1>1, <1>2, EnvironmentEnds, ProviderThreadEnds, MessageLoopEnds, RunEditEnds,
           LateCallbackEnds DEF Next, Delivery

LEMMA InitEnds == Init => QuitInv
<1> SUFFICES ASSUME Init PROVE QuitInv
  OBVIOUS
<1>1. DOMAIN calls = {} /\ DOMAIN posted = {} /\ DOMAIN edits = {}
  BY DEF Init
<1>2. Fresh \in Frontend /\ NewSession \in Session /\ ~NewSession.reg
  BY NewSessionRests, Nothing DEF Fresh, Frontend
<1>3. <<>> \in Seq(Context)
  OBVIOUS
<1>4. Automata /\ Plain /\ CompositionHere
  BY <1>1, <1>2, <1>3, AtLoop, Nothing DEF Init, Automata, Plain, CompositionHere
<1>5. CallsInOrder /\ ResultIsTrue /\ Owned
  BY <1>1 DEF Init, CallsInOrder, ResultIsTrue, Owned, InFlight
<1>6. Candidates /\ Quits
  BY AtLoop DEF Init, Candidates, Quits
<1> QED BY <1>4, <1>5, <1>6 DEF QuitInv

-----------------------------------------------------------------------------
(* OnKeyDown's Ctrl+G: for any documents, bounds and keys but Shift+Q, and *)
(* with requests that time out, results that cannot be posted and edits    *)
(* and callbacks that come late, the first Ctrl+G leaves the provider and  *)
(* the second leaves nothing under way.  The cases Calm leaves out are     *)
(* conversions that find nothing and open a registration, denied edits     *)
(* (with either the property fails), Shift+Q, provider threads that        *)
(* overtake one another, and everything done with the mouse or by the      *)
(* application.                                                            *)
THEOREM SecondQuit == Calm => (Spec => []SecondQuitEnds)
<1> SUFFICES ASSUME Calm PROVE Spec => []SecondQuitEnds
  OBVIOUS
<1>1. Init => Good
  BY InitInvariant, InitEnds DEF Good
<1>2. Good /\ [Next]_vars => Good'
  BY StepKeeps, StillEnds DEF Good, Keeps
<1>3. Good => SecondQuitEnds
  BY DEF Good, QuitInv, Plain, Quits, Ended, SecondQuitEnds
<1> QED BY <1>1, <1>2, <1>3, PTL DEF Spec
=============================================================================
