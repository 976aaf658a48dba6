-------------------------- MODULE TextService_proofs --------------------------
(***************************************************************************)
(* Proofs about TextService, for every set of documents, keys and events:  *)
(* late callbacks leave newer compositions alone, candidate lists have an  *)
(* owner, and one provider call at most counts.                            *)
(***************************************************************************)
EXTENDS TextServiceInv, SequenceTheorems, FiniteSetTheorems, TLAPS

-----------------------------------------------------------------------------
(* Queues whose elements are left open.                                    *)
LEMMA SequenceShape ==
  ASSUME NEW S, NEW q \in Seq(S)
  PROVE  IsSequence(q) /\ Len(q) \in Nat /\ DOMAIN q = 1..Len(q)
<1>1. Len(q) \in Nat /\ DOMAIN q = 1..Len(q)
  OBVIOUS
<1>2. q \in Seq(ToSet(q))
  BY <1>1 DEF ToSet
<1> QED BY <1>1, <1>2 DEF IsSequence

LEMMA AppendShape ==
  ASSUME NEW q, IsSequence(q), NEW x
  PROVE  /\ IsSequence(Append(q, x)) /\ DOMAIN Append(q, x) = 1..Len(q) + 1
         /\ DOMAIN q = 1..Len(q) /\ Len(q) \in Nat
         /\ \A i \in 1..Len(q) : Append(q, x)[i] = q[i]
         /\ Append(q, x)[Len(q) + 1] = x
<1> DEFINE S == ToSet(q) \cup {x}
<1>1. q \in Seq(S) /\ x \in S /\ Len(q) \in Nat /\ DOMAIN q = 1..Len(q)
  BY SequenceShape DEF IsSequence
<1> HIDE DEF S
<1>2. Append(q, x) \in Seq(S)
  BY <1>1
<1>3. IsSequence(Append(q, x))
  BY <1>2, SequenceShape
<1> QED BY <1>1, <1>2, <1>3

LEMMA TailShape ==
  ASSUME NEW q, IsSequence(q), q # <<>>
  PROVE  /\ IsSequence(Tail(q)) /\ Len(q) \in Nat /\ Len(q) > 0 /\ DOMAIN q = 1..Len(q)
         /\ DOMAIN Tail(q) = 1..Len(q) - 1
         /\ \A i \in 1..Len(q) - 1 : Tail(q)[i] = q[i + 1]
         /\ Head(q) = q[1]
<1>1. Tail(q) \in Seq(ToSet(q)) /\ q \in Seq(ToSet(q))
  BY DEF IsSequence
<1>2. IsSequence(Tail(q))
  BY <1>1, SequenceShape
<1> QED BY <1>1, <1>2

LEMMA RemoveShape ==
  ASSUME NEW q, IsSequence(q), NEW i \in DOMAIN q
  PROVE  /\ IsSequence(RemoveAt(q, i)) /\ DOMAIN RemoveAt(q, i) = 1..Len(q) - 1
         /\ Len(q) \in Nat /\ DOMAIN q = 1..Len(q)
         /\ \A j \in 1..Len(q) - 1 :
              RemoveAt(q, i)[j] = q[IF j < i THEN j ELSE j + 1]
<1> DEFINE S == ToSet(q)
<1>1. q \in Seq(S) /\ Len(q) \in Nat /\ DOMAIN q = 1..Len(q) /\ i \in 1..Len(q)
  BY SequenceShape DEF IsSequence
<1> HIDE DEF S
<1> DEFINE a == SubSeq(q, 1, i - 1)
           b == SubSeq(q, i + 1, Len(q))
<1>2. a \in Seq(S) /\ Len(a) = i - 1 /\ \A j \in 1..i - 1 : a[j] = q[j]
  BY <1>1
<1>3. b \in Seq(S) /\ Len(b) = Len(q) - i /\ \A j \in 1..Len(q) - i : b[j] = q[i + j]
  BY <1>1
<1>4. RemoveAt(q, i) = a \o b
  BY DEF RemoveAt
<1> HIDE DEF a, b
<1> DEFINE c == a \o b
<1>5. /\ c \in Seq(S) /\ Len(c) = Len(a) + Len(b)
      /\ \A j \in 1..Len(a) + Len(b) : c[j] = IF j <= Len(a) THEN a[j] ELSE b[j - Len(a)]
  BY <1>2, <1>3, ConcatProperties, Zenon
<1> HIDE DEF c
<1>6. RemoveAt(q, i) = c
  BY <1>4 DEF c
<1>7. Len(c) = Len(q) - 1 /\ DOMAIN c = 1..Len(q) - 1
  BY <1>1, <1>2, <1>3, <1>5
<1>8. \A j \in 1..Len(q) - 1 : c[j] = q[IF j < i THEN j ELSE j + 1]
  <2> SUFFICES ASSUME NEW j \in 1..Len(q) - 1 PROVE c[j] = q[IF j < i THEN j ELSE j + 1]
    OBVIOUS
  <2>1. CASE j < i
    BY <1>1, <1>2, <1>3, <1>5, <2>1
  <2>2. CASE ~(j < i)
    <3>1. j - Len(a) \in 1..Len(q) - i /\ i + (j - Len(a)) = j + 1
      BY <1>1, <1>2, <2>2
    <3>2. c[j] = b[j - Len(a)]
      BY <1>1, <1>2, <1>3, <1>5, <2>2
    <3> QED BY <1>3, <2>2, <3>1, <3>2
  <2> QED BY <2>1, <2>2
<1> QED BY <1>1, <1>5, <1>6, <1>7, <1>8, SequenceShape

LEMMA MapShape ==
  ASSUME NEW q, IsSequence(q), NEW m, m = [i \in DOMAIN q |-> m[i]]
  PROVE  IsSequence(m) /\ DOMAIN m = 1..Len(q) /\ Len(m) = Len(q)
<1>1. Len(q) \in Nat /\ DOMAIN q = 1..Len(q)
  BY SequenceShape DEF IsSequence
<1>2. m \in [1..Len(q) -> ToSet(m)]
  BY <1>1 DEF ToSet
<1>3. m \in Seq(ToSet(m))
  BY <1>1, <1>2, SeqDef
<1> QED BY <1>1, <1>3 DEF IsSequence

-----------------------------------------------------------------------------
(* What the frontend and the engine answer: candidates come with the       *)
(* reading that they replace.                                              *)
LEMMA LocalAnswers ==
  ASSUME NEW f, NEW key
  PROVE  /\ Feed(f, key).st.cands = FALSE /\ Commit(f).st.cands = FALSE
         /\ CommitKatakana(f).st.cands = FALSE /\ Quit(f).st.cands = FALSE
         /\ Backspace(f).st.cands = FALSE /\ RestorePreedit(f).st.cands = FALSE
         /\ ToKatakana(f).st.cands = FALSE /\ Kakutei(f).st.cands = FALSE
<1>1. \A g, terminal : Snapshot(g, terminal).cands = FALSE
  BY DEF Snapshot, State
<1>2. NoState.cands = FALSE
  BY DEF NoState, State
<1>3. \A g : Shown(g).st.cands = FALSE /\ Handed(g).st.cands = FALSE
             /\ Confirmed(g).st.cands = FALSE
  BY <1>1 DEF Shown, Handed, Confirmed
<1>4. Feed(f, key).st.cands = FALSE
  <2>1. [Snapshot(f, TRUE) EXCEPT !.text = <<key.id>>].cands = FALSE
    BY DEF Snapshot, State
  <2> QED BY <1>2, <1>3, <2>1 DEF Feed, FeedAscii, Switched
<1>5. Commit(f).st.cands = FALSE /\ CommitKatakana(f).st.cands = FALSE
      /\ RestorePreedit(f).st.cands = FALSE /\ ToKatakana(f).st.cands = FALSE
      /\ Backspace(f).st.cands = FALSE
  BY <1>2, <1>3 DEF Commit, CommitKatakana, RestorePreedit, ToKatakana, Backspace
<1>6. Quit(f).st.cands = FALSE
  BY <1>2 DEF Quit, State
<1>7. Kakutei(f).st.cands = FALSE
  <2>1. \A g : ToHiragana(g).st.cands = FALSE
    BY <1>3 DEF ToHiragana
  <2>2. CASE Commit(f).st = NoState
    BY <2>1, <2>2 DEF Kakutei
  <2>3. CASE Commit(f).st # NoState
    <3>1. \E g : Commit(f).st = Snapshot(g, TRUE)
      BY <2>3 DEF Commit, Confirmed
    <3>2. [Commit(f).st EXCEPT !.mode = "hiragana"].cands = FALSE
      BY <3>1 DEF Snapshot, State
    <3> QED BY <2>3, <3>2 DEF Kakutei
  <2> QED BY <2>2, <2>3
<1> QED BY <1>4, <1>5, <1>6, <1>7

LEMMA EngineAnswers ==
  ASSUME NEW s, NEW req, NEW r \in Exec(s, req)
  PROVE  r.st.cands => r.st.start
<1>1. \A t : Line(t).cands => Line(t).start
  <2> TAKE t
  <2>1. Snapshot(t.fe, FALSE).cands = FALSE
    BY DEF Snapshot, State
  <2> DEFINE native == IF t.cand THEN State("candidate", TRUE, t.fe.text, <<>>, TRUE)
                       ELSE Snapshot(t.fe, FALSE)
  <2>2. native.cands => native.start
    BY <2>1 DEF State
  <2>3. native = [mode |-> native.mode, start |-> native.start, text |-> native.text,
                  pending |-> native.pending, cands |-> native.cands]
    BY DEF State, Snapshot
  <2>4. Line(t) = IF t.reg THEN [native EXCEPT !.mode = "registration",
                                               !.text = t.word \o native.text]
                  ELSE native
    BY DEF Line
  <2> HIDE DEF native
  <2> QED BY <2>2, <2>3, <2>4
<1>2. \E t : r = Reply(t) \/ r = Settled(t) \/ r = Refused(t)
  <2>1. CASE s.reg /\ req.verb # "RESET"
    BY <2>1 DEF Exec, ExecRegistration
  <2>2. CASE ~(s.reg /\ req.verb # "RESET")
    BY <2>2 DEF Exec
  <2> QED BY <2>1, <2>2
<1>3. NoState.cands = FALSE
  BY DEF NoState, State
<1> QED BY <1>1, <1>2, <1>3 DEF Reply, Settled, Refused

LEMMA AskAnswers ==
  ASSUME NEW req, NEW r \in Ask(req), resync \in BOOLEAN
  PROVE  (r.st.cands => r.st.start) /\ r.resync \in BOOLEAN
<1>1. NoState.cands = FALSE
  BY DEF NoState, State
<1>2. \/ \E x \in Outcomes(IF resync THEN NewSession ELSE session, req) :
           r = [fe |-> fe, s |-> x.s, resync |-> FALSE, st |-> x.st]
      \/ r = [fe |-> fe, s |-> session, resync |-> TRUE, st |-> NoState]
  BY DEF Ask
<1>3. \A x \in Outcomes(IF resync THEN NewSession ELSE session, req) :
        x.st.cands => x.st.start
  BY EngineAnswers DEF Outcomes
<1>4. ASSUME NEW x \in Outcomes(IF resync THEN NewSession ELSE session, req),
             r = [fe |-> fe, s |-> x.s, resync |-> FALSE, st |-> x.st]
      PROVE  r.st = x.st /\ r.resync = FALSE
  BY <1>4
<1>5. ASSUME r = [fe |-> fe, s |-> session, resync |-> TRUE, st |-> NoState]
      PROVE  r.st = NoState /\ r.resync = TRUE
  BY <1>5
<1> QED BY <1>1, <1>2, <1>3, <1>4, <1>5, Zenon

LEMMA ResultAnswers ==
  ASSUME NEW key, NEW r \in Result(key), resync \in BOOLEAN
  PROVE  (r.st.cands => r.st.start) /\ r.resync \in BOOLEAN
<1>1. ASSUME NEW x, r \in Locally(x), x.st.cands = FALSE
      PROVE  (r.st.cands => r.st.start) /\ r.resync \in BOOLEAN
  BY <1>1 DEF Locally
<1>2. ASSUME r \in EditingKey(key), key.ch \in {"ctrlj", "back", "space", "left", "right"}
      PROVE  (r.st.cands => r.st.start) /\ r.resync \in BOOLEAN
  <2>1. \/ \E x : r \in Locally(x) /\ x.st.cands = FALSE
        \/ r \in FromEngine(key)
    BY <1>2, LocalAnswers DEF EditingKey
  <2> QED BY <1>1, <2>1, AskAnswers DEF FromEngine
<1>3. \/ \E x : r \in Locally(x) /\ x.st.cands = FALSE
      \/ \E req : r \in Ask(req)
      \/ r \in EditingKey(key) /\ key.ch \in {"ctrlj", "back", "space", "left", "right"}
  BY LocalAnswers DEF Result, FromEngine
<1> QED BY <1>1, <1>2, <1>3, AskAnswers

-----------------------------------------------------------------------------
(* The identities of compositions.                                         *)
LEMMA FiniteIds ==
  ASSUME IInv
  PROVE  /\ IsFiniteSet(OrphanIds) /\ IsFiniteSet(InUse)
<1>1. IsFiniteSet(OrphanIds)
  <2>1. [o \in orphans |-> o.id] \in Surjection(orphans, OrphanIds)
    BY DEF Surjection, OrphanIds
  <2> QED BY <2>1, FS_Surjection DEF IInv, Identities
<1>2. InUse = ({comp.id} \cup ending) \cup OrphanIds
  BY DEF InUse, OrphanIds, IInv, Identities
<1>3. IsFiniteSet({comp.id} \cup ending)
  <2>1. IsFiniteSet(ending) /\ IsFiniteSet(ending \cup {comp.id})
    BY FS_AddElement DEF IInv, Identities
  <2>2. {comp.id} \cup ending = ending \cup {comp.id}
    OBVIOUS
  <2> QED BY <2>1, <2>2
<1> QED BY <1>1, <1>2, <1>3, FS_Union

LEMMA NewIdIsNew ==
  ASSUME IInv
  PROVE  /\ NewId \in Nat /\ NewId # 0 /\ NewId # comp.id
         /\ NewId \notin ending \cup OrphanIds
<1> DEFINE n == Cardinality(InUse)
<1>1. n \in Nat
  BY FiniteIds, FS_CardinalityType
<1>2. \E i \in 1..n + 1 : i \notin InUse
  <2> SUFFICES ASSUME 1..n + 1 \subseteq InUse PROVE FALSE
    OBVIOUS
  <2>1. Cardinality(1..n + 1) <= n
    BY FiniteIds, FS_Subset
  <2>2. Cardinality(1..n + 1) = n + 1
    BY <1>1, FS_Interval
  <2> QED BY <1>1, <2>1, <2>2
<1>3. NewId \in 1..n + 1 /\ NewId \notin InUse
  BY <1>2 DEF NewId
<1> QED BY <1>1, <1>3 DEF InUse, OrphanIds

(* What an edit does to the composition.                                   *)
LEMMA EditMoves ==
  ASSUME NEW c, NEW st, NEW commits, NEW range, NEW ok, Edit(c, st, commits, range, ok)
  PROVE  \/ UNCHANGED <<comp, ending, callbacks>>
         \/ comp # NoComp /\ comp' = NoComp /\ Acknowledged(comp.id)
         \/ /\ comp # NoComp /\ UNCHANGED <<ending, callbacks>>
            /\ \E text : comp' = [comp EXCEPT !.text = text]
         \/ /\ comp = NoComp /\ ok /\ UNCHANGED <<ending, callbacks>>
            /\ \E text : comp' = [id |-> NewId, ctx |-> c, text |-> text]
BY DEF Edit

LEMMA EditFlags ==
  ASSUME NEW c, NEW st, NEW commits, NEW range \in Context \cup {NoOne}, NEW ok,
         commits \in BOOLEAN, Edit(c, st, commits, range, ok)
  PROVE  regRange' \in Context \cup {NoOne} /\ regCommit' \in BOOLEAN
BY DEF Edit

(* A new state of the composition and of what is being ended.              *)
Ends(id) ==
  \/ UNCHANGED callbacks /\ ending' = ending \ {id}
  \/ ending' = ending \cup {id} /\ callbacks' = callbacks \cup {id}

LEMMA AcknowledgedEnds ==
  ASSUME NEW id, Acknowledged(id)  PROVE Ends(id)
BY DEF Acknowledged, Ends

(* Edits that wait: none of them ends a composition any more or less.      *)
EditsKeep ==
  \/ UNCHANGED edits
  \/ \E e : e.kind = "state" /\ IsEdit(e) /\ edits' = Append(edits, e)
  \/ edits # <<>> /\ Head(edits).kind = "state" /\ edits' = Tail(edits)

Waiting == IsSequence(edits) /\ \A i \in DOMAIN edits : IsEdit(edits[i])
OneEndEach == \A i, j \in EndEdits : edits[i].comp.id = edits[j].comp.id => i = j

LEMMA TailOfEdits ==
  ASSUME IInv, edits # <<>>, edits' = Tail(edits)
  PROVE  /\ Waiting' /\ OneEndEach' /\ Head(edits) = edits[1] /\ 1 \in DOMAIN edits
         /\ EndIds' = IF Head(edits).kind = "end"
                      THEN EndIds \ {Head(edits).comp.id} ELSE EndIds
<1>1. /\ Waiting /\ OneEndEach
  BY DEF IInv, Records, Identities, Waiting, OneEndEach
<1> DEFINE n == Len(edits)
<1>2. /\ IsSequence(edits') /\ n \in Nat /\ n > 0 /\ DOMAIN edits = 1..n
      /\ DOMAIN edits' = 1..n - 1
      /\ \A i \in 1..n - 1 : edits'[i] = edits[i + 1]
      /\ Head(edits) = edits[1]
  BY <1>1, TailShape DEF Waiting
<1> HIDE DEF n
<1>3. Waiting'
  BY <1>1, <1>2 DEF Waiting
<1>4. \A i : i \in EndEdits' <=> i \in 1..n - 1 /\ i + 1 \in EndEdits
  BY <1>2 DEF EndEdits
<1>5. OneEndEach'
  <2> SUFFICES ASSUME NEW i \in EndEdits', NEW j \in EndEdits',
                      edits'[i].comp.id = edits'[j].comp.id
               PROVE  i = j
    BY DEF OneEndEach
  <2>1. i + 1 = j + 1
    BY <1>1, <1>2, <1>4 DEF OneEndEach
  <2> QED BY <1>2, <1>4, <2>1
<1>6. \A x : x \in EndIds' <=> \E i \in EndEdits : i # 1 /\ x = edits[i].comp.id
  <2>1. ASSUME NEW i \in EndEdits, i # 1
        PROVE  i - 1 \in EndEdits' /\ edits'[i - 1] = edits[i]
    BY <1>2, <1>4, <2>1 DEF EndEdits
  <2>2. ASSUME NEW i \in EndEdits'
        PROVE  i + 1 \in EndEdits /\ i + 1 # 1 /\ edits'[i] = edits[i + 1]
    BY <1>2, <1>4, <2>2
  <2>3. \A x : x \in EndIds' <=> \E i \in EndEdits' : x = edits'[i].comp.id
    BY DEF EndIds
  <2>4. ASSUME NEW x, NEW i \in EndEdits, i # 1, x = edits[i].comp.id
        PROVE  \E j \in EndEdits' : x = edits'[j].comp.id
    <3>1. i - 1 \in EndEdits' /\ x = edits'[i - 1].comp.id
      BY <2>1, <2>4
    <3> QED BY <3>1
  <2>5. ASSUME NEW x, NEW j \in EndEdits', x = edits'[j].comp.id
        PROVE  \E i \in EndEdits : i # 1 /\ x = edits[i].comp.id
    BY <2>2, <2>5
  <2>6. ASSUME NEW x
        PROVE  x \in EndIds' <=> \E i \in EndEdits : i # 1 /\ x = edits[i].comp.id
    <3>1. ASSUME x \in EndIds'
          PROVE  \E i \in EndEdits : i # 1 /\ x = edits[i].comp.id
      <4>1. PICK j \in EndEdits' : x = edits'[j].comp.id
        BY <2>3, <3>1, Zenon
      <4> QED BY <2>5, <4>1, Zenon
    <3>2. ASSUME NEW i \in EndEdits, i # 1, x = edits[i].comp.id
          PROVE  x \in EndIds'
      <4>1. \E j \in EndEdits' : x = edits'[j].comp.id
        BY <2>4, <3>2, Zenon
      <4> QED BY <2>3, <4>1, Zenon
    <3> QED BY <3>1, <3>2, Zenon
  <2> QED BY <2>6
<1>7. \A x : x \in EndIds <=> \E i \in EndEdits : x = edits[i].comp.id
  BY DEF EndIds
<1>8. 1 \in EndEdits <=> Head(edits).kind = "end"
  BY <1>2 DEF EndEdits
<1>9. CASE Head(edits).kind = "end"
  <2>1. \A i \in EndEdits : i # 1 <=> edits[i].comp.id # Head(edits).comp.id
    BY <1>1, <1>2, <1>8, <1>9 DEF OneEndEach
  <2>2. \A x : x \in EndIds' <=> x \in EndIds /\ x # Head(edits).comp.id
    BY <1>6, <1>7, <2>1
  <2> QED BY <1>2, <1>3, <1>5, <1>9, <2>2
<1>10. CASE Head(edits).kind # "end"
  <2>1. \A x : x \in EndIds' <=> x \in EndIds
    BY <1>6, <1>7, <1>8, <1>10
  <2> QED BY <1>2, <1>3, <1>5, <1>10, <2>1
<1> QED BY <1>9, <1>10

LEMMA AppendedEdit ==
  ASSUME IInv, NEW e, IsEdit(e), edits' = Append(edits, e),
         e.kind = "end" => e.comp.id \notin EndIds
  PROVE  /\ Waiting' /\ OneEndEach'
         /\ EndIds' = IF e.kind = "end" THEN EndIds \cup {e.comp.id} ELSE EndIds
<1>1. /\ Waiting /\ OneEndEach
  BY DEF IInv, Records, Identities, Waiting, OneEndEach
<1> DEFINE n == Len(edits)
<1>2. /\ IsSequence(edits') /\ n \in Nat /\ DOMAIN edits = 1..n
      /\ DOMAIN edits' = 1..n + 1
      /\ \A i \in 1..n : edits'[i] = edits[i]
      /\ edits'[n + 1] = e
  BY <1>1, AppendShape DEF Waiting
<1> HIDE DEF n
<1>3. Waiting'
  <2> SUFFICES ASSUME NEW i \in 1..n + 1 PROVE IsEdit(edits'[i])
    BY <1>2 DEF Waiting
  <2> QED BY <1>1, <1>2 DEF Waiting
<1>4. \A i : i \in EndEdits' <=> i \in EndEdits \/ (i = n + 1 /\ e.kind = "end")
  BY <1>2 DEF EndEdits
<1>5. \A i \in EndEdits : i \in 1..n /\ edits'[i] = edits[i] /\ edits[i].comp.id \in EndIds
  BY <1>2 DEF EndEdits, EndIds
<1>6. OneEndEach'
  BY <1>1, <1>2, <1>4, <1>5 DEF OneEndEach
<1>7. \A x : x \in EndIds' <=> x \in EndIds \/ (e.kind = "end" /\ x = e.comp.id)
  BY <1>2, <1>4, <1>5 DEF EndIds
<1> QED BY <1>3, <1>6, <1>7

LEMMA KeptEdits ==
  ASSUME IInv, EditsKeep  PROVE Waiting' /\ OneEndEach' /\ EndIds' = EndIds
<1>1. CASE UNCHANGED edits
  BY <1>1 DEF IInv, Records, Identities, Waiting, OneEndEach, EndIds, EndEdits
<1>2. CASE \E e : e.kind = "state" /\ IsEdit(e) /\ edits' = Append(edits, e)
  BY <1>2, AppendedEdit
<1>3. CASE edits # <<>> /\ Head(edits).kind = "state" /\ edits' = Tail(edits)
  BY <1>3, TailOfEdits
<1> QED BY <1>1, <1>2, <1>3 DEF EditsKeep

-----------------------------------------------------------------------------
(* The four ways a step may touch the compositions.                        *)
Places(c) == c = NoComp \/ c.ctx \in Context
Compositions == Identities /\ Waiting /\ IsComp(comp) /\ Places(comp)

LEMMA Standing ==
  ASSUME IInv
  PROVE  /\ Compositions /\ IsComp(NoComp) /\ Places(NoComp) /\ NoComp.id = 0
         /\ EndIds \subseteq ending /\ callbacks \subseteq ending
         /\ comp # NoComp => comp.id # 0 /\ comp.id \notin callbacks /\ comp.id \notin EndIds
BY DEF IInv, TypeOK, Records, Identities, Waiting, Compositions, Places, IsComp, NoComp

(* The service has the application end its composition.                    *)
LEMMA CompositionEnds ==
  ASSUME IInv, comp # NoComp, comp' = NoComp, Acknowledged(comp.id), UNCHANGED orphans,
         EditsKeep
  PROVE  Compositions' /\ callbacks \subseteq callbacks'
<1>1. /\ Waiting' /\ OneEndEach' /\ EndIds' = EndIds /\ OrphanIds' = OrphanIds
      /\ Ends(comp.id)
  BY KeptEdits, AcknowledgedEnds DEF OrphanIds
<1>2. CASE UNCHANGED callbacks /\ ending' = ending \ {comp.id}
  <2>1. IsFiniteSet(ending') /\ UNCHANGED orphans
    BY <1>2, FS_RemoveElement DEF IInv, Identities
  <2>2. ending' = ending
    BY <1>2 DEF IInv, Identities
  <2> QED
    BY <1>1, <1>2, <2>1, <2>2, Standing
    DEF Compositions, Identities, IInv, Places, OneEndEach
<1>3. CASE ending' = ending \cup {comp.id} /\ callbacks' = callbacks \cup {comp.id}
  <2>1. IsFiniteSet(ending') /\ UNCHANGED orphans
    BY <1>3, FS_AddElement DEF IInv, Identities
  <2> QED
    BY <1>1, <1>3, <2>1, Standing DEF Compositions, Identities, IInv, Places, OneEndEach
<1> QED BY <1>1, <1>2, <1>3 DEF Ends

LEMMA EditKeeps ==
  ASSUME IInv, UNCHANGED orphans, EditsKeep,
         NEW c, NEW st, NEW commits, NEW range, NEW ok, ok => c \in Context,
         Edit(c, st, commits, range, ok)
  PROVE  Compositions' /\ callbacks \subseteq callbacks'
<1>1. Waiting' /\ OneEndEach' /\ EndIds' = EndIds /\ OrphanIds' = OrphanIds
  BY KeptEdits DEF OrphanIds
<1>2. CASE UNCHANGED <<comp, ending, callbacks>>
  BY <1>1, <1>2, Standing DEF Compositions, Identities, IInv, Places, IsComp, OneEndEach
<1>3. CASE comp # NoComp /\ comp' = NoComp /\ Acknowledged(comp.id)
  BY <1>3, CompositionEnds
<1>4. CASE /\ comp # NoComp /\ UNCHANGED <<ending, callbacks>>
           /\ \E text : comp' = [comp EXCEPT !.text = text]
  <2>1. PICK text : comp' = [comp EXCEPT !.text = text]
    BY <1>4
  <2>2. IsComp(comp') /\ comp'.id = comp.id /\ comp'.ctx = comp.ctx
    BY <2>1, Standing DEF Compositions, IsComp
  <2>3. comp' # NoComp /\ Places(comp')
    BY <1>4, <2>2, Standing DEF NoComp, Places, Compositions
  <2> QED
    BY <1>1, <1>4, <2>2, <2>3, Standing DEF Compositions, Identities, IInv, OneEndEach
<1>5. CASE /\ comp = NoComp /\ ok /\ UNCHANGED <<ending, callbacks>>
           /\ \E text : comp' = [id |-> NewId, ctx |-> c, text |-> text]
  <2>1. PICK text : comp' = [id |-> NewId, ctx |-> c, text |-> text]
    BY <1>5
  <2>2. IsComp(comp') /\ comp'.id = NewId /\ Places(comp')
    BY <1>5, <2>1, NewIdIsNew DEF IsComp, Places
  <2>3. comp' # NoComp
    BY <2>2, NewIdIsNew DEF NoComp
  <2> QED
    BY <1>1, <1>5, <2>2, <2>3, NewIdIsNew, Standing
    DEF Compositions, Identities, IInv, OneEndEach
<1> QED BY <1>2, <1>3, <1>4, <1>5, EditMoves

(* Nothing happens to a composition.                                       *)
LEMMA CompositionStays ==
  ASSUME IInv, UNCHANGED <<comp, ending, callbacks, orphans>>, EditsKeep
  PROVE  Compositions' /\ callbacks \subseteq callbacks'
<1>1. Waiting' /\ OneEndEach' /\ EndIds' = EndIds /\ OrphanIds' = OrphanIds
  BY KeptEdits DEF OrphanIds
<1> QED
  BY <1>1, Standing DEF Compositions, Identities, IInv, Places, IsComp, OneEndEach

(* ForceCancelComposition and SettleContextComposition.                    *)
LEMMA EndCompositionKeeps ==
  ASSUME IInv, NEW kept \in BOOLEAN, EndComposition(kept), comp' = NoComp
  PROVE  Compositions' /\ callbacks \subseteq callbacks'
<1>1. CASE comp = NoComp /\ UNCHANGED <<docs, ending, callbacks, tsf>>
  BY <1>1, CompositionStays DEF tsf, EditsKeep
<1>2. CASE comp # NoComp /\ Acknowledged(comp.id) /\ UNCHANGED tsf
  BY <1>2, CompositionEnds DEF tsf, EditsKeep
<1> DEFINE e == [kind |-> "end", comp |-> comp, kept |-> kept, ctx |-> comp.ctx,
                 st |-> NoState]
<1>3. CASE /\ comp # NoComp /\ edits' = Append(edits, e)
           /\ ending' = ending \cup {comp.id} /\ UNCHANGED <<docs, callbacks, orphans>>
  <2>1. IsEdit(e) /\ e.kind = "end" /\ e.comp.id = comp.id
    BY <1>3, Standing DEF IsEdit, Compositions, Places
  <2> HIDE DEF e
  <2>2. Waiting' /\ OneEndEach' /\ EndIds' = EndIds \cup {comp.id}
    BY <1>3, <2>1, AppendedEdit, Standing
  <2>3. IsFiniteSet(ending') /\ IsFiniteSet(orphans') /\ OrphanIds' = OrphanIds
    BY <1>3, FS_AddElement DEF IInv, Identities, OrphanIds
  <2>4. /\ ending' = callbacks' \cup EndIds' /\ callbacks' \cap EndIds' = {}
        /\ ending' \cap OrphanIds' = {} /\ 0 \notin ending' \cup OrphanIds'
    BY <1>3, <2>2, <2>3, Standing DEF IInv, Identities
  <2>5. comp'.id = 0 /\ comp' = NoComp /\ IsComp(comp') /\ Places(comp')
    BY Standing
  <2> QED
    BY <1>3, <2>2, <2>3, <2>4, <2>5 DEF Compositions, Identities, OneEndEach
<1>4. CASE /\ comp # NoComp /\ orphans' = orphans \cup {comp}
           /\ UNCHANGED <<docs, ending, callbacks, edits>>
  <2>1. Waiting' /\ OneEndEach' /\ EndIds' = EndIds
    BY <1>4, KeptEdits DEF EditsKeep
  <2>2. IsFiniteSet(orphans')
    BY <1>4, FS_AddElement DEF IInv, Identities
  <2>3. OrphanIds' = OrphanIds \cup {comp.id}
    BY <1>4 DEF OrphanIds
  <2> QED
    BY <1>4, <2>1, <2>2, <2>3, Standing
    DEF Compositions, Identities, IInv, Places, OneEndEach
<1> QED BY <1>1, <1>2, <1>3, <1>4 DEF EndComposition

(* The service lets go of its composition; c is gone.                      *)
LEMMA CompositionIsLeft ==
  ASSUME IInv, NEW c, comp' = NoComp, UNCHANGED <<ending, callbacks>>, EditsKeep,
         orphans' = (orphans \cup {comp}) \ {c, NoComp}
  PROVE  Compositions' /\ callbacks \subseteq callbacks'
<1>1. Waiting' /\ OneEndEach' /\ EndIds' = EndIds
  BY KeptEdits
<1>2. IsFiniteSet(orphans')
  BY FS_AddElement, FS_Subset DEF IInv, Identities
<1>3. OrphanIds' \subseteq OrphanIds \cup ({comp.id} \ {0})
  BY Standing DEF OrphanIds
<1> QED
  BY <1>1, <1>2, <1>3, Standing DEF Compositions, Identities, IInv, Places, OneEndEach

(* OnCompositionTerminated for a composition whose end was announced.      *)
LEMMA AnnouncedEnd ==
  ASSUME IInv, NEW id \in callbacks, callbacks' = callbacks \ {id},
         ending' = ending \ {id}, UNCHANGED <<comp, orphans, edits>>
  PROVE  Compositions'
<1>1. Waiting' /\ OneEndEach' /\ EndIds' = EndIds /\ OrphanIds' = OrphanIds
  BY KeptEdits DEF EditsKeep, OrphanIds
<1>2. IsFiniteSet(ending')
  BY FS_RemoveElement DEF IInv, Identities
<1> QED
  BY <1>1, <1>2, Standing DEF Compositions, Identities, IInv, Places, IsComp, OneEndEach

(* An edit that ends a composition is carried out.                         *)
LEMMA EndIsCarriedOut ==
  ASSUME IInv, edits # <<>>, edits' = Tail(edits), Head(edits).kind = "end",
         Acknowledged(Head(edits).comp.id), UNCHANGED <<comp, orphans>>
  PROVE  Compositions' /\ callbacks \subseteq callbacks'
<1> DEFINE id == Head(edits).comp.id
<1>1. /\ Waiting' /\ OneEndEach' /\ EndIds' = EndIds \ {id} /\ OrphanIds' = OrphanIds
      /\ Ends(id)
  BY TailOfEdits, AcknowledgedEnds DEF OrphanIds
<1>2. id \in EndIds
  <2>1. 1 \in EndEdits /\ id = edits[1].comp.id
    BY TailOfEdits DEF EndEdits
  <2> QED BY <2>1 DEF EndIds
<1> HIDE DEF id
<1>3. CASE UNCHANGED callbacks /\ ending' = ending \ {id}
  <2>1. IsFiniteSet(ending') /\ IsFiniteSet(orphans')
    BY <1>3, FS_RemoveElement DEF IInv, Identities
  <2>2. /\ ending' = callbacks' \cup EndIds' /\ callbacks' \cap EndIds' = {}
        /\ ending' \cap OrphanIds' = {} /\ 0 \notin ending' \cup OrphanIds'
        /\ comp.id \notin ending' \cup OrphanIds'
    BY <1>1, <1>2, <1>3 DEF IInv, Identities
  <2>3. IsComp(comp') /\ Places(comp') /\ (comp'.id = 0 <=> comp' = NoComp)
    BY Standing DEF Compositions, Identities, IsComp, Places
  <2> QED
    BY <1>1, <1>3, <2>1, <2>2, <2>3 DEF Compositions, Identities, OneEndEach
<1>4. CASE ending' = ending \cup {id} /\ callbacks' = callbacks \cup {id}
  <2>1. IsFiniteSet(ending') /\ IsFiniteSet(orphans')
    BY <1>4, FS_AddElement DEF IInv, Identities
  <2>2. /\ ending' = callbacks' \cup EndIds' /\ callbacks' \cap EndIds' = {}
        /\ ending' \cap OrphanIds' = {} /\ 0 \notin ending' \cup OrphanIds'
        /\ comp.id \notin ending' \cup OrphanIds'
    BY <1>1, <1>2, <1>4 DEF IInv, Identities
  <2>3. IsComp(comp') /\ Places(comp') /\ (comp'.id = 0 <=> comp' = NoComp)
    BY Standing DEF Compositions, Identities, IsComp, Places
  <2> QED
    BY <1>1, <1>4, <2>1, <2>2, <2>3 DEF Compositions, Identities, OneEndEach
<1> QED BY <1>1, <1>3, <1>4 DEF Ends

-----------------------------------------------------------------------------
(* Calls and results on their way.                                         *)
Clear(m) == IsResult(m) /\ (m.st.cands => m.st.start)
Queues ==
  /\ IsSequence(calls) /\ \A i \in DOMAIN calls : IsCall(calls[i])
  /\ IsSequence(posted) /\ \A i \in DOMAIN posted : Clear(posted[i])
  /\ NewestCall

LEMMA StaleResults ==
  ASSUME NEW q, IsSequence(q), \A i \in DOMAIN q : Clear(q[i])
  PROVE  /\ IsSequence(Stale(q)) /\ DOMAIN Stale(q) = DOMAIN q
         /\ \A i \in DOMAIN q : Clear(Stale(q)[i]) /\ ~Stale(q)[i].current
<1>1. IsSequence(Stale(q)) /\ DOMAIN Stale(q) = DOMAIN q
  BY MapShape DEF Stale
<1>2. ASSUME NEW i \in DOMAIN q  PROVE Clear(Stale(q)[i]) /\ ~Stale(q)[i].current
  <2>1. Stale(q)[i] = [q[i] EXCEPT !.current = FALSE] /\ Clear(q[i])
    BY DEF Stale
  <2> QED BY <2>1 DEF Clear, IsResult
<1> QED BY <1>1, <1>2

LEMMA StaleCalls ==
  ASSUME NEW q, IsSequence(q), \A i \in DOMAIN q : IsCall(q[i])
  PROVE  /\ IsSequence(Stale(q)) /\ DOMAIN Stale(q) = DOMAIN q
         /\ \A i \in DOMAIN q : IsCall(Stale(q)[i]) /\ ~Stale(q)[i].current
<1>1. IsSequence(Stale(q)) /\ DOMAIN Stale(q) = DOMAIN q
  BY MapShape DEF Stale
<1>2. ASSUME NEW i \in DOMAIN q  PROVE IsCall(Stale(q)[i]) /\ ~Stale(q)[i].current
  <2>1. Stale(q)[i] = [q[i] EXCEPT !.current = FALSE] /\ IsCall(q[i])
    BY DEF Stale
  <2> QED BY <2>1 DEF IsCall
<1> QED BY <1>1, <1>2

LEMMA TailOfResults ==
  ASSUME Queues, posted # <<>>
  PROVE  /\ IsSequence(Tail(posted)) /\ \A i \in DOMAIN Tail(posted) : Clear(Tail(posted)[i])
         /\ Head(posted) = posted[1] /\ 1 \in DOMAIN posted
         /\ Clear(Head(posted))
<1>1. /\ IsSequence(Tail(posted)) /\ Len(posted) \in Nat /\ Len(posted) > 0
      /\ DOMAIN posted = 1..Len(posted) /\ DOMAIN Tail(posted) = 1..Len(posted) - 1
      /\ \A i \in 1..Len(posted) - 1 : Tail(posted)[i] = posted[i + 1]
      /\ Head(posted) = posted[1]
  BY TailShape DEF Queues
<1> QED BY <1>1 DEF Queues

LEMMA TailKeepsNewest ==
  ASSUME Queues, posted # <<>>, posted' = Tail(posted), UNCHANGED calls
  PROVE  Queues'
<1>1. /\ Len(posted) \in Nat /\ DOMAIN posted = 1..Len(posted)
      /\ DOMAIN Tail(posted) = 1..Len(posted) - 1
      /\ \A i \in 1..Len(posted) - 1 : Tail(posted)[i] = posted[i + 1]
  BY TailShape DEF Queues
<1>2. NewestCall'
  <2>1. \A i \in DOMAIN posted' : i \in Nat /\ i + 1 \in DOMAIN posted
                                  /\ posted'[i] = posted[i + 1]
    BY <1>1
  <2>2. \A i, j \in DOMAIN posted' :
          posted'[i].current /\ posted'[j].current => i + 1 = j + 1
    BY <2>1 DEF Queues, NewestCall
  <2>3. \A i, j \in DOMAIN posted' :
          posted'[i].current /\ posted'[j].current => i = j
    BY <2>1, <2>2
  <2> QED BY <2>1, <2>3 DEF Queues, NewestCall
<1> QED BY <1>2, TailOfResults DEF Queues

(* BeginProvider..., also from the handler that has taken the head.        *)
LEMMA BeginIsNewest ==
  ASSUME Queues, NEW p, IsSequence(p), \A i \in DOMAIN p : Clear(p[i]), NEW req,
         calls' = Append(Stale(calls), NewCall(req)), posted' = Stale(p)
  PROVE  Queues'
<1> DEFINE s == Stale(calls)
<1>1. /\ IsSequence(s) /\ DOMAIN s = DOMAIN calls
      /\ \A i \in DOMAIN s : IsCall(s[i]) /\ ~s[i].current
  BY StaleCalls DEF Queues
<1>2. calls' = Append(s, NewCall(req))
  OBVIOUS
<1> HIDE DEF s
<1>3. /\ IsSequence(calls') /\ DOMAIN calls' = 1..Len(s) + 1 /\ DOMAIN s = 1..Len(s)
      /\ Len(s) \in Nat /\ \A i \in 1..Len(s) : calls'[i] = s[i]
      /\ calls'[Len(s) + 1] = NewCall(req)
  BY <1>1, <1>2, AppendShape
<1>4. IsCall(NewCall(req))
  BY DEF IsCall, NewCall
<1>5. \A i \in DOMAIN calls' : IsCall(calls'[i]) /\ (calls'[i].current => i = Len(s) + 1)
  <2> SUFFICES ASSUME NEW i \in 1..Len(s) + 1
               PROVE  IsCall(calls'[i]) /\ (calls'[i].current => i = Len(s) + 1)
    BY <1>3
  <2>1. i = Len(s) + 1 \/ i \in 1..Len(s)
    BY <1>3
  <2> QED BY <1>1, <1>3, <1>4, <2>1
<1>6. /\ IsSequence(posted')
      /\ \A i \in DOMAIN posted' : Clear(posted'[i]) /\ ~posted'[i].current
  BY StaleResults
<1> QED BY <1>3, <1>5, <1>6 DEF Queues, NewestCall

LEMMA CancelLeavesNone ==
  ASSUME Queues, CancelPendingProvider  PROVE Queues'
<1>1. calls' = [i \in DOMAIN calls |-> calls'[i]]
      /\ \A i \in DOMAIN calls :
           calls'[i] = [calls[i] EXCEPT !.current = FALSE, !.cut = @ \/ calls[i].sent]
  BY DEF CancelPendingProvider
<1>2. IsSequence(calls') /\ DOMAIN calls' = DOMAIN calls
  BY <1>1, MapShape DEF Queues
<1>3. ASSUME NEW i \in DOMAIN calls  PROVE IsCall(calls'[i]) /\ ~calls'[i].current
  BY <1>1 DEF Queues, IsCall
<1>4. /\ IsSequence(posted')
      /\ \A i \in DOMAIN posted' : Clear(posted'[i]) /\ ~posted'[i].current
  BY StaleResults DEF Queues, CancelPendingProvider
<1> QED BY <1>2, <1>3, <1>4 DEF Queues, NewestCall

LEMMA LockKeepsNewest ==
  ASSUME Queues, NEW i \in DOMAIN calls, resync \in BOOLEAN, Lock(i)
  PROVE  Queues'
<1>1. /\ calls' = [calls EXCEPT ![i].sent = TRUE, ![i].reset = resync] /\ UNCHANGED posted
  BY DEF Lock
<1>2. calls' = [j \in DOMAIN calls |-> calls'[j]]
      /\ \A j \in DOMAIN calls :
           calls'[j] = IF j = i THEN [calls[i] EXCEPT !.sent = TRUE, !.reset = resync]
                       ELSE calls[j]
  BY <1>1
<1>3. IsSequence(calls') /\ DOMAIN calls' = DOMAIN calls
  BY <1>2, MapShape DEF Queues
<1>4. ASSUME NEW j \in DOMAIN calls
      PROVE  IsCall(calls'[j]) /\ calls'[j].current = calls[j].current
  <2>1. IsCall(calls[j])
    BY DEF Queues
  <2>2. CASE j = i
    <3>1. calls'[j] = [calls[j] EXCEPT !.sent = TRUE, !.reset = resync]
      BY <1>2, <2>2
    <3> QED BY <2>1, <3>1 DEF IsCall
  <2>3. CASE j # i
    BY <1>2, <2>1, <2>3
  <2> QED BY <2>2, <2>3
<1> QED BY <1>1, <1>3, <1>4 DEF Queues, NewestCall

LEMMA PostKeepsNewest ==
  ASSUME Queues, NEW i \in DOMAIN calls, NEW st, st.cands => st.start, Post(i, st)
  PROVE  Queues'
<1> DEFINE n == Len(calls)
           old(j) == IF j < i THEN j ELSE j + 1
<1>1. /\ IsSequence(calls') /\ DOMAIN calls' = 1..n - 1 /\ n \in Nat
      /\ DOMAIN calls = 1..n /\ \A j \in 1..n - 1 : calls'[j] = calls[old(j)]
  BY RemoveShape DEF Queues, Post
<1> HIDE DEF n
<1>2. \A j \in DOMAIN calls' : old(j) \in DOMAIN calls /\ old(j) # i /\ calls'[j] = calls[old(j)]
  BY <1>1
<1>3. \A j, k \in DOMAIN calls' : old(j) = old(k) => j = k
  BY <1>1
<1> HIDE DEF old
<1>4. /\ \A j \in DOMAIN calls' : IsCall(calls'[j])
      /\ \A j, k \in DOMAIN calls' : calls'[j].current /\ calls'[k].current => j = k
  BY <1>2, <1>3 DEF Queues, NewestCall
<1>5. CASE UNCHANGED posted
  <2>1. \A j \in DOMAIN calls', k \in DOMAIN posted' :
          ~(calls'[j].current /\ posted'[k].current)
    BY <1>2, <1>5 DEF Queues, NewestCall
  <2> QED BY <1>1, <1>4, <1>5, <2>1 DEF Queues, NewestCall
<1> DEFINE m == [current |-> calls[i].current, st |-> st]
<1>6. CASE posted' = Append(posted, m)
  <2>1. Clear(m) /\ m.current = calls[i].current
    BY DEF Clear, IsResult, Queues, IsCall
  <2> HIDE DEF m
  <2> DEFINE p == Len(posted)
  <2>2. /\ IsSequence(posted') /\ DOMAIN posted' = 1..p + 1 /\ DOMAIN posted = 1..p
        /\ p \in Nat /\ \A j \in 1..p : posted'[j] = posted[j]
        /\ posted'[p + 1] = m
    BY <1>6, AppendShape DEF Queues
  <2> HIDE DEF p
  <2>3. ASSUME NEW j \in DOMAIN posted'
        PROVE  \/ (j \in DOMAIN posted /\ posted'[j] = posted[j])
               \/ (j = p + 1 /\ posted'[j] = m)
    <3>1. j = p + 1 \/ j \in 1..p
      BY <2>2
    <3> QED BY <2>2, <3>1
  <2>4. \A j \in DOMAIN posted' : Clear(posted'[j])
    BY <2>1, <2>3 DEF Queues
  <2>5. \A j, k \in DOMAIN posted' : posted'[j].current /\ posted'[k].current => j = k
    BY <2>1, <2>3 DEF Queues, NewestCall
  <2>6. \A j \in DOMAIN calls', k \in DOMAIN posted' :
          ~(calls'[j].current /\ posted'[k].current)
    BY <1>2, <2>1, <2>3 DEF Queues, NewestCall
  <2> QED BY <1>1, <1>4, <2>2, <2>4, <2>5, <2>6 DEF Queues, NewestCall
<1> QED BY <1>5, <1>6 DEF Post

(* At most one call counts.                                                *)
LEMMA AtMostOne ==
  ASSUME Queues
  PROVE  Cardinality({i \in DOMAIN calls : calls[i].current})
         + Cardinality({i \in DOMAIN posted : posted[i].current}) <= 1
<1> DEFINE A == {i \in DOMAIN calls : calls[i].current}
           B == {i \in DOMAIN posted : posted[i].current}
<1>1. A = {} \/ \E x \in A : A = {x}
  BY DEF Queues, NewestCall
<1>2. B = {} \/ \E x \in B : B = {x}
  BY DEF Queues, NewestCall
<1>3. A = {} \/ B = {}
  BY DEF Queues, NewestCall
<1>4. A = {} => Cardinality(A) = 0
  BY FS_EmptySet
<1>5. B = {} => Cardinality(B) = 0
  BY FS_EmptySet
<1>6. Cardinality(A) \in {0, 1}
  BY <1>1, <1>4, FS_Singleton
<1>7. Cardinality(B) \in {0, 1}
  BY <1>2, <1>5, FS_Singleton
<1> HIDE DEF A, B
<1>8. Cardinality(A) + Cardinality(B) <= 1
  BY <1>3, <1>4, <1>5, <1>6, <1>7
<1> QED BY <1>8 DEF A, B

-----------------------------------------------------------------------------
(* The flags, and the invariant in the three parts the steps disturb.      *)
Settings ==
  /\ active \in BOOLEAN /\ keyboardOpen \in BOOLEAN
  /\ saved \in [kana : BOOLEAN, candidate : BOOLEAN]
  /\ context \in Context \cup {NoOne}
  /\ ui.at \in {"loop", "key", "replay"}
  /\ ui.at = "replay" => deferred # <<>> /\ ~pending
  /\ ui.at \in {"key", "replay"} => context \in Context
Modes ==
  /\ kana \in BOOLEAN /\ candidate \in BOOLEAN /\ enginePending \in BOOLEAN
  /\ failed \in BOOLEAN /\ provComp \in BOOLEAN /\ regMode \in BOOLEAN
  /\ pending \in BOOLEAN /\ resync \in BOOLEAN
  /\ ~(regMode /\ provComp)
  /\ regRange \in Context \cup {NoOne} /\ regCommit \in BOOLEAN
CancelsForKey ==
  ui.at = "key" /\ ui.key.ch \in {"escape", "ctrlg"} /\ Claimed(ui.key.ch)
List ==
  /\ candUi \in Context \cup {NoOne}
  /\ candUi # NoOne => pending \/ provComp \/ CancelsForKey

Invariant == Settings /\ Modes /\ List /\ Compositions /\ Queues

LEMMA Together == Invariant => IInv
<1> SUFFICES ASSUME Invariant PROVE IInv
  OBVIOUS
<1>1. TypeOK
  BY AtMostOne
  DEF Invariant, Settings, Modes, List, Compositions, Places, TypeOK
<1>2. Records
  BY DEF Invariant, Settings, Compositions, Queues, Waiting, Clear, Records
<1>3. Identities
  BY DEF Invariant, Compositions
<1>4. NewestCall
  BY DEF Invariant, Queues
<1>5. ListOwner
  BY DEF Invariant, List, Queues, CancelsForKey, Clear, ListOwner
<1> QED BY <1>1, <1>2, <1>3, <1>4, <1>5 DEF IInv

LEMMA QueuesStay ==
  ASSUME Queues, UNCHANGED <<calls, posted>>  PROVE Queues'
BY DEF Queues, NewestCall

LEMMA ListStays ==
  ASSUME Invariant, candUi' = candUi, provComp => provComp', pending => pending',
         ~CancelsForKey
  PROVE  List'
BY DEF Invariant, List

LEMMA ListCloses ==
  ASSUME candUi' = NoOne  PROVE List'
BY DEF List

LEMMA AtLoop ==
  /\ Loop.at = "loop" /\ (ui = Loop => ~CancelsForKey)
  /\ [Loop EXCEPT !.at = "replay"].at = "replay"
BY DEF Loop, CancelsForKey

(* ApplyEngineState's flags.                                               *)
LEMMA ApplyFlags ==
  ASSUME Invariant, NEW c \in Context \cup {NoOne}, NEW f, NEW st, NEW ok,
         Apply(c, f, st, ok)
  PROVE  /\ kana' \in BOOLEAN /\ candidate' \in BOOLEAN /\ enginePending' \in BOOLEAN
         /\ failed' \in BOOLEAN /\ provComp' \in BOOLEAN /\ regMode' \in BOOLEAN
         /\ ~(regMode' /\ provComp')
         /\ regRange' \in Context \cup {NoOne} /\ regCommit' \in BOOLEAN
         /\ candUi' \in Context \cup {NoOne}
         /\ candUi' # NoOne => ((st.cands => st.start) => provComp')
<1> DEFINE reg == st.mode = "registration"
           open == st.start \/ st.pending # <<>>
           commits == regMode /\ ~reg /\ ~open
           range == IF regMode /\ ~reg /\ open THEN NoOne ELSE regRange
<1>1. /\ failed' = FALSE /\ regMode' = reg
      /\ provComp' = (~reg /\ st.start /\ st.cands)
      /\ enginePending' = (reg \/ open)
      /\ kana' = (st.mode # "latin")
      /\ candidate' = IF reg THEN candidate ELSE st.mode = "candidate"
  BY DEF Apply
<1>2. /\ kana' \in BOOLEAN /\ failed' \in BOOLEAN /\ provComp' \in BOOLEAN
      /\ regMode' \in BOOLEAN /\ enginePending' \in BOOLEAN
  BY <1>1, Zenon
<1>3. candidate' \in BOOLEAN
  <2>1. (st.mode = "candidate") \in BOOLEAN /\ candidate \in BOOLEAN
    BY Zenon DEF Invariant, Modes
  <2> QED BY <1>1, <2>1, Zenon
<1>4. ~(regMode' /\ provComp')
  BY <1>1, Zenon
<1>5. commits \in BOOLEAN /\ range \in Context \cup {NoOne}
  BY DEF Invariant, Modes
<1>6. CASE reg
  <2>1. /\ candUi' = NoOne /\ regCommit' = FALSE
        /\ regRange' = IF ~regMode /\ range = NoOne /\ comp # NoComp
                       THEN comp.ctx ELSE range
    BY <1>6 DEF Apply
  <2>2. regRange' \in Context \cup {NoOne}
    BY <1>5, <2>1 DEF Invariant, Compositions, Places
  <2> QED BY <1>2, <1>3, <1>4, <2>1, <2>2
<1>7. CASE ~reg
  <2>1. candUi' = ListFor(c, st) /\ Edit(c, st, commits, range, ok)
    BY <1>7 DEF Apply
  <2> HIDE DEF commits, range
  <2>2. regRange' \in Context \cup {NoOne} /\ regCommit' \in BOOLEAN
    BY <1>5, <2>1, EditFlags
  <2>3. candUi' \in Context \cup {NoOne} /\ (candUi' # NoOne => st.cands)
    BY <2>1 DEF ListFor
  <2>4. candUi' # NoOne => ((st.cands => st.start) => provComp')
    BY <1>1, <1>7, <2>3, Zenon
  <2> QED BY <1>2, <1>3, <1>4, <2>2, <2>3, <2>4
<1> QED BY <1>6, <1>7

LEMMA ApplyKeeps ==
  ASSUME IInv, NEW c, NEW f, NEW st, NEW ok, ok => c \in Context,
         Apply(c, f, st, ok), UNCHANGED tsf
  PROVE  Compositions' /\ callbacks \subseteq callbacks'
<1>1. UNCHANGED orphans /\ EditsKeep
  BY DEF tsf, EditsKeep
<1>2. CASE st.mode = "registration"
  <2>1. UNCHANGED <<comp, ending, callbacks>>
    BY <1>2 DEF Apply
  <2> QED BY <1>1, <2>1, CompositionStays
<1>3. CASE st.mode # "registration"
  <2>1. \E commits, range : Edit(c, st, commits, range, ok)
    BY <1>3 DEF Apply
  <2> QED BY <1>1, <2>1, EditKeeps
<1> QED BY <1>2, <1>3

LEMMA RelinquishKeeps ==
  ASSUME Invariant, NEW kept \in BOOLEAN, Relinquish(kept)
  PROVE  /\ Modes' /\ List' /\ Compositions' /\ Queues' /\ callbacks \subseteq callbacks'
         /\ pending' = FALSE
<1>1. /\ candUi' = NoOne /\ pending' = FALSE /\ comp' = NoComp
      /\ regRange' = NoOne /\ regCommit' = FALSE /\ failed' = FALSE /\ resync' = TRUE
      /\ regMode' = FALSE /\ enginePending' = FALSE /\ provComp' = FALSE
      /\ kana' = TRUE /\ candidate' = FALSE
      /\ EndComposition(kept) /\ CancelPendingProvider
  BY DEF Relinquish, CancelPendingProvider
<1>2. Modes'
  BY <1>1 DEF Modes
<1>3. Queues'
  BY <1>1, CancelLeavesNone DEF Invariant
<1> QED BY <1>1, <1>2, <1>3, ListCloses, EndCompositionKeeps, Together

LEMMA ResetAbandonedKeeps ==
  ASSUME Invariant, ResetAbandoned  PROVE Modes' /\ List' /\ Queues' /\ comp' = NoComp
<1>1. /\ candUi' = NoOne /\ pending' = FALSE /\ comp' = NoComp
      /\ regRange' = NoOne /\ regCommit' = FALSE /\ failed' = FALSE /\ resync' = TRUE
      /\ regMode' = FALSE /\ enginePending' = FALSE /\ provComp' = FALSE
      /\ UNCHANGED <<kana, candidate>>
  BY DEF ResetAbandoned, CancelPendingProvider
<1>2. Modes'
  BY <1>1 DEF Modes, Invariant
<1>3. Queues'
  BY CancelLeavesNone DEF Invariant, ResetAbandoned
<1> QED BY <1>1, <1>2, <1>3, ListCloses

LEMMA BeginKeeps ==
  ASSUME Queues, NEW req, Begin(req)  PROVE Queues' /\ pending' = TRUE
BY BeginIsNewest DEF Begin, Queues

LEMMA BeginNextKeeps ==
  ASSUME Queues, posted # <<>>, NEW req, BeginNext(req)  PROVE Queues' /\ pending' = TRUE
BY BeginIsNewest, TailOfResults DEF BeginNext

-----------------------------------------------------------------------------
(* Keys.                                                                   *)
Keeps ==
  Invariant' /\ (callbacks \subseteq callbacks' \/ UNCHANGED <<comp, docs>>)

LEMMA ModesStay ==
  ASSUME Invariant, UNCHANGED <<modes, failed, pending, resync, regRange, regCommit>>
  PROVE  Modes'
<1>1. UNCHANGED <<kana, candidate, enginePending, provComp, regMode, failed, pending,
                  resync, regRange, regCommit>>
  BY DEF modes
<1> QED BY <1>1 DEF Invariant, Modes

LEMMA SettingsAtLoop ==
  ASSUME Invariant, ui' = Loop, UNCHANGED keyboard, context' \in Context \cup {NoOne}
  PROVE  Settings'
BY AtLoop DEF Invariant, Settings, keyboard

LEMMA PassThroughKeeps ==
  ASSUME Invariant, NEW c, NEW key, PassThrough(c, key), UNCHANGED context,
         ~CancelsForKey
  PROVE  Keeps
<1>1. /\ ui' = Loop /\ UNCHANGED <<keyboard, comp, ending, callbacks, regRange, regCommit>>
      /\ UNCHANGED <<modes, failed, candUi, provComp, pending, calls, posted, resync,
                     edits, orphans>>
  BY DEF PassThrough, provider, engine, tsf, modes
<1>2. Settings'
  BY <1>1, SettingsAtLoop DEF Invariant, Settings
<1>3. Modes' /\ List'
  BY <1>1, ModesStay, ListStays
<1>4. Compositions' /\ callbacks \subseteq callbacks'
  BY <1>1, Together, CompositionStays DEF EditsKeep
<1>5. Queues'
  BY <1>1, QueuesStay DEF Invariant
<1> QED BY <1>2, <1>3, <1>4, <1>5 DEF Keeps, Invariant

LEMMA KeyDownKeeps ==
  ASSUME Invariant, NEW c \in Context, NEW ch \in Keys, KeyDown(c, ch)  PROVE Keeps
<1> DEFINE key == [id |-> Len(where) + 1, ch |-> ch]
<1>1. /\ ui = Loop /\ UNCHANGED keyboard
      /\ \/ PassThrough(c, key) /\ UNCHANGED context
         \/ /\ context' = c /\ ui' = [at |-> "key", key |-> key]
            /\ UNCHANGED <<document, fe, modes, failed, candUi, provider, engine, tsf>>
         \/ /\ context' = c /\ ui' = [at |-> "key", key |-> key]
            /\ Relinquish(TRUE)
  BY DEF KeyDown
<1> HIDE DEF key
<1>2. CASE PassThrough(c, key) /\ UNCHANGED context
  BY <1>1, <1>2, AtLoop, PassThroughKeeps
<1>3. ASSUME context' = c, ui' = [at |-> "key", key |-> key]  PROVE Settings'
  <2>1. ui'.at = "key" /\ UNCHANGED <<active, keyboardOpen, saved>>
    BY <1>1, <1>3 DEF keyboard
  <2> QED BY <1>3, <2>1 DEF Invariant, Settings
<1>4. CASE /\ context' = c /\ ui' = [at |-> "key", key |-> key]
           /\ UNCHANGED <<document, fe, modes, failed, candUi, provider, engine, tsf>>
  <2>1. UNCHANGED <<comp, ending, callbacks, regRange, regCommit, modes, failed, candUi,
                    provComp, pending, calls, posted, resync, edits, orphans>>
    BY <1>4 DEF document, provider, engine, tsf, modes
  <2>2. Modes' /\ List' /\ Queues'
    BY <1>1, <2>1, AtLoop, ModesStay, ListStays, QueuesStay DEF Invariant
  <2>3. Compositions' /\ callbacks \subseteq callbacks'
    BY <2>1, Together, CompositionStays DEF EditsKeep
  <2> QED BY <1>3, <1>4, <2>2, <2>3 DEF Keeps, Invariant
<1>5. CASE /\ context' = c /\ ui' = [at |-> "key", key |-> key]
           /\ Relinquish(TRUE)
  BY <1>3, <1>5, RelinquishKeeps DEF Keeps, Invariant
<1> QED BY <1>1, <1>2, <1>4, <1>5

(* Steps of the UI thread that leave document and flags alone.             *)
LEMMA OnlyProvider ==
  ASSUME Invariant, UNCHANGED <<keyboard, context, document, modes, failed, resync, tsf>>,
         Queues', candUi' \in Context \cup {NoOne},
         ui' = Loop, pending' \in BOOLEAN,
         candUi' # NoOne => pending' \/ provComp
  PROVE  Keeps
<1>1. UNCHANGED <<comp, ending, callbacks, regRange, regCommit, provComp, edits, orphans>>
      /\ UNCHANGED <<kana, candidate, enginePending, regMode>>
  BY DEF document, modes, tsf
<1>2. Settings'
  BY SettingsAtLoop DEF Invariant, Settings
<1>3. Modes' /\ List'
  BY <1>1 DEF Invariant, Modes, List
<1>4. Compositions' /\ callbacks \subseteq callbacks'
  BY <1>1, Together, CompositionStays DEF EditsKeep
<1> QED BY <1>2, <1>3, <1>4 DEF Keeps, Invariant

LEMMA DeferKeeps == ASSUME Invariant, Defer PROVE Keeps
<1>1. /\ pending /\ ui' = Loop
      /\ UNCHANGED <<keyboard, context, document, modes, failed, resync, tsf, candUi,
                     pending, calls, posted>>
  BY DEF Defer, engine
<1> QED BY <1>1, OnlyProvider, QueuesStay DEF Invariant, List, Modes

LEMMA AskProviderKeeps == ASSUME Invariant, AskProvider PROVE Keeps
<1>1. /\ ui' = Loop /\ (\E req : Begin(req))
      /\ UNCHANGED <<keyboard, context, document, modes, failed, resync, tsf, candUi>>
  BY DEF AskProvider, engine
<1>2. Queues' /\ pending' = TRUE
  BY <1>1, BeginKeeps DEF Invariant
<1> QED BY <1>1, <1>2, OnlyProvider DEF Invariant, List

LEMMA StartConversionKeeps == ASSUME Invariant, StartConversion PROVE Keeps
<1>1. /\ ui' = Loop /\ (\E req : Begin(req)) /\ candUi' = context
      /\ UNCHANGED <<keyboard, context, document, modes, failed, resync, tsf>>
  BY DEF StartConversion, BeginConversion, engine
<1>2. Queues' /\ pending' = TRUE
  BY <1>1, BeginKeeps DEF Invariant
<1> QED BY <1>1, <1>2, OnlyProvider DEF Invariant, Settings

LEMMA CancelForKeyKeeps == ASSUME Invariant, CancelForKey PROVE Keeps
<1>1. /\ Takes({"escape", "ctrlg"}) /\ CancelPendingProvider
      /\ UNCHANGED <<keyboard, context, document, fe, modes, failed, candUi, ui, engine, tsf>>
  BY DEF CancelForKey
<1>2. /\ UNCHANGED <<comp, ending, callbacks, regRange, regCommit, provComp, edits, orphans>>
      /\ UNCHANGED <<kana, candidate, enginePending, regMode, resync>>
      /\ UNCHANGED <<active, keyboardOpen, saved>>
      /\ pending' = FALSE /\ ui.at = "key" /\ ui.key.ch \in {"escape", "ctrlg"}
      /\ Claimed(ui.key.ch)
  BY <1>1 DEF document, modes, tsf, engine, keyboard, Takes, CancelPendingProvider
<1>3. Settings'
  BY <1>1, <1>2 DEF Invariant, Settings
<1>4. Modes'
  BY <1>1, <1>2 DEF Invariant, Modes
<1>5. CancelsForKey'
  BY <1>1, <1>2 DEF CancelsForKey, Claimed, InFlight
<1>6. List'
  BY <1>1, <1>5 DEF Invariant, List
<1>7. Compositions' /\ callbacks \subseteq callbacks'
  BY <1>2, Together, CompositionStays DEF EditsKeep
<1>8. Queues'
  BY <1>1, CancelLeavesNone DEF Invariant
<1> QED BY <1>3, <1>4, <1>6, <1>7, <1>8 DEF Keeps, Invariant

LEMMA DeclinedKeeps == ASSUME Invariant, Declined PROVE Keeps
BY PassThroughKeeps DEF Declined, CancelsForKey

LEMMA ForceCancelKeeps == ASSUME Invariant, ForceCancelComposition PROVE Keeps
<1>1. /\ ui' = Loop /\ UNCHANGED <<keyboard, context>> /\ Relinquish(FALSE)
  BY DEF ForceCancelComposition
<1>2. Settings'
  BY <1>1, SettingsAtLoop DEF Invariant, Settings
<1> QED BY <1>1, <1>2, RelinquishKeeps DEF Keeps, Invariant

(* A key that the frontend or the engine answers while TSF waits.          *)
LEMMA AnsweredKeeps == ASSUME Invariant, Answered PROVE Keeps
<1>1. PICK r \in Result(ui.key), ok \in Granted :
        /\ ~pending /\ ui.at = "key" /\ ui' = Loop /\ UNCHANGED <<keyboard, context, tsf>>
        /\ Apply(context, FrontendAfter(r.fe, r.st), r.st, ok)
        /\ resync' = r.resync
        /\ (\E req : Begin(req)) \/ UNCHANGED provider
  BY DEF Answered, Takes
<1>2. /\ (r.st.cands => r.st.start) /\ resync' \in BOOLEAN
  BY <1>1, ResultAnswers DEF Invariant, Modes
<1>3. context \in Context
  BY <1>1 DEF Invariant, Settings
<1>4. /\ kana' \in BOOLEAN /\ candidate' \in BOOLEAN /\ enginePending' \in BOOLEAN
      /\ failed' \in BOOLEAN /\ provComp' \in BOOLEAN /\ regMode' \in BOOLEAN
      /\ ~(regMode' /\ provComp')
      /\ regRange' \in Context \cup {NoOne} /\ regCommit' \in BOOLEAN
      /\ candUi' \in Context \cup {NoOne}
      /\ candUi' # NoOne => ((r.st.cands => r.st.start) => provComp')
  BY <1>1, <1>3, ApplyFlags
<1>5. Queues' /\ pending' \in BOOLEAN
  <2>1. CASE \E req : Begin(req)
    BY <2>1, BeginKeeps DEF Invariant
  <2>2. CASE UNCHANGED provider
    BY <2>2, QueuesStay DEF provider, Invariant, Modes
  <2> QED BY <1>1, <2>1, <2>2
<1>6. Settings'
  BY <1>1, SettingsAtLoop DEF Invariant, Settings
<1>7. Modes' /\ List'
  BY <1>2, <1>4, <1>5 DEF Modes, List
<1>8. Compositions' /\ callbacks \subseteq callbacks'
  BY <1>1, <1>3, Together, ApplyKeeps
<1> QED BY <1>5, <1>6, <1>7, <1>8 DEF Keeps, Invariant

LEMMA UnansweredKeeps == ASSUME Invariant, Unanswered PROVE Keeps
<1>1. PICK r \in Result(ui.key) :
        /\ ui' = Loop /\ UNCHANGED <<keyboard, context>>
        /\ \/ Relinquish(FALSE)
           \/ /\ candUi' = NoOne
              /\ failed' = (failed \/ ui.key.ch # "ctrlj") /\ resync' = r.resync
              /\ UNCHANGED <<document, modes, provider, tsf>>
  BY DEF Unanswered
<1>2. Settings'
  BY <1>1, SettingsAtLoop DEF Invariant, Settings
<1>3. CASE Relinquish(FALSE)
  BY <1>2, <1>3, RelinquishKeeps DEF Keeps, Invariant
<1>4. CASE /\ candUi' = NoOne
           /\ failed' = (failed \/ ui.key.ch # "ctrlj") /\ resync' = r.resync
           /\ UNCHANGED <<document, modes, provider, tsf>>
  <2>1. UNCHANGED <<comp, ending, callbacks, regRange, regCommit, edits, orphans>>
        /\ UNCHANGED <<kana, candidate, enginePending, provComp, regMode>>
        /\ UNCHANGED <<pending, calls, posted>>
    BY <1>4 DEF document, modes, provider, tsf
  <2>2. failed' \in BOOLEAN
    BY <1>4, Zenon
  <2>3. resync' \in BOOLEAN
    BY <1>4, ResultAnswers DEF Invariant, Modes
  <2>4. Modes' /\ List' /\ Queues'
    BY <1>4, <2>1, <2>2, <2>3, ListCloses, QueuesStay DEF Invariant, Modes
  <2>5. Compositions' /\ callbacks \subseteq callbacks'
    BY <2>1, Together, CompositionStays DEF EditsKeep
  <2> QED BY <1>2, <2>4, <2>5 DEF Keeps, Invariant
<1> QED BY <1>1, <1>3, <1>4

-----------------------------------------------------------------------------
(* Provider threads and what comes back from them.                         *)
LEMMA EverythingElseStays ==
  ASSUME Invariant, Queues', resync' \in BOOLEAN,
         UNCHANGED <<keyboard, context, document, fe, modes, failed, candUi, pending,
                     deferred, ui, tsf>>
  PROVE  Keeps
<1>1. /\ UNCHANGED <<comp, ending, callbacks, regRange, regCommit, edits, orphans>>
      /\ UNCHANGED <<kana, candidate, enginePending, provComp, regMode>>
      /\ UNCHANGED <<active, keyboardOpen, saved, context, ui, deferred, pending>>
  BY DEF keyboard, document, modes, tsf
<1>2. Settings'
  BY <1>1 DEF Invariant, Settings
<1>3. Modes'
  BY <1>1 DEF Invariant, Modes
<1>4. CancelsForKey' = CancelsForKey
  BY <1>1 DEF CancelsForKey, Claimed, InFlight
<1>5. List'
  BY <1>1, <1>4 DEF Invariant, List
<1>6. Compositions' /\ callbacks \subseteq callbacks'
  BY <1>1, Together, CompositionStays DEF EditsKeep
<1> QED BY <1>2, <1>3, <1>5, <1>6 DEF Keeps, Invariant

LEMMA ProviderThreadKeeps == ASSUME Invariant, ProviderThread PROVE Keeps
<1>1. PICK i \in DOMAIN calls : Lock(i) \/ Served(i) \/ Lost(i)
  BY DEF ProviderThread
<1>2. resync \in BOOLEAN
  BY DEF Invariant, Modes
<1>3. CASE Lock(i)
  <2>1. Queues'
    BY <1>2, <1>3, LockKeepsNewest DEF Invariant
  <2>2. UNCHANGED resync
    BY <1>3 DEF Lock, engine
  <2> QED BY <1>2, <1>3, <2>1, <2>2, EverythingElseStays DEF Lock
<1>4. CASE Served(i)
  <2>1. PICK r \in Outcomes(IF calls[i].reset THEN NewSession ELSE session, calls[i].req) :
          Post(i, r.st)
    BY <1>4 DEF Served
  <2>2. r.st.cands => r.st.start
    BY EngineAnswers DEF Outcomes
  <2>3. Queues'
    BY <2>1, <2>2, PostKeepsNewest DEF Invariant
  <2>4. resync' \in BOOLEAN
    BY <1>4, Zenon DEF Served
  <2> QED BY <2>1, <2>3, <2>4, EverythingElseStays DEF Post
<1>5. CASE Lost(i)
  <2>1. Post(i, NoState) /\ resync' = TRUE
    BY <1>5 DEF Lost
  <2>2. Queues'
    BY <2>1, PostKeepsNewest DEF Invariant, NoState, State
  <2> QED BY <2>1, <2>2, EverythingElseStays DEF Post
<1> QED BY <1>1, <1>3, <1>4, <1>5

LEMMA DropStaleKeeps == ASSUME Invariant, DropStale PROVE Keeps
<1>1. /\ posted # <<>> /\ posted' = Tail(posted)
      /\ UNCHANGED <<keyboard, context, document, fe, modes, failed, candUi, pending,
                     deferred, calls, ui, tsf, resync>>
  BY DEF DropStale, engine
<1> QED BY <1>1, TailKeepsNewest, EverythingElseStays DEF Invariant, Modes

LEMMA ResultMissingKeeps == ASSUME Invariant, ResultMissing PROVE Keeps
<1>1. /\ posted # <<>> /\ posted' = Tail(posted) /\ ui = Loop
      /\ pending' = FALSE /\ failed' = TRUE /\ candUi' = NoOne
      /\ UNCHANGED <<keyboard, context, document, modes, calls, ui, tsf, resync>>
  BY DEF ResultMissing, Arrived, engine
<1>2. /\ UNCHANGED <<comp, ending, callbacks, regRange, regCommit, edits, orphans>>
      /\ UNCHANGED <<kana, candidate, enginePending, provComp, regMode>>
  BY <1>1 DEF document, modes, tsf
<1>3. Settings'
  BY <1>1, SettingsAtLoop DEF Invariant, Settings
<1>4. Modes' /\ List' /\ Queues'
  BY <1>1, <1>2, ListCloses, TailKeepsNewest DEF Invariant, Modes
<1>5. Compositions' /\ callbacks \subseteq callbacks'
  BY <1>2, Together, CompositionStays DEF EditsKeep
<1> QED BY <1>3, <1>4, <1>5 DEF Keeps, Invariant

LEMMA ResolveCandidateKeeps == ASSUME Invariant, ResolveCandidate PROVE Keeps
<1>1. /\ posted # <<>> /\ ui' = Loop /\ (\E req : BeginNext(req))
      /\ UNCHANGED <<keyboard, context, document, modes, failed, resync, tsf, candUi>>
  BY DEF ResolveCandidate, Arrived, engine
<1>2. Queues' /\ pending' = TRUE
  BY <1>1, BeginNextKeeps DEF Invariant
<1> QED BY <1>1, <1>2, OnlyProvider DEF Invariant, List

(* The state that is applied: of the newest call, with its own candidates. *)
LEMMA ApplyAnswerKeeps ==
  ASSUME Invariant, Arrived, NEW ok, ok => context \in Context,
         Apply(context, FrontendKeeps(Answer), Answer, ok), UNCHANGED <<tsf, resync>>,
         pending' \in BOOLEAN
  PROVE  Modes' /\ List' /\ Compositions' /\ callbacks \subseteq callbacks'
<1>1. context \in Context \cup {NoOne} /\ resync \in BOOLEAN
  BY DEF Invariant, Settings, Modes
<1>2. Answer.cands => Answer.start
  BY TailOfResults DEF Invariant, Arrived, Answer, Clear
<1>3. /\ kana' \in BOOLEAN /\ candidate' \in BOOLEAN /\ enginePending' \in BOOLEAN
      /\ failed' \in BOOLEAN /\ provComp' \in BOOLEAN /\ regMode' \in BOOLEAN
      /\ ~(regMode' /\ provComp')
      /\ regRange' \in Context \cup {NoOne} /\ regCommit' \in BOOLEAN
      /\ candUi' \in Context \cup {NoOne}
      /\ candUi' # NoOne => ((Answer.cands => Answer.start) => provComp')
  BY <1>1, ApplyFlags
<1>4. Modes' /\ List'
  BY <1>1, <1>2, <1>3 DEF Modes, List
<1> QED BY <1>4, Together, ApplyKeeps

LEMMA EnterRegistrationKeeps == ASSUME Invariant, EnterRegistration PROVE Keeps
<1>1. /\ Arrived /\ posted # <<>> /\ ui = Loop /\ Answer.mode = "registration"
      /\ Apply(context, FrontendKeeps(Answer), Answer, TRUE)
      /\ UNCHANGED <<keyboard, context, ui, resync, tsf>>
      /\ \/ posted' = Tail(posted) /\ pending' = FALSE /\ UNCHANGED calls
         \/ \E req : BeginNext(req)
  BY DEF EnterRegistration, Arrived, engine
<1>2. Queues' /\ pending' \in BOOLEAN
  <2>1. CASE posted' = Tail(posted) /\ pending' = FALSE /\ UNCHANGED calls
    BY <1>1, <2>1, TailKeepsNewest DEF Invariant
  <2>2. CASE \E req : BeginNext(req)
    BY <1>1, <2>2, BeginNextKeeps DEF Invariant
  <2> QED BY <1>1, <2>1, <2>2
<1>3. Settings'
  BY <1>1, SettingsAtLoop DEF Invariant, Settings
<1>4. Apply(context, FrontendKeeps(Answer), Answer, FALSE)
  BY <1>1 DEF Apply
<1> QED BY <1>1, <1>2, <1>3, <1>4, ApplyAnswerKeeps DEF Keeps, Invariant

LEMMA ApplyProviderResultKeeps == ASSUME Invariant, ApplyProviderResult PROVE Keeps
<1>1. PICK ok \in Granted :
        /\ Arrived /\ posted # <<>> /\ posted' = Tail(posted) /\ pending' = FALSE
        /\ Apply(context, FrontendKeeps(Answer), Answer, ok /\ context # NoOne)
        /\ ui' = IF Replays(ok) THEN [Loop EXCEPT !.at = "replay"] ELSE Loop
        /\ UNCHANGED <<keyboard, context, deferred, calls, resync, tsf>>
  BY DEF ApplyProviderResult, Arrived, engine
<1>2. Queues'
  BY <1>1, TailKeepsNewest DEF Invariant
<1>3. Settings'
  <2>1. CASE Replays(ok)
    <3>1. /\ ui'.at = "replay" /\ deferred # <<>> /\ context # NoOne
          /\ UNCHANGED <<active, keyboardOpen, saved>>
      BY <1>1, <2>1, AtLoop DEF Replays, keyboard
    <3> QED BY <1>1, <3>1 DEF Invariant, Settings
  <2>2. CASE ~Replays(ok)
    BY <1>1, <2>2, SettingsAtLoop DEF Invariant, Settings
  <2> QED BY <2>1, <2>2
<1>4. (ok /\ context # NoOne) => context \in Context
  BY DEF Invariant, Settings
<1>5. Modes' /\ List' /\ Compositions' /\ callbacks \subseteq callbacks'
  BY <1>1, <1>4, ApplyAnswerKeeps
<1> QED BY <1>2, <1>3, <1>5 DEF Keeps, Invariant

(* ReplayDeferredProviderKeys                                              *)
LEMMA ReplayConvertsKeeps == ASSUME Invariant, ReplayConverts PROVE Keeps
<1>1. /\ ui' = Loop /\ (\E req : Begin(req)) /\ candUi' = context
      /\ UNCHANGED <<keyboard, context, document, modes, failed, resync, tsf>>
  BY DEF ReplayConverts, BeginConversion, engine
<1>2. Queues' /\ pending' = TRUE
  BY <1>1, BeginKeeps DEF Invariant
<1> QED BY <1>1, <1>2, OnlyProvider DEF Invariant, Settings

LEMMA ReplayKeyKeeps == ASSUME Invariant, ReplayKey PROVE Keeps
<1>1. /\ ui.at = "replay" /\ deferred' = Tail(deferred)
      /\ UNCHANGED <<keyboard, context, failed, pending, calls, posted, resync, tsf>>
      /\ UNCHANGED <<edits, orphans, active, keyboardOpen, saved>>
  BY DEF ReplayKey, engine, tsf, keyboard
<1>2. ui' \in {Loop, Continues(Tail(deferred))}
  BY DEF ReplayKey
<1>3. Settings'
  <2>1. CASE ui' = Loop
    BY <1>1, <2>1, SettingsAtLoop DEF Invariant, Settings
  <2>2. CASE ui' = ui /\ Tail(deferred) # <<>>
    BY <1>1, <2>2 DEF Invariant, Settings
  <2> QED BY <1>2, <2>1, <2>2 DEF Continues
<1>4. Queues'
  BY <1>1, QueuesStay DEF Invariant
<1>5. CASE UNCHANGED <<document, modes, candUi>>
  <2>1. UNCHANGED <<comp, ending, callbacks, regRange, regCommit, provComp>>
    BY <1>5 DEF document, modes
  <2>2. Modes' /\ List'
    BY <1>1, <1>5, <2>1, ModesStay, ListStays DEF CancelsForKey
  <2>3. Compositions' /\ callbacks \subseteq callbacks'
    BY <1>1, <2>1, Together, CompositionStays DEF EditsKeep
  <2> QED BY <1>3, <1>4, <2>2, <2>3 DEF Keeps, Invariant
<1>6. ASSUME NEW st, NEW ok,
             enginePending' = (st.start \/ st.pending # <<>>),
             kana' = (st.mode # "latin"), candidate' = FALSE, candUi' = NoOne,
             UNCHANGED <<provComp, regMode>>,
             Edit(context, st, regCommit, regRange, ok)
      PROVE  Keeps
  <2>1. enginePending' \in BOOLEAN /\ kana' \in BOOLEAN
    BY <1>6, Zenon
  <2>2. context \in Context /\ regCommit \in BOOLEAN /\ regRange \in Context \cup {NoOne}
    BY <1>1 DEF Invariant, Settings, Modes
  <2>3. regRange' \in Context \cup {NoOne} /\ regCommit' \in BOOLEAN
    BY <1>6, <2>2, EditFlags
  <2>4. Modes' /\ List'
    BY <1>1, <1>6, <2>1, <2>3, ListCloses DEF Invariant, Modes
  <2>5. Compositions' /\ callbacks \subseteq callbacks'
    BY <1>1, <1>6, <2>2, Together, EditKeeps DEF EditsKeep
  <2> QED BY <1>3, <1>4, <2>4, <2>5 DEF Keeps, Invariant
<1> DEFINE r == Replayed(Head(deferred))
<1>7. \/ UNCHANGED <<document, modes, candUi>>
      \/ /\ enginePending' = (r.st.start \/ r.st.pending # <<>>)
         /\ kana' = (r.st.mode # "latin") /\ candidate' = FALSE /\ candUi' = NoOne
         /\ UNCHANGED <<provComp, regMode>>
         /\ \E ok : Edit(context, r.st, regCommit, regRange, ok)
  BY DEF ReplayKey
<1> QED BY <1>5, <1>6, <1>7

-----------------------------------------------------------------------------
(* What TSF delivers, and what else happens.                               *)
LEMMA RunEditKeeps == ASSUME Invariant, RunEdit PROVE Keeps
<1>1. /\ ui = Loop /\ edits # <<>> /\ edits' = Tail(edits)
      /\ UNCHANGED <<keyboard, context, modes, failed, candUi, provider, ui, resync, orphans>>
  BY DEF RunEdit, engine
<1>2. UNCHANGED <<kana, candidate, enginePending, provComp, regMode, pending, calls, posted>>
  BY <1>1 DEF modes, provider
<1>3. Settings' /\ List' /\ Queues'
  BY <1>1, <1>2, AtLoop, SettingsAtLoop, ListStays, QueuesStay DEF Invariant, Settings
<1> DEFINE e == Head(edits)
<1>4. CASE e.kind = "state" /\ Edit(e.ctx, e.st, regCommit, regRange, TRUE)
  <2>1. e.ctx \in Context
    BY <1>1, TailOfEdits, Together DEF Invariant, Compositions, Waiting, IsEdit
  <2>2. regCommit \in BOOLEAN /\ regRange \in Context \cup {NoOne}
    BY DEF Invariant, Modes
  <2>3. regRange' \in Context \cup {NoOne} /\ regCommit' \in BOOLEAN
    BY <1>4, <2>2, EditFlags
  <2>4. Modes'
    BY <1>1, <1>2, <2>3 DEF Invariant, Modes
  <2>5. Compositions' /\ callbacks \subseteq callbacks'
    BY <1>1, <1>4, <2>1, Together, EditKeeps DEF EditsKeep
  <2> QED BY <1>3, <2>4, <2>5 DEF Keeps, Invariant
<1>5. CASE /\ e.kind = "end" /\ Acknowledged(e.comp.id)
           /\ UNCHANGED <<comp, regRange, regCommit>>
  <2>1. Modes'
    BY <1>1, <1>2, <1>5, ModesStay
  <2>2. Compositions' /\ callbacks \subseteq callbacks'
    BY <1>1, <1>5, Together, EndIsCarriedOut
  <2> QED BY <1>3, <2>1, <2>2 DEF Keeps, Invariant
<1> QED BY <1>4, <1>5 DEF RunEdit

(* OnCompositionTerminated for a composition whose end was not announced.  *)
LEMMA UnannouncedEnd ==
  ASSUME Invariant, NEW c, ui = Loop, ParkedEnds(c) \/ ForeignEnds(c),
         UNCHANGED <<keyboard, context, ui, edits, callbacks>>
  PROVE  Keeps
<1>1. Settings'
  BY SettingsAtLoop DEF Invariant, Settings
<1>2. /\ comp' = NoComp /\ orphans' = (orphans \cup {comp}) \ {c, NoComp}
      /\ UNCHANGED ending
  BY DEF ParkedEnds, ForeignEnds, ResetAbandoned
<1>3. Compositions' /\ callbacks \subseteq callbacks'
  BY <1>2, Together, CompositionIsLeft DEF EditsKeep
<1>4. CASE ParkedEnds(c)
  <2>1. /\ candUi' = NoOne /\ enginePending' = TRUE
        /\ UNCHANGED <<regRange, regCommit, kana, candidate, provComp, regMode, failed>>
        /\ UNCHANGED <<pending, calls, posted, resync>>
    BY <1>4 DEF ParkedEnds, provider, engine
  <2>2. Modes' /\ List' /\ Queues'
    BY <2>1, ListCloses, QueuesStay DEF Invariant, Modes
  <2> QED BY <1>1, <1>3, <2>2 DEF Keeps, Invariant
<1>5. CASE ForeignEnds(c)
  BY <1>1, <1>3, <1>5, ResetAbandonedKeeps DEF Keeps, Invariant, ForeignEnds
<1> QED BY <1>4, <1>5

LEMMA LateCallbackKeeps == ASSUME Invariant, LateCallback PROVE Keeps
<1>1. PICK id \in callbacks :
        /\ OnCompositionTerminated([NoComp EXCEPT !.id = id])
        /\ callbacks' = callbacks \ {id}
  BY DEF LateCallback
<1> DEFINE c == [NoComp EXCEPT !.id = id]
<1>2. c.id = id /\ id \in ending
  BY Together, Standing DEF NoComp
<1>3. /\ ui = Loop /\ UNCHANGED <<keyboard, context, ui, edits>>
      /\ Acknowledge(c.id) \/ ParkedEnds(c) \/ ForeignEnds(c)
  BY <1>1 DEF OnCompositionTerminated
<1> HIDE DEF c
<1>4. Acknowledge(id)
  BY <1>2, <1>3 DEF ParkedEnds, ForeignEnds, Expected
<1>5. /\ ending' = ending \ {id}
      /\ UNCHANGED <<comp, docs, regRange, regCommit, modes, failed, candUi, orphans>>
      /\ UNCHANGED <<provComp, pending, calls, posted, resync>>
  BY <1>4 DEF Acknowledge, modes, provider, engine
<1>6. Settings'
  BY <1>3, SettingsAtLoop DEF Invariant, Settings
<1>7. Modes' /\ List' /\ Queues'
  BY <1>3, <1>5, AtLoop, ModesStay, ListStays, QueuesStay DEF Invariant
<1>8. Compositions'
  BY <1>1, <1>3, <1>5, Together, AnnouncedEnd
<1> QED BY <1>5, <1>6, <1>7, <1>8 DEF Keeps, Invariant

LEMMA ApplicationTerminatesKeeps == ASSUME Invariant, ApplicationTerminates PROVE Keeps
<1>1. PICK c \in {comp} \cup orphans : c # NoComp /\ OnCompositionTerminated(c)
  BY DEF ApplicationTerminates
<1>2. c.id \notin ending
  BY DEF Invariant, Compositions, Identities, OrphanIds
<1>3. ~Acknowledge(c.id)
  BY <1>2 DEF Acknowledge, Expected
<1> QED BY <1>1, <1>3, UnannouncedEnd DEF OnCompositionTerminated, ApplicationTerminates

LEMMA AskedStateEdit ==
  ASSUME NEW c \in Context, NEW st,
         NEW e, e = [kind |-> "state", comp |-> NoComp, kept |-> FALSE, ctx |-> c, st |-> st],
         edits' = Append(edits, e)
  PROVE  EditsKeep
<1>1. e.kind = "state" /\ IsEdit(e)
  BY DEF IsEdit
<1> QED BY <1>1 DEF EditsKeep

LEMMA CloseKeyboardKeeps == ASSUME Invariant, CloseKeyboard PROVE Keeps
<1>1. /\ ui = Loop /\ ui' = Loop /\ keyboardOpen' = FALSE
      /\ saved' = [kana |-> kana, candidate |-> candidate]
      /\ UNCHANGED <<active, context, fe, failed, ui>>
  BY DEF CloseKeyboard
<1>2. Settings'
  <2>1. saved' \in [kana : BOOLEAN, candidate : BOOLEAN]
    BY <1>1 DEF Invariant, Modes
  <2> QED BY <1>1, <2>1, AtLoop DEF Invariant, Settings
<1>3. CASE UNCHANGED <<document, modes, candUi, provider, engine, tsf>>
  <2>1. UNCHANGED <<comp, ending, callbacks, regRange, regCommit, modes, failed, candUi,
                    provComp, pending, calls, posted, resync, edits, orphans>>
    BY <1>1, <1>3 DEF document, provider, engine, tsf, modes
  <2>2. Modes' /\ List' /\ Queues'
    BY <1>1, <2>1, AtLoop, ModesStay, ListStays, QueuesStay DEF Invariant
  <2>3. Compositions' /\ callbacks \subseteq callbacks'
    BY <2>1, Together, CompositionStays DEF EditsKeep
  <2> QED BY <1>2, <2>2, <2>3 DEF Keeps, Invariant
<1>4. CASE Abandons
  <2>1. /\ candUi' = NoOne /\ regMode' = FALSE /\ provComp' = FALSE
        /\ enginePending' = FALSE /\ regRange' = NoOne /\ regCommit' = FALSE
        /\ UNCHANGED <<kana, candidate, pending, calls, posted, docs, ending, callbacks>>
    BY <1>4 DEF CloseKeyboard
  <2>2. PICK r \in Ask(Request("RESET", <<>>)) :
          /\ resync' = r.resync
          /\ IF r.st # NoState /\ context # NoOne
             THEN /\ edits' = Append(edits,
                       [kind |-> "state", comp |-> NoComp, kept |-> FALSE,
                        ctx |-> context, st |-> r.st])
                  /\ UNCHANGED <<comp, orphans>>
             ELSE /\ comp' = NoComp /\ UNCHANGED edits
                  /\ orphans' = (orphans \cup {comp}) \ {NoComp}
    BY <1>4 DEF CloseKeyboard
  <2>3. resync' \in BOOLEAN
    BY <2>2, AskAnswers DEF Invariant, Modes
  <2>4. Modes' /\ List' /\ Queues'
    BY <1>1, <2>1, <2>3, ListCloses, QueuesStay DEF Invariant, Modes
  <2>5. CASE r.st # NoState /\ context # NoOne
    <3>1. context \in Context
      BY <2>5 DEF Invariant, Settings
    <3>2. EditsKeep
      BY <2>2, <2>5, <3>1, AskedStateEdit
    <3>3. Compositions' /\ callbacks \subseteq callbacks'
      BY <2>1, <2>2, <2>5, <3>2, Together, CompositionStays
    <3> QED BY <1>2, <2>4, <3>3 DEF Keeps, Invariant
  <2>6. CASE ~(r.st # NoState /\ context # NoOne)
    <3>1. orphans' = (orphans \cup {comp}) \ {NoComp, NoComp} /\ UNCHANGED edits
          /\ comp' = NoComp
      BY <2>2, <2>6
    <3>2. Compositions' /\ callbacks \subseteq callbacks'
      BY <2>1, <3>1, Together, CompositionIsLeft DEF EditsKeep
    <3> QED BY <1>2, <2>4, <3>2 DEF Keeps, Invariant
  <2> QED BY <2>5, <2>6
<1> QED BY <1>3, <1>4 DEF CloseKeyboard

LEMMA OpenKeyboardKeeps == ASSUME Invariant, OpenKeyboard PROVE Keeps
<1>1. /\ ui = Loop /\ keyboardOpen' = TRUE /\ UNCHANGED <<active, saved, context, ui>>
      /\ kana' = saved.kana /\ candidate' = saved.candidate
      /\ UNCHANGED <<enginePending, provComp, regMode, failed, candUi>>
      /\ UNCHANGED <<comp, ending, callbacks, regRange, regCommit, pending, calls, posted,
                     resync, edits, orphans>>
  BY DEF OpenKeyboard, document, provider, engine, tsf
<1>2. Settings'
  BY <1>1, AtLoop DEF Invariant, Settings
<1>3. kana' \in BOOLEAN /\ candidate' \in BOOLEAN
  BY <1>1 DEF Invariant, Settings
<1>4. Modes' /\ List' /\ Queues'
  BY <1>1, <1>3, AtLoop, ListStays, QueuesStay DEF Invariant, Modes
<1>5. Compositions' /\ callbacks \subseteq callbacks'
  BY <1>1, Together, CompositionStays DEF EditsKeep
<1> QED BY <1>2, <1>4, <1>5 DEF Keeps, Invariant

LEMMA ClickCandidateKeeps == ASSUME Invariant, ClickCandidate PROVE Keeps
<1>1. /\ ui = Loop /\ ui' = Loop /\ candUi # NoOne /\ ~pending
      /\ UNCHANGED <<keyboard, context, document, kana, candidate, regMode, failed,
                     provider, orphans>>
  BY DEF ClickCandidate
<1> DEFINE Clicked(r) ==
             /\ resync' = r.resync
             /\ IF r.st = NoState
                THEN UNCHANGED <<enginePending, provComp, candUi, edits>>
                ELSE /\ enginePending' = (r.st.start \/ r.st.pending # <<>>)
                     /\ provComp' = (r.st.start /\ r.st.cands)
                     /\ candUi' = IF r.st.cands THEN candUi ELSE NoOne
                     /\ edits' = Append(edits,
                          [kind |-> "state", comp |-> NoComp, kept |-> FALSE,
                           ctx |-> candUi, st |-> r.st])
<1>0. PICK req : \E r \in Ask(req) : Clicked(r)
  BY DEF ClickCandidate
<1>2. PICK r \in Ask(req) : Clicked(r)
  BY <1>0
<1>3. (r.st.cands => r.st.start) /\ resync' \in BOOLEAN
  BY <1>2, AskAnswers DEF Invariant, Modes
<1>4. UNCHANGED <<comp, ending, callbacks, regRange, regCommit, pending, calls, posted>>
  BY <1>1 DEF document, provider
<1>5. Settings'
  BY <1>1, SettingsAtLoop DEF Invariant, Settings
<1>6. Queues'
  BY <1>4, QueuesStay DEF Invariant
<1>7. CASE r.st = NoState
  <2>1. UNCHANGED <<enginePending, provComp, candUi, edits>>
    BY <1>2, <1>7
  <2>2. Modes' /\ List'
    BY <1>1, <1>3, <1>4, <2>1, AtLoop, ListStays DEF Invariant, Modes
  <2>3. Compositions' /\ callbacks \subseteq callbacks'
    BY <1>1, <1>4, <2>1, Together, CompositionStays DEF EditsKeep
  <2> QED BY <1>5, <1>6, <2>2, <2>3 DEF Keeps, Invariant
<1>8. CASE r.st # NoState
  <2>1. /\ enginePending' = (r.st.start \/ r.st.pending # <<>>)
        /\ provComp' = (r.st.start /\ r.st.cands)
        /\ candUi' = IF r.st.cands THEN candUi ELSE NoOne
        /\ edits' = Append(edits,
             [kind |-> "state", comp |-> NoComp, kept |-> FALSE,
              ctx |-> candUi, st |-> r.st])
    BY <1>2, <1>8
  <2>2. provComp /\ candUi \in Context
    BY <1>1, AtLoop DEF Invariant, List
  <2>3. ~regMode'
    BY <1>1, <2>2 DEF Invariant, Modes
  <2>4. enginePending' \in BOOLEAN /\ provComp' \in BOOLEAN
    BY <2>1, Zenon
  <2>5. candUi' # NoOne => provComp'
    BY <1>3, <2>1, Zenon
  <2>6. candUi' \in Context \cup {NoOne}
    BY <2>1, <2>2
  <2>7. Modes' /\ List'
    BY <1>1, <1>3, <1>4, <2>3, <2>4, <2>5, <2>6 DEF Invariant, Modes, List
  <2>8. EditsKeep
    BY <2>1, <2>2, AskedStateEdit
  <2>9. Compositions' /\ callbacks \subseteq callbacks'
    BY <1>1, <1>4, <2>8, Together, CompositionStays
  <2> QED BY <1>5, <1>6, <2>7, <2>9 DEF Keeps, Invariant
<1> QED BY <1>7, <1>8

LEMMA SelectInputModeKeeps == ASSUME Invariant, SelectInputMode PROVE Keeps
<1>1. /\ ui = Loop /\ ui' = Loop
      /\ UNCHANGED <<keyboard, context, failed, candUi, enginePending, provComp, regMode>>
      /\ UNCHANGED <<comp, ending, callbacks, regRange, regCommit, pending, calls, posted,
                     edits, orphans>>
  BY DEF SelectInputMode, document, provider, tsf, modes
<1>2. PICK r \in Ask(Request("CANCEL", <<>>)) :
        /\ resync' = r.resync
        /\ \/ UNCHANGED modes
           \/ \E st : kana' = (st.mode # "latin") /\ candidate' = (st.mode = "candidate")
  BY DEF SelectInputMode
<1>3. resync' \in BOOLEAN
  BY <1>2, AskAnswers DEF Invariant, Modes
<1>4. kana' \in BOOLEAN /\ candidate' \in BOOLEAN
  <2>1. CASE UNCHANGED modes
    BY <2>1 DEF modes, Invariant, Modes
  <2>2. CASE \E st : kana' = (st.mode # "latin") /\ candidate' = (st.mode = "candidate")
    BY <2>2, Zenon
  <2> QED BY <1>2, <2>1, <2>2
<1>5. Settings'
  BY <1>1, SettingsAtLoop DEF Invariant, Settings
<1>6. Modes' /\ List' /\ Queues'
  BY <1>1, <1>3, <1>4, AtLoop, ListStays, QueuesStay DEF Invariant, Modes
<1>7. Compositions' /\ callbacks \subseteq callbacks'
  BY <1>1, Together, CompositionStays DEF EditsKeep
<1> QED BY <1>5, <1>6, <1>7 DEF Keeps, Invariant

LEMMA DeactivateKeeps == ASSUME Invariant, Deactivate PROVE Keeps
<1>1. /\ ui' = Loop /\ active' = FALSE /\ context' = NoOne /\ candUi' = NoOne
      /\ orphans' = (orphans \cup {comp}) \ {NoComp, NoComp}
      /\ UNCHANGED <<keyboardOpen, saved, ending, callbacks, edits>>
  BY DEF Deactivate
<1>2. Settings'
  BY <1>1, AtLoop DEF Invariant, Settings
<1>3. comp' = NoComp
  BY DEF Deactivate, ResetAbandoned, Abandons, InFlight
<1>4. Compositions' /\ callbacks \subseteq callbacks'
  BY <1>1, <1>3, Together, CompositionIsLeft DEF EditsKeep
<1>5. CASE ResetAbandoned
  BY <1>2, <1>4, <1>5, ResetAbandonedKeeps DEF Keeps, Invariant
<1>6. CASE /\ CancelPendingProvider
           /\ UNCHANGED <<engine, comp, regRange, regCommit, fe, failed, modes>>
  <2>1. /\ pending' = FALSE
        /\ UNCHANGED <<regRange, regCommit, failed, resync>>
        /\ UNCHANGED <<kana, candidate, enginePending, provComp, regMode>>
    BY <1>6 DEF CancelPendingProvider, engine, modes
  <2>2. Modes' /\ List' /\ Queues'
    BY <1>1, <1>6, <2>1, ListCloses, CancelLeavesNone DEF Invariant, Modes
  <2> QED BY <1>2, <1>4, <2>2 DEF Keeps, Invariant
<1> QED BY <1>5, <1>6 DEF Deactivate

LEMMA ActivateKeeps == ASSUME Invariant, Activate PROVE Keeps
<1>1. /\ ui = Loop /\ ui' = Loop /\ active' = TRUE /\ resync' = TRUE
      /\ UNCHANGED <<keyboardOpen, saved, context, modes, failed, candUi>>
      /\ UNCHANGED <<comp, ending, callbacks, regRange, regCommit, pending, calls, posted,
                     edits, orphans>>
      /\ UNCHANGED <<kana, candidate, enginePending, provComp, regMode>>
  BY DEF Activate, document, provider, tsf, modes
<1>2. Settings'
  BY <1>1, AtLoop DEF Invariant, Settings
<1>3. Modes' /\ List' /\ Queues'
  BY <1>1, AtLoop, ListStays, QueuesStay DEF Invariant, Modes
<1>4. Compositions' /\ callbacks \subseteq callbacks'
  BY <1>1, Together, CompositionStays DEF EditsKeep
<1> QED BY <1>2, <1>3, <1>4 DEF Keeps, Invariant

-----------------------------------------------------------------------------
LEMMA InitInvariant == Init => Invariant
<1> SUFFICES ASSUME Init PROVE Invariant
  OBVIOUS
<1>1. Settings /\ Modes /\ List
  BY DEF Init, Settings, Modes, List, Loop
<1>2. IsSequence(edits) /\ IsSequence(calls) /\ IsSequence(posted)
      /\ DOMAIN edits = {} /\ DOMAIN calls = {} /\ DOMAIN posted = {}
  <2>1. <<>> \in Seq({})
    OBVIOUS
  <2>2. IsSequence(<<>>)
    BY <2>1, SequenceShape
  <2>3. DOMAIN <<>> = {}
    OBVIOUS
  <2> QED BY <2>2, <2>3 DEF Init
<1>3. Compositions
  <2>1. IsFiniteSet(ending) /\ IsFiniteSet(orphans)
    BY FS_EmptySet DEF Init
  <2>2. EndEdits = {} /\ EndIds = {} /\ OrphanIds = {}
    BY <1>2 DEF EndEdits, EndIds, OrphanIds, Init
  <2>3. comp = NoComp /\ comp.id = 0 /\ IsComp(comp) /\ Places(comp)
    BY DEF Init, NoComp, IsComp, Places
  <2> QED
    BY <1>2, <2>1, <2>2, <2>3 DEF Compositions, Identities, Waiting, Init
<1>4. Queues
  BY <1>2 DEF Queues, NewestCall
<1> QED BY <1>1, <1>3, <1>4 DEF Invariant

LEMMA StepKeeps == ASSUME Invariant, [Next]_vars PROVE Keeps
<1>1. CASE Environment
  BY <1>1, KeyDownKeeps, ApplicationTerminatesKeeps, CloseKeyboardKeeps,
     OpenKeyboardKeeps, ClickCandidateKeeps, SelectInputModeKeeps, DeactivateKeeps,
     ActivateKeeps
  DEF Environment
<1>2. CASE UiThread
  BY <1>2, DeclinedKeeps, DeferKeeps, CancelForKeyKeeps, AskProviderKeeps,
     StartConversionKeeps, ForceCancelKeeps, AnsweredKeeps, UnansweredKeeps
  DEF UiThread
<1>3. CASE ProviderThread
  BY <1>3, ProviderThreadKeeps
<1>4. CASE MessageLoop
  BY <1>4, DropStaleKeeps, ResultMissingKeeps, ResolveCandidateKeeps,
     EnterRegistrationKeeps, ApplyProviderResultKeeps, ReplayConvertsKeeps, ReplayKeyKeeps
  DEF MessageLoop
<1>5. CASE Delivery
  BY <1>5, RunEditKeeps, LateCallbackKeeps DEF Delivery
<1>6. CASE UNCHANGED vars
  <2>1. UNCHANGED <<keyboard, context, document, fe, modes, failed, candUi, pending,
                    deferred, ui, tsf, calls, posted, resync>>
    BY <1>6 DEF vars, provider, engine
  <2>2. resync' \in BOOLEAN
    BY <2>1 DEF Invariant, Modes
  <2> QED BY <2>1, <2>2, QueuesStay, EverythingElseStays DEF Invariant
<1> QED BY <1>1, <1>2, <1>3, <1>4, <1>5, <1>6 DEF Next

-----------------------------------------------------------------------------
(* The flags agree with each other, every composition that is mentioned    *)
(* has one identity and one owner, at most one provider call counts, and a *)
(* list that is open can still be closed.                                  *)
THEOREM ServiceInvariant == Spec => []IInv
<1>1. Init => Invariant
  BY InitInvariant
<1>2. Invariant /\ [Next]_vars => Invariant'
  BY StepKeeps DEF Keeps
<1> QED BY <1>1, <1>2, Together, PTL DEF Spec

THEOREM TypeCorrect == Spec => []TypeOK
<1>1. IInv => TypeOK
  BY DEF IInv
<1> QED BY <1>1, ServiceInvariant, PTL

(* UpdateCandidateUI, the preview and every way to leave them: whenever    *)
(* the UI thread waits, somebody can still close an open candidate list.   *)
THEOREM CandidateListOwned == Spec => []CandidateUiOwned
<1>1. IInv => CandidateUiOwned
  BY AtLoop DEF IInv, ListOwner, CandidateUiOwned, Loop
<1> QED BY <1>1, ServiceInvariant, PTL

(* OnCompositionTerminated that comes late finds its identity in           *)
(* ending_compositions_ and touches no newer composition.                  *)
THEOREM NewerSurvives == Spec => NewerCompositionSurvives
<1>1. Init => Invariant
  BY InitInvariant
<1>2. Invariant /\ [Next]_vars => Invariant'
  BY StepKeeps DEF Keeps
<1>3. Invariant /\ [Next]_vars =>
        [callbacks' # callbacks /\ callbacks' \subseteq callbacks
           => UNCHANGED <<comp, docs>>]_vars
  <2> SUFFICES ASSUME Invariant, [Next]_vars, callbacks' # callbacks,
                      callbacks' \subseteq callbacks
               PROVE  UNCHANGED <<comp, docs>>
    OBVIOUS
  <2> QED BY StepKeeps DEF Keeps
<1> QED BY <1>1, <1>2, <1>3, PTL DEF Spec, NewerCompositionSurvives
=============================================================================
