---------------------------- MODULE TextServiceInv ----------------------------
(***************************************************************************)
(* Two inductive invariants of TextService.  IInv says which compositions  *)
(* TSF may still mention, which provider call counts and who closes the    *)
(* candidate list; the run text_faults checks it with every event and      *)
(* TextService_proofs proves it.  QuitInv says why a second Ctrl+G ends    *)
(* everything; SecondQuit_proofs proves it.  Neither speaks of texts.      *)
(***************************************************************************)
EXTENDS TextService

IsSequence(q) == q \in Seq(ToSet(q))

(* What is written is left open.                                           *)
IsComp(c) == c \in [id : Nat, ctx : Context \cup {NoOne}, text : {c.text}]
IsCall(c) ==
  c \in [req : {c.req}, sent : BOOLEAN, reset : BOOLEAN, cut : BOOLEAN,
         current : BOOLEAN]
IsResult(m) == m \in [current : BOOLEAN, st : {m.st}]
IsEdit(e) ==
  e \in [kind : {"state", "end"}, comp : {e.comp}, kept : BOOLEAN, ctx : Context,
         st : {e.st}]

Records ==
  /\ IsComp(comp) /\ saved \in [kana : BOOLEAN, candidate : BOOLEAN]
  /\ IsSequence(calls) /\ \A i \in DOMAIN calls : IsCall(calls[i])
  /\ IsSequence(posted) /\ \A i \in DOMAIN posted : IsResult(posted[i])
  /\ IsSequence(edits) /\ \A i \in DOMAIN edits : IsEdit(edits[i])
  /\ ui.at \in {"key", "replay"} => context \in Context

(* A composition the service has let go of is one that the application     *)
(* still owns, or one whose end TSF has yet to report or to carry out;     *)
(* each is known by an identity of its own.                                *)
EndEdits == {i \in DOMAIN edits : edits[i].kind = "end"}
EndIds == {edits[i].comp.id : i \in EndEdits}
OrphanIds == {o.id : o \in orphans}
Identities ==
  /\ IsFiniteSet(ending) /\ IsFiniteSet(orphans)
  /\ comp.id = 0 <=> comp = NoComp
  /\ comp.id \notin ending \cup OrphanIds /\ 0 \notin ending \cup OrphanIds
  /\ ending \cap OrphanIds = {}
  /\ ending = callbacks \cup EndIds /\ callbacks \cap EndIds = {}
  /\ \A i, j \in EndEdits : edits[i].comp.id = edits[j].comp.id => i = j

(* Of all provider calls and results on their way at most one counts.      *)
NewestCall ==
  /\ \A i, j \in DOMAIN calls : calls[i].current /\ calls[j].current => i = j
  /\ \A i, j \in DOMAIN posted : posted[i].current /\ posted[j].current => i = j
  /\ \A i \in DOMAIN calls, j \in DOMAIN posted :
       ~(calls[i].current /\ posted[j].current)

(* A list that is open is a provider's to close, except between a key that *)
(* cancels the provider and what that key does next.                       *)
ListOwner ==
  /\ candUi # NoOne =>
       \/ pending \/ provComp
       \/ ui.at = "key" /\ ui.key.ch \in {"escape", "ctrlg"} /\ Claimed(ui.key.ch)
  /\ \A i \in DOMAIN posted : posted[i].st.cands => posted[i].st.start

IInv == TypeOK /\ Records /\ Identities /\ NewestCall /\ ListOwner

-----------------------------------------------------------------------------
(* Why a second Ctrl+G ends everything.  It speaks of the instances in     *)
(* which provider threads, their results and the ends of compositions are  *)
(* disturbed: no registration opens, no edit is denied, and neither the    *)
(* mouse nor the application nor Shift+Q takes a composition over.         *)
Calm ==
  /\ Events \subseteq {"timeout", "postfail", "later", "latecallback"}
  /\ "Q" \notin Keys

KeyRecord == [id : Nat, ch : Keys]
Frontend ==
  [preedit : BOOLEAN, katakana : BOOLEAN, latin : BOOLEAN, wide : BOOLEAN,
   text : Seq(Nat), pending : Seq(KeyRecord), raw : Seq(KeyRecord)]
Session ==
  [fe : Frontend, cand : BOOLEAN, reading : Seq(Nat), reg : BOOLEAN,
   word : Seq(Nat)]
Call ==
  [verb : {"CONVERT-KEYS", "CONVERT", "PREVIOUS", "TO-KANA", "COMMIT", "CANCEL",
           "QUIT", "BACKSPACE"},
   keys : Seq(KeyRecord)]

Resting(s) == ~s.cand /\ ~s.fe.preedit

(* What the automaton and the engine need to run; nobody registers a word. *)
Automata ==
  /\ where \in Seq(Context) /\ deferred \in Seq(KeyRecord)
  /\ fe \in Frontend /\ session \in Session /\ ~session.reg
  /\ ui.at = "key" => ui.key \in KeyRecord
Plain ==
  /\ active /\ keyboardOpen /\ ~regMode /\ ~regCommit /\ orphans = {}
  /\ \A i \in DOMAIN edits : edits[i].kind = "end"

(* The composition lies where the last key went.                           *)
CompositionHere ==
  /\ comp # NoComp => comp.ctx = context
  /\ pending => context \in Context

(* Provider calls run in the order they were made.                         *)
CallsInOrder ==
  \A i \in DOMAIN calls :
    /\ calls[i].req \in Call
    /\ calls[i].current => i = Len(calls) /\ pending
    /\ calls[i].sent => i = 1

(* When the result of the call that counts has been posted, no call is     *)
(* left, and the result tells what the session is.                         *)
ResultIsTrue ==
  \A i \in DOMAIN posted :
    LET st == posted[i].st IN
    /\ st.mode # "registration"
    /\ st.mode = "candidate" => st.start /\ st.cands
    /\ posted[i].current =>
         /\ calls = <<>> /\ pending
         /\ st # NoState /\ ~st.start => Resting(session)

(* Whatever is shown, pending or a provider's belongs to a frontend that   *)
(* composes, or to nobody: then the engine rests as well.                  *)
Quiet == calls = <<>> /\ Resting(session) /\ ~pending /\ ~provComp
Owned == InFlight \/ pending \/ provComp => Composing(fe) \/ Quiet

Candidates ==
  /\ candidate => provComp
  /\ ui.at = "replay" => ~provComp /\ ~candidate /\ quits = 0

Ended == ~pending /\ ~provComp /\ ~enginePending /\ comp = NoComp
Quits ==
  /\ quits \in 0..2
  /\ ui = Loop /\ quits = 2 => Ended
  /\ ui = Loop /\ quits = 1 => ~pending /\ ~provComp
  /\ ui.at = "key" /\ quits >= 1 =>
       ui.key.ch = "ctrlg" /\ ((kana /\ InFlight) \/ Ended)
  /\ ui.at = "key" /\ quits = 2 => ~pending /\ ~provComp

QuitInv ==
  /\ Automata /\ Plain /\ CompositionHere /\ CallsInOrder /\ ResultIsTrue
  /\ Owned /\ Candidates /\ Quits
=============================================================================
