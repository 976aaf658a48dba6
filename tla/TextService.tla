----------------------------- MODULE TextService -----------------------------
(***************************************************************************)
(* TextService (windows/src/text_service.cpp): the part of the IME that    *)
(* lives in an application.  TSF calls it on the application's UI thread   *)
(* with keys, focus changes and ended compositions; conversions run on     *)
(* detached worker threads, one at a time behind provider_engine_mutex_,   *)
(* and come back as window messages.  Between the two lie the keys that    *)
(* were typed while a conversion was pending.                              *)
(*                                                                         *)
(* The RealtimeFrontend and the engine's session are the operators of the  *)
(* modules below.  A document is the sequence of the keys whose text was   *)
(* inserted for good; the composition is still the IME's to change.        *)
(***************************************************************************)
EXTENDS EngineSession, FiniteSets

CONSTANTS
  Context,    (* the ITfContexts (documents) of the application            *)
  Keys,     (* the keys this instance's user has: letters and controls   *)
  Events,     (* what else may happen in this instance                     *)
  MaxKeys,    (* BOUND: keys pressed in a behaviour                        *)
  MaxCalls,   (* BOUND: provider calls not yet delivered when a key comes  *)
  MaxIncidents (* BOUND: events of the environment other than keys         *)

(* unknown     a reading has no (further) candidate: registration          *)
(* timeout     a request gets no answer in time                            *)
(* overtake    provider threads take the mutex in any order                *)
(* postfail    PostMessageW fails                                          *)
(* later, denied   an edit is granted asynchronously, or not at all        *)
(* latecallback    OnCompositionTerminated comes after EndComposition      *)
(* terminate   the application ends a composition                          *)
(* close       the keyboard is closed and opened                           *)
(* mouse       the candidate list is clicked                               *)
(* langbar     the input mode is chosen with the mouse                     *)
(* reactivate  the text service is deactivated and activated again         *)
Happening == {"unknown", "timeout", "overtake", "postfail", "later",
  "denied", "latecallback", "terminate", "close", "mouse", "langbar",
  "reactivate"}

ControlOf ==
  [return |-> "COMMIT", space |-> "CONVERT", back |-> "BACKSPACE",
   ctrlj |-> "CANCEL", left |-> "PREVIOUS", right |-> "CONVERT",
   f7 |-> "TO-KANA", escape |-> "QUIT", ctrlg |-> "QUIT"]
Controls == DOMAIN ControlOf
Semantic == Controls \ {"escape", "ctrlg"}     \* deferred without a codepoint

NoOne == "none"                                \* no context, a null pointer

ASSUME ServiceAssumption ==
  /\ NoOne \notin Context
  /\ Keys \subseteq Letters \cup Controls
  /\ Events \subseteq Happening
  /\ MaxKeys \in Nat /\ MaxCalls \in Nat /\ MaxIncidents \in Nat

NoComp == [id |-> 0, ctx |-> NoOne, text |-> <<>>]
Loop == [at |-> "loop", key |-> NoKey]         \* the UI thread waits

VARIABLES
  active, keyboardOpen, saved,     \* saved: kana and candidate mode at close
  context,         \* active_context_
  comp,            \* composition_: its identity, context and text
  ending,          \* ending_compositions_
  regRange,        \* registration_range_: the context it lies in
  regCommit,       \* registration_commit_pending_
  fe,              \* realtime_frontend_
  kana,            \* kana_mode_
  candidate,       \* last_engine_mode_ is "candidate"
  enginePending, failed, provComp, regMode, candUi,
  pending,         \* provider_pending_
  deferred,        \* deferred_provider_keys_
  ui,              \* where the UI thread is, and with which key
  calls,           \* provider threads that have not posted their result
  posted,          \* kProviderResultMessages in the window's queue
  session, resync, \* the engine's session; needs_resync_
  callbacks, edits,\* what TSF has yet to deliver
  orphans,         \* compositions the service let go of without ending them
  docs,            \* the text of each document
  where,           \* the context each key was pressed in, so far
  quits,           \* claimed Ctrl+G presses in a row, up to two
  incidents        \* events other than keys, so far

keyboard == <<active, keyboardOpen, saved>>
document == <<comp, docs, ending, callbacks, regRange, regCommit>>
modes == <<kana, candidate, enginePending, provComp, regMode>>
provider == <<pending, deferred, calls, posted>>
engine == <<session, resync>>
tsf == <<edits, orphans>>
history == <<where, quits, incidents>>
vars == <<keyboard, context, document, fe, modes, failed, candUi, provider,
          ui, engine, tsf, history>>

Init ==
  /\ active = TRUE /\ keyboardOpen = TRUE
  /\ saved = [kana |-> TRUE, candidate |-> FALSE]
  /\ context = NoOne /\ comp = NoComp /\ ending = {} /\ callbacks = {}
  /\ regRange = NoOne /\ regCommit = FALSE
  /\ fe = Fresh /\ kana = TRUE /\ candidate = FALSE
  /\ enginePending = FALSE /\ failed = FALSE /\ provComp = FALSE
  /\ regMode = FALSE /\ candUi = NoOne
  /\ pending = FALSE /\ deferred = <<>> /\ calls = <<>> /\ posted = <<>>
  /\ ui = Loop /\ session = NewSession /\ resync = TRUE
  /\ edits = <<>> /\ orphans = {} /\ docs = [c \in Context |-> <<>>]
  /\ where = <<>> /\ quits = 0 /\ incidents = 0

InFlight == comp # NoComp \/ enginePending
RegistrationOnly == regMode                                       \* mutant
Abandons == regMode \/ InFlight
RealTime == ~provComp /\ ~candidate /\ ~regMode

-----------------------------------------------------------------------------
(* The provider: a sequence number makes every earlier call stale.         *)
StillCurrent(q) == q                                              \* mutant
Stale(q) == [i \in DOMAIN q |-> [q[i] EXCEPT !.current = FALSE]]

AtFront(key) == <<key>> \o deferred                               \* mutant
Queued(key) == Append(deferred, key)

NewCall(req) == [req |-> req, sent |-> FALSE, reset |-> FALSE, cut |-> FALSE,
                 current |-> TRUE]

Begin(req) ==
  /\ calls' = Append(Stale(calls), NewCall(req))
  /\ posted' = Stale(posted)
  /\ pending' = TRUE

BeginConversion == Begin(Request("CONVERT-KEYS", fe.raw))

(* CancelIoEx and a closed pipe reach only a thread that is in its call.   *)
CancelPendingProvider ==
  /\ calls' = [i \in DOMAIN calls |->
       [calls[i] EXCEPT !.current = FALSE, !.cut = @ \/ calls[i].sent]]
  /\ posted' = Stale(posted)
  /\ pending' = FALSE
  /\ deferred' = <<>>

Outcomes(s, req) ==
  {r \in Exec(s, req) : "unknown" \in Events \/ ~r.s.reg}

Lock(i) ==
  /\ ~calls[i].sent /\ \A j \in DOMAIN calls : ~calls[j].sent
  /\ (i = 1 \/ "overtake" \in Events)
  /\ calls' = [calls EXCEPT ![i].sent = TRUE, ![i].reset = resync]
  /\ UNCHANGED <<keyboard, context, document, fe, modes, failed, candUi,
                 pending, deferred, posted, ui, engine, tsf, history>>

Post(i, st) ==
  /\ calls' = RemoveAt(calls, i)
  /\ \/ posted' = Append(posted, [current |-> calls[i].current, st |-> st])
     \/ "postfail" \in Events /\ UNCHANGED posted
  /\ UNCHANGED <<keyboard, context, document, fe, modes, failed, candUi,
                 pending, deferred, ui, tsf, history>>

Served(i) ==
  /\ calls[i].sent
  /\ \E r \in Outcomes(IF calls[i].reset THEN NewSession ELSE session,
                       calls[i].req) :
       session' = r.s /\ Post(i, r.st)
  /\ resync' = (resync /\ ~calls[i].reset)

Lost(i) ==
  /\ calls[i].sent
  /\ (calls[i].cut \/ "timeout" \in Events)
  /\ resync' = TRUE
  /\ Post(i, NoState)
  /\ UNCHANGED session

ProviderThread == \E i \in DOMAIN calls : Lock(i) \/ Served(i) \/ Lost(i)

(* A call on the UI thread: every answer it may get.                       *)
Ask(req) ==
  {[fe |-> fe, s |-> r.s, resync |-> FALSE, st |-> r.st] :
     r \in Outcomes(IF resync THEN NewSession ELSE session, req)}
  \cup (IF "timeout" \in Events
        THEN {[fe |-> fe, s |-> session, resync |-> TRUE, st |-> NoState]}
        ELSE {})

Locally(r) == {[fe |-> r.fe, s |-> session, resync |-> resync, st |-> r.st]}

-----------------------------------------------------------------------------
(* The document.  A composition that the service ends is acknowledged at   *)
(* once, or by a later OnCompositionTerminated.                            *)
Granted == {TRUE} \cup (IF "denied" \in Events THEN {FALSE} ELSE {})

Inserted(c, text) == docs' = [docs EXCEPT ![c] = @ \o text]

Acknowledged(id) ==
  \/ UNCHANGED callbacks /\ ending' = ending \ {id}
  \/ /\ "latecallback" \in Events
     /\ ending' = ending \cup {id} /\ callbacks' = callbacks \cup {id}

InUse == {comp.id} \cup ending \cup callbacks \cup {o.id : o \in orphans}
NewId == CHOOSE i \in 1..(Cardinality(InUse) + 1) : i \notin InUse

(* ApplyEngineState, with the registration flags it finds; text and range  *)
(* of another context's composition cannot be written under this lock.     *)
Edit(c, st, commits, range, ok) ==
  LET ends == ~st.start /\ st.pending = <<>>
      display == st.text \o st.pending
      done == regCommit' = FALSE
              /\ regRange' = IF commits THEN NoOne ELSE range
      kept == regCommit' = commits /\ regRange' = range
  IN \/ /\ (~ok \/ (comp # NoComp /\ comp.ctx # c))
        /\ kept /\ UNCHANGED <<comp, docs, ending, callbacks>>
     \/ /\ ok /\ comp # NoComp /\ comp.ctx = c /\ ends /\ done
        /\ comp' = NoComp /\ Inserted(c, display) /\ Acknowledged(comp.id)
     \/ /\ ok /\ comp # NoComp /\ comp.ctx = c /\ ~ends /\ done
        /\ comp' = [comp EXCEPT !.text = display]
        /\ UNCHANGED <<docs, ending, callbacks>>
     \/ /\ ok /\ comp = NoComp /\ commits /\ range # NoOne /\ done
        /\ Inserted(range, display) /\ UNCHANGED <<comp, ending, callbacks>>
     \/ /\ ok /\ comp = NoComp /\ ~(commits /\ range # NoOne) /\ ends /\ kept
        /\ Inserted(c, st.text) /\ UNCHANGED <<comp, ending, callbacks>>
     \/ /\ ok /\ comp = NoComp /\ ~(commits /\ range # NoOne) /\ ~ends /\ done
        /\ comp' = [id |-> NewId, ctx |-> c, text |-> display]
        /\ UNCHANGED <<docs, ending, callbacks>>

(* UpdateCandidateUI opens the list for candidates and closes it without.  *)
LeavesOpen(c, st) == IF st.cands THEN c ELSE candUi                \* mutant
ListFor(c, st) == IF st.cands THEN c ELSE NoOne

(* The tail of OnKeyDown and of ApplyProviderResult.                       *)
Apply(c, f, st, ok) ==
  LET reg == st.mode = "registration"
      open == st.start \/ st.pending # <<>>
      commits == regMode /\ ~reg /\ ~open
      range == IF regMode /\ ~reg /\ open THEN NoOne ELSE regRange
  IN /\ fe' = f /\ failed' = FALSE
     /\ regMode' = reg
     /\ provComp' = (~reg /\ st.start /\ st.cands)
     /\ enginePending' = (reg \/ open)
     /\ kana' = (st.mode # "latin")
     /\ candidate' = IF reg THEN candidate ELSE st.mode = "candidate"
     /\ IF reg
        THEN /\ candUi' = NoOne /\ regCommit' = FALSE
             /\ regRange' = IF ~regMode /\ range = NoOne /\ comp # NoComp
                            THEN comp.ctx ELSE range
             /\ UNCHANGED <<comp, docs, ending, callbacks>>
        ELSE /\ candUi' = ListFor(c, st)
             /\ Edit(c, st, commits, range, ok)

(* ForceCancelComposition and SettleContextComposition: an edit session of *)
(* the exact composition drops its text or leaves it behind.               *)
EndComposition(kept) ==
  \/ comp = NoComp /\ UNCHANGED <<docs, ending, callbacks, tsf>>
  \/ /\ comp # NoComp
     /\ Inserted(comp.ctx, IF kept THEN comp.text ELSE <<>>)
     /\ Acknowledged(comp.id) /\ UNCHANGED tsf
  \/ /\ comp # NoComp /\ "later" \in Events
     /\ edits' = Append(edits, [kind |-> "end", comp |-> comp, kept |-> kept,
                                ctx |-> comp.ctx, st |-> NoState])
     /\ ending' = ending \cup {comp.id}
     /\ UNCHANGED <<docs, callbacks, orphans>>
  \/ /\ comp # NoComp /\ "denied" \in Events
     /\ orphans' = orphans \cup {comp}
     /\ UNCHANGED <<docs, ending, callbacks, edits>>

Relinquish(kept) ==
  /\ CancelPendingProvider
  /\ resync' = TRUE /\ UNCHANGED session
  /\ EndComposition(kept)
  /\ comp' = NoComp /\ regRange' = NoOne /\ regCommit' = FALSE
  /\ fe' = Reset(fe) /\ candUi' = NoOne /\ failed' = FALSE
  /\ regMode' = FALSE /\ enginePending' = FALSE /\ provComp' = FALSE
  /\ kana' = TRUE /\ candidate' = FALSE

(* ResetAbandonedComposition                                               *)
ResetAbandoned ==
  /\ CancelPendingProvider
  /\ resync' = TRUE /\ UNCHANGED session
  /\ comp' = NoComp /\ regRange' = NoOne /\ regCommit' = FALSE
  /\ fe' = Reset(fe) /\ candUi' = NoOne /\ failed' = FALSE
  /\ regMode' = FALSE /\ enginePending' = FALSE /\ provComp' = FALSE
  /\ UNCHANGED <<kana, candidate>>

-----------------------------------------------------------------------------
(* WouldClaimKey, with the Ctrl+J of both callbacks.                       *)
Claimed(ch) ==
  IF regMode THEN ch # "ctrlj"
  ELSE \/ ch = "ctrlj"
       \/ kana /\ \/ ch \in Letters
                  \/ ch = "space" /\ (InFlight \/ fe.wide)
                  \/ ch \in Controls /\ InFlight

(* A key that is not claimed goes to the application.                      *)
PassThrough(c, key) ==
  /\ Inserted(c, IF key.ch \in Letters THEN <<key.id>> ELSE <<>>)
  /\ ui' = Loop
  /\ UNCHANGED <<keyboard, comp, ending, callbacks, regRange, regCommit, fe,
                 modes, failed, candUi, provider, engine, tsf>>

(* OnTestKeyDown and the head of OnKeyDown: the composition is settled in  *)
(* the document that owns it before the key goes to another one.           *)
KeyDown(c, ch) ==
  LET key == [id |-> Len(where) + 1, ch |-> ch]
      atKey == ui' = [at |-> "key", key |-> key]
  IN /\ ui = Loop /\ active
     /\ Len(where) < MaxKeys /\ Len(calls) + Len(posted) < MaxCalls
     /\ where' = Append(where, c)
     /\ quits' = IF ch = "ctrlg" /\ keyboardOpen /\ Claimed(ch)
                 THEN Min({2, quits + 1}) ELSE 0
     /\ UNCHANGED <<keyboard, incidents>>
     /\ \/ /\ ~(keyboardOpen /\ Claimed(ch))
           /\ PassThrough(c, key) /\ UNCHANGED context
        \/ /\ keyboardOpen /\ Claimed(ch) /\ (context = c \/ ~Abandons)
           /\ context' = c /\ atKey
           /\ UNCHANGED <<document, fe, modes, failed, candUi, provider,
                          engine, tsf>>
        \/ /\ keyboardOpen /\ Claimed(ch)
           /\ context \notin {c, NoOne} /\ Abandons
           /\ context' = c /\ atKey
           /\ Relinquish(TRUE)

Declined ==
  /\ ui.at = "key" /\ ~Claimed(ui.key.ch)
  /\ PassThrough(context, ui.key)
  /\ UNCHANGED <<context, history>>

Takes(chs) == ui.at = "key" /\ ui.key.ch \in chs /\ Claimed(ui.key.ch)

(* A claimed key behind a provider call waits; Ctrl+G and Esc do not.      *)
Defer ==
  /\ Takes(Letters \cup Semantic) /\ pending
  /\ deferred' = Queued(ui.key)
  /\ ui' = Loop
  /\ UNCHANGED <<keyboard, context, document, fe, modes, failed, candUi,
                 pending, calls, posted, engine, tsf, history>>

CancelForKey ==
  /\ Takes({"escape", "ctrlg"}) /\ pending
  /\ CancelPendingProvider
  /\ UNCHANGED <<keyboard, context, document, fe, modes, failed, candUi, ui,
                 engine, tsf, history>>

KatakanaQ == ui.key.ch = "Q" /\ InFlight

AsksProvider ==
  \/ provComp /\ ui.key.ch \notin {"escape", "ctrlg"} /\ ~KatakanaQ
  \/ regMode /\ ui.key.ch # "ctrlg"

(* A candidate takes controls; a printable key accepts it and is queued.   *)
(* The registration editor takes both.                                     *)
AskProvider ==
  /\ Takes(Letters \cup Controls) /\ ~pending /\ AsksProvider
  /\ LET ch == ui.key.ch IN
     IF ch \in Controls
     THEN /\ UNCHANGED deferred
          /\ Begin(Request(IF regMode /\ ch \in {"left", "right"} THEN "MOVE"
                           ELSE ControlOf[ch], <<>>))
     ELSE IF regMode
     THEN Begin(Request("KEY", <<ui.key>>)) /\ UNCHANGED deferred
     ELSE /\ deferred' = Queued(ui.key)
          /\ Begin(Request("COMMIT", <<>>))
  /\ ui' = Loop
  /\ UNCHANGED <<keyboard, context, document, fe, modes, failed, candUi,
                 engine, tsf, history>>

ConvertsReading == fe.preedit /\ RealTime /\ ~fe.wide

StartConversion ==
  /\ Takes({"space"}) /\ ~pending /\ ~AsksProvider /\ ConvertsReading
  /\ BeginConversion
  /\ candUi' = context                  \* the preview, or "converting"
  /\ ui' = Loop
  /\ UNCHANGED <<keyboard, context, document, fe, modes, failed, deferred,
                 engine, tsf, history>>

(* What the branch of OnKeyDown for a key returns, and from whom.          *)
FromEngine(key) == Ask(Request(ControlOf[key.ch], <<>>))
Composes == Composing(fe) /\ ~provComp /\ ~candidate
Restores == provComp /\ fe.preedit

EditingKey(key) ==
  CASE key.ch = "ctrlj" ->
         IF RealTime /\ (Composing(fe) \/ fe.katakana \/ fe.latin \/ fe.wide)
         THEN Locally(Kakutei(fe)) ELSE FromEngine(key)
    [] key.ch = "back" ->
         IF Composes THEN Locally(Backspace(fe)) ELSE FromEngine(key)
    [] key.ch = "space" ->
         IF fe.wide THEN Locally(Feed(fe, key)) ELSE FromEngine(key)
    [] key.ch \in {"left", "right"} -> FromEngine(key)

Result(key) ==
  CASE key.ch \in {"ctrlj", "back", "space", "left", "right"} ->
         EditingKey(key)
    [] key.ch = "f7" ->
         IF fe.preedit /\ ~provComp THEN Locally(ToKatakana(fe))
         ELSE FromEngine(key)
    [] key.ch = "Q" /\ InFlight ->
         IF fe.preedit THEN Locally(CommitKatakana(fe))
         ELSE Ask(Request("TO-KANA", <<>>))
    [] key.ch = "return" ->
         IF Composes THEN Locally(Commit(fe)) ELSE FromEngine(key)
    [] key.ch = "escape" ->
         IF Restores THEN Locally(RestorePreedit(fe))
         ELSE IF Composing(fe) THEN Locally(Quit(fe)) ELSE FromEngine(key)
    [] key.ch = "ctrlg" ->
         IF regMode \/ Restores THEN Locally(RestorePreedit(fe))
         ELSE IF Composing(fe) /\ ~provComp THEN Locally(Quit(fe))
         ELSE FromEngine(key)
    [] OTHER ->
         IF RealTime THEN Locally(Feed(fe, key))
         ELSE Ask(Request("KEY", <<key>>))

(* Ctrl+G after a failed call does not wait for the engine a second time.  *)
GivesUp ==
  /\ ui.key.ch = "ctrlg" /\ failed /\ ~regMode
  /\ ~Restores /\ ~(Composing(fe) /\ ~provComp)

ForceCancelComposition ==
  /\ Takes({"ctrlg"}) /\ ~pending /\ GivesUp
  /\ Relinquish(FALSE)
  /\ ui' = Loop
  /\ UNCHANGED <<keyboard, context, history>>

(* The frontend after a state: whoever leaves a candidate, a registration  *)
(* or a provider's composition starts again.                               *)
FrontendAfter(f, st) ==
  IF (candidate \/ regMode \/ provComp) /\ st.mode # "candidate" /\ ~st.start
  THEN Reset(f) ELSE f

Answered ==
  /\ Takes(Letters \cup Controls) /\ ~pending /\ ~AsksProvider /\ ~GivesUp
  /\ ~(ui.key.ch = "space" /\ ConvertsReading)
  /\ \E r \in Result(ui.key), ok \in Granted :
       /\ r.st # NoState
       /\ Apply(context, FrontendAfter(r.fe, r.st), r.st, ok)
       /\ session' = r.s /\ resync' = r.resync
       /\ IF regMode /\ ui.key.ch = "ctrlg"
          THEN Begin(Request("QUIT", <<>>)) /\ UNCHANGED deferred
          ELSE UNCHANGED provider
  /\ ui' = Loop
  /\ UNCHANGED <<keyboard, context, tsf, history>>

(* No state.  In a registration Ctrl+G always has one, its RestorePreedit, *)
(* so the call it begins is the one of Answered.                           *)
Unanswered ==
  /\ Takes(Letters \cup Controls) /\ ~pending /\ ~AsksProvider /\ ~GivesUp
  /\ ~(ui.key.ch = "space" /\ ConvertsReading)
  /\ \E r \in Result(ui.key) :
       /\ r.st = NoState
       /\ \/ /\ ui.key.ch = "ctrlg" /\ Relinquish(FALSE)
          \/ /\ ui.key.ch # "ctrlg"
             /\ fe' = r.fe /\ candUi' = NoOne
             /\ failed' = (failed \/ ui.key.ch # "ctrlj")
             /\ session' = r.s /\ resync' = r.resync
             /\ UNCHANGED <<document, modes, provider, tsf>>
  /\ ui' = Loop
  /\ UNCHANGED <<keyboard, context, history>>

UiThread ==
  \/ Declined \/ Defer \/ CancelForKey \/ AskProvider \/ StartConversion
  \/ ForceCancelComposition \/ Answered \/ Unanswered

-----------------------------------------------------------------------------
(* ApplyProviderResult.                                                    *)
Arrived == ui = Loop /\ posted # <<>> /\ Head(posted).current
Answer == Head(posted).st

DropStale ==
  /\ ui = Loop /\ posted # <<>> /\ ~Head(posted).current
  /\ posted' = Tail(posted)
  /\ UNCHANGED <<keyboard, context, document, fe, modes, failed, candUi,
                 pending, deferred, calls, ui, engine, tsf, history>>

ResultMissing ==
  /\ Arrived /\ Answer = NoState
  /\ posted' = Tail(posted)
  /\ pending' = FALSE /\ failed' = TRUE /\ candUi' = NoOne
  /\ UNCHANGED <<keyboard, context, document, fe, modes, deferred, calls, ui,
                 engine, tsf, history>>

(* BeginProvider... from the message handler, which has taken the head.    *)
BeginNext(req) ==
  /\ calls' = Append(Stale(calls), NewCall(req))
  /\ posted' = Stale(Tail(posted))
  /\ pending' = TRUE

(* Queued keys belong to the candidate that arrived: a control is sent, a  *)
(* printable key accepts it and stays queued.                              *)
OffersCandidates == Answer.cands \/ Answer.mode = "candidate"

ResolveCandidate ==
  /\ Arrived /\ OffersCandidates /\ deferred # <<>>
  /\ LET ch == Head(deferred).ch IN
     /\ deferred' = IF ch \in Semantic THEN Tail(deferred) ELSE deferred
     /\ BeginNext(Request(IF ch \in Semantic THEN ControlOf[ch] ELSE "COMMIT",
                          <<>>))
  /\ UNCHANGED <<keyboard, context, document, fe, modes, failed, candUi, ui,
                 engine, tsf, history>>

FrontendKeeps(st) ==
  IF st.mode \notin {"candidate", "registration"} /\ ~st.start
  THEN Reset(fe) ELSE fe

Printable ==
  LET controls == {i \in DOMAIN deferred : deferred[i].ch \notin Letters}
  IN SubSeq(deferred, 1, IF controls = {} THEN Len(deferred)
                         ELSE CHOOSE n \in 0..(Len(deferred) - 1) :
                                n + 1 \in controls /\ \A i \in controls : n < i)

(* The registration editor takes the queued keys: a run of printable ones  *)
(* in one request, Enter or Backspace as a control, others are dropped.    *)
EnterRegistration ==
  /\ Arrived /\ Answer.mode = "registration"
  /\ Apply(context, FrontendKeeps(Answer), Answer, TRUE)
  /\ IF deferred = <<>>
     THEN /\ posted' = Tail(posted) /\ pending' = FALSE
          /\ UNCHANGED <<deferred, calls>>
     ELSE IF Head(deferred).ch \in Letters
     THEN /\ BeginNext(Request("FEED-KEYS", Printable))
          /\ deferred' = SubSeq(deferred, Len(Printable) + 1, Len(deferred))
     ELSE /\ deferred' = Tail(deferred)
          /\ IF Head(deferred).ch \in {"return", "back"}
             THEN BeginNext(Request(ControlOf[Head(deferred).ch], <<>>))
             ELSE /\ posted' = Tail(posted) /\ pending' = FALSE
                  /\ UNCHANGED calls
  /\ UNCHANGED <<keyboard, context, ui, engine, tsf, history>>

NeverReplays(ok) == FALSE                                         \* mutant
Replays(ok) == ok /\ deferred # <<>> /\ context # NoOne

ApplyProviderResult ==
  /\ Arrived /\ Answer \notin {NoState} /\ Answer.mode # "registration"
  /\ ~(OffersCandidates /\ deferred # <<>>)
  /\ posted' = Tail(posted) /\ pending' = FALSE
  /\ \E ok \in Granted :
       /\ Apply(context, FrontendKeeps(Answer), Answer, ok /\ context # NoOne)
       /\ ui' = IF Replays(ok) THEN [Loop EXCEPT !.at = "replay"] ELSE Loop
  /\ UNCHANGED <<keyboard, context, deferred, calls, engine, tsf, history>>

-----------------------------------------------------------------------------
(* ReplayDeferredProviderKeys: the queue goes through the frontend, one    *)
(* key after the other, until a key starts a conversion of its own.        *)
Replayed(key) ==
  CASE key.ch = "return" -> Commit(fe)
    [] key.ch = "back" -> Backspace(fe)
    [] key.ch = "ctrlj" -> Kakutei(fe)
    [] key.ch \in Letters -> Feed(fe, key)
    [] OTHER -> [fe |-> fe, st |-> NoState]

Continues(rest) == IF rest = <<>> THEN Loop ELSE ui

ReplayConverts ==
  /\ ui.at = "replay" /\ fe.preedit /\ Head(deferred).ch \in {"space", "f7"}
  /\ deferred' = IF Head(deferred).ch = "space" THEN Tail(deferred)
                 ELSE deferred
  /\ BeginConversion
  /\ candUi' = context /\ ui' = Loop
  /\ UNCHANGED <<keyboard, context, document, fe, modes, failed, engine, tsf,
                 history>>

ReplayKey ==
  /\ ui.at = "replay"
  /\ ~(fe.preedit /\ Head(deferred).ch \in {"space", "f7"})
  /\ deferred' = Tail(deferred)
  /\ LET r == Replayed(Head(deferred)) IN
     /\ fe' = r.fe
     /\ \/ /\ r.st = NoState /\ ui' = Continues(Tail(deferred))
           /\ UNCHANGED <<document, modes, candUi>>
        \/ /\ r.st # NoState
           /\ enginePending' = (r.st.start \/ r.st.pending # <<>>)
           /\ kana' = (r.st.mode # "latin") /\ candidate' = FALSE
           /\ candUi' = NoOne /\ UNCHANGED <<provComp, regMode>>
           /\ \E ok \in Granted :
                /\ Edit(context, r.st, regCommit, regRange, ok)
                /\ ui' = IF ok THEN Continues(Tail(deferred)) ELSE Loop
  /\ UNCHANGED <<keyboard, context, failed, pending, calls, posted, engine,
                 tsf, history>>

MessageLoop ==
  \/ DropStale \/ ResultMissing \/ ResolveCandidate \/ EnterRegistration
  \/ ApplyProviderResult \/ ReplayConverts \/ ReplayKey

-----------------------------------------------------------------------------
(* TSF delivers an edit that was granted asynchronously: a state is        *)
(* written to whatever composition there is then.                          *)
RunEdit ==
  /\ ui = Loop /\ edits # <<>>
  /\ edits' = Tail(edits)
  /\ LET e == Head(edits) IN
     \/ /\ e.kind = "state"
        /\ Edit(e.ctx, e.st, regCommit, regRange, TRUE)
     \/ /\ e.kind = "end"
        /\ Inserted(e.ctx, IF e.kept THEN e.comp.text ELSE <<>>)
        /\ Acknowledged(e.comp.id)
        /\ UNCHANGED <<comp, regRange, regCommit>>
  /\ UNCHANGED <<keyboard, context, fe, modes, failed, candUi, provider, ui,
                 engine, orphans, history>>

Happens(event) ==
  /\ event \in Events /\ incidents < MaxIncidents
  /\ incidents' = incidents + 1
  /\ UNCHANGED <<where, quits>>

(* OnCompositionTerminated                                                 *)
ExpectedAlone(id) == id \in ending /\ comp = NoComp                \* mutant
Expected(id) == id \in ending

Acknowledge(id) ==
  /\ Expected(id) /\ ending' = ending \ {id}
  /\ UNCHANGED <<comp, docs, regRange, regCommit, fe, modes, failed, candUi,
                 provider, engine, orphans>>

ParkedStays(c) ==                                                \* mutant
  /\ ~Expected(c.id) /\ regMode
  /\ Inserted(c.ctx, c.text)
  /\ comp' = NoComp /\ candUi' = NoOne /\ enginePending' = TRUE
  /\ orphans' = (orphans \cup {comp}) \ {c, NoComp}
  /\ UNCHANGED <<ending, regRange, regCommit, fe, kana, candidate,
                 provComp, regMode, failed, provider, engine>>

ParkedEnds(c) ==
  /\ ~Expected(c.id) /\ regMode
  /\ comp' = NoComp /\ candUi' = NoOne /\ enginePending' = TRUE
  /\ orphans' = (orphans \cup {comp}) \ {c, NoComp}
  /\ UNCHANGED <<docs, ending, regRange, regCommit, fe, kana, candidate,
                 provComp, regMode, failed, provider, engine>>

ForeignEnds(c) ==
  /\ ~Expected(c.id) /\ ~regMode
  /\ Inserted(c.ctx, c.text)
  /\ orphans' = (orphans \cup {comp}) \ {c, NoComp}
  /\ ResetAbandoned /\ UNCHANGED ending

OnCompositionTerminated(c) ==
  /\ ui = Loop
  /\ Acknowledge(c.id) \/ ParkedEnds(c) \/ ForeignEnds(c)
  /\ UNCHANGED <<keyboard, context, ui, edits>>

(* The application ends the composition, or one the service let go of.     *)
ApplicationTerminates ==
  /\ Happens("terminate")
  /\ \E c \in {comp} \cup orphans :
       c # NoComp /\ OnCompositionTerminated(c)
  /\ UNCHANGED callbacks

LateCallback ==
  \E id \in callbacks :
    /\ OnCompositionTerminated([NoComp EXCEPT !.id = id])
    /\ callbacks' = callbacks \ {id}
    /\ UNCHANGED history

-----------------------------------------------------------------------------
(* ApplyKeyboardOpenChange                                                 *)
CloseKeyboard ==
  /\ Happens("close") /\ ui = Loop /\ active /\ keyboardOpen
  /\ keyboardOpen' = FALSE /\ UNCHANGED active
  /\ saved' = [kana |-> kana, candidate |-> candidate]
  /\ IF ~Abandons
     THEN UNCHANGED <<document, modes, candUi, provider, engine, tsf>>
     ELSE /\ candUi' = NoOne /\ regMode' = FALSE /\ provComp' = FALSE
          /\ enginePending' = FALSE /\ deferred' = <<>>
          /\ regRange' = NoOne /\ regCommit' = FALSE
          /\ UNCHANGED <<kana, candidate, pending, calls, posted, docs, ending,
                         callbacks>>
          /\ \E r \in Ask(Request("RESET", <<>>)) :
               /\ session' = r.s /\ resync' = r.resync
               /\ IF r.st # NoState /\ context # NoOne
                  THEN /\ edits' = Append(edits,
                            [kind |-> "state", comp |-> NoComp, kept |-> FALSE,
                             ctx |-> context, st |-> r.st])
                       /\ UNCHANGED <<comp, orphans>>
                  ELSE /\ comp' = NoComp /\ UNCHANGED edits
                       /\ orphans' = (orphans \cup {comp}) \ {NoComp}
  /\ UNCHANGED <<context, fe, failed, ui>>

OpenKeyboard ==
  /\ ui = Loop /\ active /\ ~keyboardOpen
  /\ keyboardOpen' = TRUE /\ UNCHANGED <<active, saved>>
  /\ kana' = saved.kana /\ candidate' = saved.candidate
  /\ UNCHANGED <<context, document, fe, enginePending, provComp, regMode,
                 failed, candUi, provider, ui, engine, tsf, history>>

(* FinalizeCandidate and AbortCandidate, through RequestStateEdit          *)
ClickCandidate ==
  /\ Happens("mouse") /\ ui = Loop /\ candUi # NoOne /\ ~pending
  /\ \E verb \in {"COMMIT", "CANCEL"} : \E r \in Ask(Request(verb, <<>>)) :
       /\ session' = r.s /\ resync' = r.resync
       /\ IF r.st = NoState
          THEN UNCHANGED <<enginePending, provComp, candUi, edits>>
          ELSE /\ enginePending' = (r.st.start \/ r.st.pending # <<>>)
               /\ provComp' = (r.st.start /\ r.st.cands)
               /\ candUi' = IF r.st.cands THEN candUi ELSE NoOne
               /\ edits' = Append(edits,
                    [kind |-> "state", comp |-> NoComp, kept |-> FALSE,
                     ctx |-> candUi, st |-> r.st])
  /\ UNCHANGED <<keyboard, context, document, fe, kana, candidate, regMode,
                 failed, provider, ui, orphans>>

(* SelectInputMode: Ctrl+J's CANCEL, and l, q or nothing after it; it      *)
(* stands for ToggleInputMode too.                                         *)
SelectInputMode ==
  /\ Happens("langbar") /\ ui = Loop /\ active /\ ~enginePending
  /\ \E r \in Ask(Request("CANCEL", <<>>)), ch \in {"l", "q", "none"} :
       LET then == IF ch = "none" THEN {Reply(r.s)}
                   ELSE Exec(r.s, Request("KEY", <<[id |-> 0, ch |-> ch]>>))
       IN \/ /\ r.st = NoState
             /\ session' = r.s /\ resync' = r.resync /\ UNCHANGED modes
          \/ /\ r.st # NoState /\ resync' = r.resync
             /\ \E t \in then :
                  /\ session' = t.s
                  /\ kana' = (t.st.mode # "latin")
                  /\ candidate' = (t.st.mode = "candidate")
             /\ UNCHANGED <<enginePending, provComp, regMode>>
  /\ UNCHANGED <<keyboard, context, document, fe, failed, candUi, provider, ui,
                 tsf>>

(* Deactivate waits for the mutex before it closes the pipe.               *)
Deactivate ==
  /\ Happens("reactivate") /\ ui = Loop /\ active
  /\ \A i \in DOMAIN calls : ~calls[i].sent
  /\ active' = FALSE /\ context' = NoOne /\ candUi' = NoOne
  /\ orphans' = (orphans \cup {comp}) \ {NoComp}
  /\ IF Abandons
     THEN ResetAbandoned
     ELSE /\ CancelPendingProvider
          /\ UNCHANGED <<engine, comp, regRange, regCommit, fe, failed, modes>>
  /\ UNCHANGED <<keyboardOpen, saved, docs, ending, callbacks, edits, ui>>

Activate ==
  /\ ui = Loop /\ ~active
  /\ active' = TRUE /\ resync' = TRUE
  /\ UNCHANGED <<keyboardOpen, saved, context, document, fe, modes, failed,
                 candUi, provider, ui, session, tsf, history>>

Environment ==
  \/ \E c \in Context, ch \in Keys : KeyDown(c, ch)
  \/ ApplicationTerminates \/ CloseKeyboard \/ OpenKeyboard \/ ClickCandidate
  \/ SelectInputMode \/ Deactivate \/ Activate

Delivery == RunEdit \/ LateCallback

Next == Environment \/ UiThread \/ ProviderThread \/ MessageLoop \/ Delivery

(* The UI thread runs, the mutex is fair enough for one thread at a time,  *)
(* every call has a time limit, and Windows delivers what was posted.      *)
Fairness == WF_vars(UiThread) /\ WF_vars(ProviderThread) /\ WF_vars(MessageLoop)

Spec == Init /\ [][Next]_vars /\ Fairness

-----------------------------------------------------------------------------
(* Properties.                                                             *)
KeyIds == 1..Len(where)
Texts == {comp.text} \cup {o.text : o \in orphans}
         \cup {edits[i].comp.text : i \in DOMAIN edits}
         \cup {docs[c] : c \in Context}
InDocuments == UNION {ToSet(t) : t \in {comp.text} \cup {docs[c] : c \in Context}}
Visible == UNION {ToSet(t) : t \in Texts}

(* The service's state has its types, the flags agree with what they       *)
(* describe, and at most the latest provider call is current.              *)
TypeOK ==
  /\ active \in BOOLEAN /\ keyboardOpen \in BOOLEAN
  /\ context \in Context \cup {NoOne} /\ candUi \in Context \cup {NoOne}
  /\ comp = NoComp \/ comp.ctx \in Context
  /\ regRange \in Context \cup {NoOne} /\ regCommit \in BOOLEAN
  /\ {kana, candidate, enginePending, failed, provComp, regMode, pending,
      resync} \subseteq BOOLEAN
  /\ ui.at \in {"loop", "key", "replay"}
  /\ ui.at = "replay" => deferred # <<>> /\ ~pending
  /\ Cardinality({i \in DOMAIN calls : calls[i].current})
     + Cardinality({i \in DOMAIN posted : posted[i].current}) <= 1
  /\ ~(regMode /\ provComp)

(* No key is inserted twice: neither a replayed queue, nor a registered    *)
(* word, nor the preview and the provider's answer together repeat one.    *)
EachKeyOnce ==
  LET occurrences(id) ==
        FoldSet(LAMBDA c, n : n + Cardinality({i \in DOMAIN docs[c] :
                                                 docs[c][i] = id}),
                Cardinality({i \in DOMAIN comp.text : comp.text[i] = id}),
                Context)
  IN \A id \in KeyIds : occurrences(id) <= 1

(* Text stands in a document in the order its keys were pressed, although  *)
(* some went through the frontend, some through the queue and some through *)
(* the provider.                                                           *)
ArrivalOrder ==
  \A c \in Context :
    LET text == docs[c] \o (IF comp.ctx = c THEN comp.text ELSE <<>>)
    IN \A i, j \in DOMAIN text : i < j => text[i] <= text[j]

(* A key is only ever shown in the document it was pressed in, although    *)
(* answers and queued keys arrive after the focus has moved.               *)
KeysStayInTheirDocument ==
  /\ \A c \in Context : \A i \in DOMAIN docs[c] :
       docs[c][i] \in KeyIds /\ where[docs[c][i]] = c
  /\ \A i \in DOMAIN comp.text :
       comp.text[i] \in KeyIds /\ where[comp.text[i]] = comp.ctx

(* What is neither shown nor in anybody's hands is gone: text that was     *)
(* cancelled does not come back with a late answer.                        *)
Answers ==
  UNION {ToSet(Ids(calls[i].req.keys)) :
           i \in {j \in DOMAIN calls : calls[j].current}}
  \cup UNION {ToSet(posted[i].st.text \o posted[i].st.pending) :
                i \in {j \in DOMAIN posted : posted[j].current}}
  \cup ToSet(session.word) \cup ToSet(session.reading)
InHand ==
  ToSet(fe.text) \cup ToSet(Ids(fe.pending)) \cup ToSet(Ids(deferred))
  \cup {ui.key.id} \cup (IF pending THEN Answers ELSE {})
  \cup (IF regMode THEN ToSet(session.word) ELSE {})

CancelledStaysCancelled ==
  [][Visible' \ Visible \subseteq InHand \cup {Len(where')}]_vars

(* A candidate list is open only while a provider call or a provider's     *)
(* composition may still close it; an element left open keeps the arrow    *)
(* keys from the application.                                              *)
CandidateUiOwned == ui = Loop /\ candUi # NoOne => pending \/ provComp

(* While nothing is under way the document shows the reading that the      *)
(* frontend holds, the conversion sends all of it, at its end, and a       *)
(* composition that no provider holds is the frontend's.                   *)
FrontendOwns == ui = Loop /\ ~pending /\ RealTime /\ active
ShownIsSent ==
  FrontendOwns => /\ InFlight => Composing(fe)
                  /\ fe.preedit /\ fe.pending = <<>>
                       => comp.text = fe.text /\ IsSuffix(fe.text, Ids(fe.raw))

(* The conversion sends nothing else: no key of an earlier input comes     *)
(* back with it (a romaji prefix aside, which the engine drops).           *)
ShownIsConverted ==
  FrontendOwns /\ fe.preedit /\ fe.pending = <<>> => Ids(fe.raw) = fe.text

(* The emergency cancel: one Ctrl+G leaves no conversion and no candidate  *)
(* of the provider behind, a second in a row no reading either, whatever   *)
(* the provider's threads do meanwhile.  What it does not cover, because   *)
(* the code fails there: registrations, and edits that are denied.         *)
SecondQuitEnds ==
  ui = Loop /\ active /\ keyboardOpen =>
    /\ quits >= 1 => ~pending /\ ~provComp
    /\ quits = 2 => ~enginePending /\ comp = NoComp

(* The service claims letters only while the frontend turns them to kana.  *)
KanaModeIsShared == active => (kana <=> ~fe.latin)

(* A delayed OnCompositionTerminated leaves a newer composition alone.     *)
NewerCompositionSurvives ==
  [][callbacks' # callbacks /\ callbacks' \subseteq callbacks
       => UNCHANGED <<comp, docs>>]_vars

(* When the registered word arrives it replaces the parked reading, also   *)
(* if the application has ended the parked composition in between.         *)
Word == Head(posted).st
WordReplacesReading ==
  [][(/\ Arrived /\ posted' = Tail(posted)
      /\ regMode /\ ~regMode' /\ ~Word.start /\ Word.pending = <<>>
      /\ ~regCommit')
       => ToSet(Ids(fe.raw)) \cap InDocuments' \subseteq ToSet(Word.text)]_vars

(* Every provider call ends, and the keys queued behind it are served.     *)
QueuedKeysAreServed ==
  /\ pending ~> ~pending
  /\ deferred # <<>> ~> deferred = <<>>
=============================================================================
