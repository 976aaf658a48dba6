---------------------------- MODULE EngineClient ----------------------------
(***************************************************************************)
(* EngineClient (windows/src/engine_client.cpp), one object per session    *)
(* id, composed with the host of module EngineHost.  A call runs Transact: *)
(* connect if needed, RESET first if an earlier call was abandoned, then   *)
(* the request.  Any wait can time out or be cancelled; the client then    *)
(* closes its handle while the host may still be working on the request.   *)
(*                                                                         *)
(* held, shown and typed count the keys of the composition in progress: in *)
(* the engine's session, in the preedit a STATE reply carries, and in the  *)
(* last preedit the client was given.                                      *)
(***************************************************************************)
EXTENDS EngineHost

CONSTANTS
  MaxKeys,    (* BOUND: keys typed into one composition                    *)
  Calls       (* the calls this instance's text services make              *)

(* SessionRequest prefixes every request but PREVIEW with the session id.  *)
Ask(s, v) ==
  IF v = "PREVIEW" THEN [scope |-> Legacy, verb |-> v]
                   ELSE [scope |-> s, verb |-> v]

ASSUME ClientAssumption ==
  /\ MaxKeys \in Nat \ {0}
  /\ Calls \subseteq {"KEY", "RESET", "QUERY", "PREVIEW"}
  /\ \A s \in Session, v \in Calls \cup {"RESET"} : Ask(s, v) \in Traffic

VARIABLES
  pipe,     \* pipe_: the connection, Nobody for INVALID_HANDLE_VALUE
  resync,   \* needs_resync_
  phase,    \* where Transact is
  want,     \* the request it was called with
  typed,    \* keys in the preedit the client was last given
  held,     \* keys the engine's session holds
  shown,    \* keys in the preedit of the reply on a connection
  overtaken \* sessions an abandoned request reached after the resync RESET

callVars == <<pipe, resync, phase, want, typed>>
modelVars == <<held, shown, overtaken>>
allVars == <<vars, callVars, modelVars>>

ClientInit ==
  /\ Init
  /\ pipe = [s \in Session |-> Nobody]
  /\ resync = [s \in Session |-> TRUE]      \* Activate: MarkNeedsResync
  /\ phase = [s \in Session |-> "idle"]
  /\ want = [s \in Session |-> NoRequest]
  /\ typed = [s \in Session |-> 0]
  /\ held = [s \in Session |-> 0]
  /\ shown = [c \in Client |-> 0]
  /\ overtaken = {}

-----------------------------------------------------------------------------
(* A call begins: SendKey/SendControl, Reset, ListEngines/Ping, or         *)
(* PreviewCandidates, which carries no session and skips the resync.       *)
Call(s, v) ==
  /\ Running
  /\ phase[s] = "idle"
  /\ v = "KEY" => typed[s] < MaxKeys
  /\ want' = [want EXCEPT ![s] = Ask(s, v)]
  /\ phase' = [phase EXCEPT ![s] =
                 IF pipe[s] = Nobody THEN "connecting" ELSE "sending"]
  /\ UNCHANGED <<vars, pipe, resync, typed, modelVars>>

Connect(s) ==
  /\ phase[s] = "connecting"
  /\ ClientConnect
  /\ pipe' = [pipe EXCEPT ![s] = nextId]
  /\ phase' = [phase EXCEPT ![s] = "sending"]
  /\ UNCHANGED <<resync, want, typed, modelVars>>

ResendAtOnce(s) ==                                                \* mutant
  /\ phase' = [phase EXCEPT ![s] = "sending"]
  /\ UNCHANGED want

Return(s) ==
  /\ phase' = [phase EXCEPT ![s] = "idle"]
  /\ want' = [want EXCEPT ![s] = NoRequest]

(* No instance within the timeout.  Only Reset remembers the failure.      *)
ConnectFails(s) ==
  /\ phase[s] = "connecting"
  /\ Return(s)
  /\ resync' = [resync EXCEPT ![s] = @ \/ want[s].verb = "RESET"]
  /\ UNCHANGED <<vars, pipe, typed, modelVars>>

ResyncDue(s) == resync[s] /\ want[s].verb # "PREVIEW"

Send(s) ==
  /\ phase[s] = "sending"
  /\ ClientWrite(pipe[s], IF ResyncDue(s) THEN Ask(s, "RESET") ELSE want[s])
  /\ phase' = [phase EXCEPT ![s] =
                 IF ResyncDue(s) THEN "resyncing" ELSE "waiting"]
  /\ UNCHANGED <<pipe, resync, want, typed, modelVars>>

(* The resync RESET was answered: only now is the flag cleared.            *)
Resynced(s) ==
  /\ phase[s] = "resyncing"
  /\ ClientRead(pipe[s])
  /\ resync' = [resync EXCEPT ![s] = FALSE]
  /\ typed' = [typed EXCEPT ![s] = 0]
  /\ phase' = [phase EXCEPT ![s] = "sending"]
  /\ UNCHANGED <<pipe, want, modelVars>>

TypedAfter(s, c) == IF response[c] = "ack" THEN typed[s] ELSE shown[c]

Answered(s) ==
  /\ phase[s] = "waiting"
  /\ ClientRead(pipe[s])
  /\ typed' = [typed EXCEPT ![s] = TypedAfter(s, pipe[s])]
  /\ Return(s)
  /\ UNCHANGED <<pipe, resync, modelVars>>

(* What every failed RawTransact leaves: no pipe, and a resync owed.       *)
ForgetsFailure(flag, s) == flag                                   \* mutant

AfterFailure(flag, s) == [flag EXCEPT ![s] = TRUE]

(* Timeout, CancelPendingIo or a broken pipe, at any wait: the handle is   *)
(* closed (fail_immediately, cancel_pending_and_fail) and the call fails.  *)
Abandon(s) ==
  /\ phase[s] \in {"sending", "resyncing", "waiting"}
  /\ ClientHangup(pipe[s])
  /\ pipe' = [pipe EXCEPT ![s] = Nobody]
  /\ resync' = AfterFailure(resync, s)
  /\ typed' = [typed EXCEPT ![s] = 0]
  /\ Return(s)
  /\ UNCHANGED modelVars

(* TextService::Deactivate between two calls, and the next Activate.       *)
Reactivate(s) ==
  /\ phase[s] = "idle"
  /\ pipe[s] # Nobody
  /\ ClientHangup(pipe[s])
  /\ pipe' = [pipe EXCEPT ![s] = Nobody]
  /\ resync' = [resync EXCEPT ![s] = TRUE]
  /\ typed' = [typed EXCEPT ![s] = 0]
  /\ UNCHANGED <<phase, want, modelVars>>

(* ~EngineClient, or the application crashes: the id is never used again.  *)
Leave(s) ==
  /\ phase[s] # "gone"
  /\ IF pipe[s] # Nobody THEN ClientHangup(pipe[s])
                         ELSE Running /\ UNCHANGED vars
  /\ pipe' = [pipe EXCEPT ![s] = Nobody]
  /\ phase' = [phase EXCEPT ![s] = "gone"]
  /\ UNCHANGED <<resync, want, typed, modelVars>>

-----------------------------------------------------------------------------
(* The host's steps, with what they do to the keys a session holds.        *)

Capped(n) == IF n > MaxKeys + 1 THEN MaxKeys + 1 ELSE n   \* BOUND

HeldAfter(s, c) ==
  IF engine'[s] # "composing" THEN 0
  ELSE IF req[c].verb = "KEY" THEN Capped(held[s] + 1)
  ELSE held[s]

(* Worker c completed a transaction in session s.                          *)
Executed(c, s) ==
  worker[c] = "dispatching" /\ worker'[c] = "replying" /\ req[c].scope = s

ModelStep ==
  /\ held' = [s \in Session |->
       IF \E c \in Client : Executed(c, s)
       THEN HeldAfter(s, CHOOSE c \in Client : Executed(c, s))
       ELSE IF engine'[s] = "none" THEN 0 ELSE held[s]]
  /\ shown' = [c \in Client |->
       IF response'[c] = "none" THEN 0
       ELSE IF \E s \in Session : Executed(c, s) THEN held'[req[c].scope]
       ELSE shown[c]]
  /\ overtaken' = {s \in Session :
       \/ \E c \in Client : Executed(c, s) /\ pipe[s] \notin {Nobody, c}
       \/ s \in overtaken /\
          ~\E c \in Client :
             Executed(c, s) /\ pipe[s] = c /\ req[c].verb = "RESET"}

Host == HostStep /\ ModelStep /\ UNCHANGED callVars

CallStep(s) ==
  \/ \E v \in Calls : Call(s, v)
  \/ Connect(s) \/ ConnectFails(s) \/ Send(s) \/ Resynced(s) \/ Answered(s)
  \/ Abandon(s) \/ Reactivate(s) \/ Leave(s)

ClientNext == Host \/ \E s \in Session : CallStep(s)

ClientSpec == ClientInit /\ [][ClientNext]_allVars
-----------------------------------------------------------------------------
(* Properties.                                                             *)

CallPhases == {"idle", "connecting", "sending", "resyncing", "waiting",
               "gone"}

(* Every variable has its type, and a client never waits on a handle it    *)
(* has already closed.                                                     *)
ClientTypeOK ==
  /\ pipe \in [Session -> {Nobody} \cup Client]
  /\ resync \in [Session -> BOOLEAN]
  /\ phase \in [Session -> CallPhases]
  /\ want \in [Session -> Request \cup {NoRequest}]
  /\ typed \in [Session -> 0..(MaxKeys + 1)]
  /\ held \in [Session -> 0..(MaxKeys + 1)]
  /\ shown \in [Client -> 0..(MaxKeys + 1)]
  /\ overtaken \subseteq Session
  /\ \A s \in Session :
       phase[s] \in {"sending", "resyncing", "waiting"} =>
         pipe[s] # Nobody /\ open[pipe[s]]

(* Between calls, a connected client that owes no resync and the engine    *)
(* agree on the composition: a request abandoned halfway, whether the      *)
(* child ran it or not, leaves no key behind.  It is promised only while   *)
(* no abandoned request overtakes the RESET, and not after an ERR reply,   *)
(* which does not say what the session holds.                              *)
ResyncRestoresAgreement ==
  \A s \in Session :
    phase[s] = "idle" /\ pipe[s] # Nobody /\ ~resync[s] /\ alive
      /\ worker[pipe[s]] = "reading" /\ s \notin overtaken \cup hidden
      => held[s] = typed[s]
=============================================================================
