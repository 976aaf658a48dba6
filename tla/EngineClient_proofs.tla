------------------------- MODULE EngineClient_proofs -------------------------
(***************************************************************************)
(* EngineClient objects drive the host only as EngineHost's clients may,   *)
(* so what is proved of the host holds of the composition, for every       *)
(* number of text services, connections and keys.                          *)
(***************************************************************************)
EXTENDS EngineClientInv, EngineHost_proofs

(* The requests a call writes are among those the host is proved for.      *)
LEMMA ClientConstants ==
  /\ MaxKeys \in Nat \ {0}
  /\ Calls \subseteq {"KEY", "RESET", "QUERY", "PREVIEW"}
  /\ \A s \in Session, v \in Calls \cup {"RESET"} :
       Ask(s, v) \in Traffic /\ Ask(s, v) \in Request
BY ClientAssumption, Constants DEF ClientAssumption

-----------------------------------------------------------------------------
(* Every step of a client is a step EngineHost allows its clients, every   *)
(* other step is the host's.                                               *)
LEMMA StepsAllowed ==
  ASSUME ClientInv, [ClientNext]_allVars
  PROVE  [Next]_vars
<1> USE DEF ClientInv, CallTypes
<1>1. CASE Host
  BY <1>1 DEF Host, Next
<1>2. ASSUME NEW s \in Session, CallStep(s) PROVE [Next]_vars
  <2>1. pipe[s] # Nobody => pipe[s] \in Client
    OBVIOUS
  <2>2. CASE (\E v \in Calls : Call(s, v)) \/ ConnectFails(s)
    BY <2>2 DEF Call, ConnectFails
  <2>3. CASE Connect(s)
    BY <2>3 DEF Connect, Next
  <2>4. CASE Send(s)
    <3>1. pipe[s] \in Client
      BY <2>1, <2>4 DEF Send, HandlesOpen
    <3>2. PICK v \in Calls : want[s] = Ask(s, v)
      BY <2>4 DEF Send, CallsKnown
    <3>3. \E r \in Traffic : ClientWrite(pipe[s], r)
      BY <2>4, <3>2, ClientConstants DEF Send
    <3> QED BY <3>1, <3>3 DEF Next, ClientStep
  <2>5. CASE Resynced(s) \/ Answered(s)
    <3>1. pipe[s] \in Client /\ ClientRead(pipe[s])
      BY <2>1, <2>5 DEF Resynced, Answered, HandlesOpen
    <3> QED BY <3>1 DEF Next, ClientStep
  <2>6. CASE Abandon(s) \/ Reactivate(s)
    <3>1. pipe[s] \in Client /\ ClientHangup(pipe[s])
      BY <2>1, <2>6 DEF Abandon, Reactivate, HandlesOpen
    <3> QED BY <3>1 DEF Next, ClientStep
  <2>7. CASE Leave(s)
    BY <2>1, <2>7 DEF Leave, Next, ClientStep
  <2> QED BY <1>2, <2>2, <2>3, <2>4, <2>5, <2>6, <2>7 DEF CallStep
<1>3. CASE UNCHANGED allVars
  BY <1>3 DEF allVars
<1> QED BY <1>1, <1>2, <1>3 DEF ClientNext

(* What Transact remembers between its waits stays well typed.             *)
LEMMA CallTypesNext ==
  ASSUME ClientInv, [ClientNext]_allVars  PROVE CallTypes'
<1> USE DEF ClientInv, CallTypes, CallPhases, callVars, allVars
<1>1. CASE Host
  BY <1>1 DEF Host
<1>2. ASSUME NEW s \in Session, CallStep(s) PROVE CallTypes'
  <2>1. ASSUME NEW v \in Calls, Call(s, v) PROVE CallTypes'
    BY <2>1, ClientConstants DEF Call
  <2>2. CASE Connect(s)
    <3>1. nextId \in Client
      BY <2>2, Constants
         DEF Connect, ClientConnect, IInv, TypeOK, LoopTypes, Client
    <3> QED BY <2>2, <3>1 DEF Connect
  <2>3. CASE ConnectFails(s) \/ Answered(s)
    BY <2>3 DEF ConnectFails, Answered, Return
  <2>4. CASE Send(s) \/ Resynced(s)
    BY <2>4 DEF Send, Resynced
  <2>5. CASE Abandon(s) \/ Reactivate(s) \/ Leave(s)
    BY <2>5 DEF Abandon, Reactivate, Leave, Return, AfterFailure
  <2> QED BY <1>2, <2>1, <2>2, <2>3, <2>4, <2>5 DEF CallStep
<1>3. CASE UNCHANGED allVars
  BY <1>3
<1> QED BY <1>1, <1>2, <1>3 DEF ClientNext

(* The counts of typed, held and shown keys stay within the bound.         *)
LEMMA CountTypesNext ==
  ASSUME ClientInv, [ClientNext]_allVars  PROVE CountTypes'
<1> USE ClientConstants DEF ClientInv, CountTypes
<1>1. CASE Host
  <2>1. held' \in [Session -> 0..(MaxKeys + 1)]
    <3>1. ASSUME NEW s \in Session, NEW c
          PROVE  HeldAfter(s, c) \in 0..(MaxKeys + 1)
      BY DEF HeldAfter, Capped
    <3>2. ASSUME NEW s \in Session PROVE held'[s] \in 0..(MaxKeys + 1)
      <4>1. 0 \in 0..(MaxKeys + 1) /\ held[s] \in 0..(MaxKeys + 1)
        OBVIOUS
      <4> QED BY <1>1, <3>1, <4>1 DEF Host, ModelStep
    <3>3. held' = [s \in Session |-> held'[s]]
      BY <1>1 DEF Host, ModelStep
    <3> QED BY <3>2, <3>3
  <2>2. shown' \in [Client -> 0..(MaxKeys + 1)]
    <3>1. \A c \in Client :
            (\E s \in Session : Executed(c, s)) =>
              held'[req[c].scope] \in 0..(MaxKeys + 1)
      BY <2>1 DEF Executed
    <3>2. ASSUME NEW c \in Client PROVE shown'[c] \in 0..(MaxKeys + 1)
      <4>1. 0 \in 0..(MaxKeys + 1) /\ shown[c] \in 0..(MaxKeys + 1)
        OBVIOUS
      <4> QED BY <1>1, <3>1, <4>1 DEF Host, ModelStep
    <3>3. shown' = [c \in Client |-> shown'[c]]
      BY <1>1 DEF Host, ModelStep
    <3> QED BY <3>2, <3>3
  <2>3. overtaken' \subseteq Session
    BY <1>1 DEF Host, ModelStep
  <2> QED BY <1>1, <2>1, <2>2, <2>3 DEF Host, callVars
<1>2. ASSUME NEW s \in Session, CallStep(s) PROVE CountTypes'
  <2> USE DEF modelVars
  <2>1. CASE (\E v \in Calls : Call(s, v)) \/ Connect(s) \/ ConnectFails(s)
             \/ Send(s) \/ Leave(s)
    BY <2>1 DEF Call, Connect, ConnectFails, Send, Leave
  <2>2. CASE Resynced(s) \/ Abandon(s) \/ Reactivate(s)
    BY <2>2 DEF Resynced, Abandon, Reactivate
  <2>3. CASE Answered(s)
    <3>1. pipe[s] \in Client
      BY <2>3 DEF Answered, HandlesOpen, CallTypes
    <3>2. TypedAfter(s, pipe[s]) \in 0..(MaxKeys + 1)
      BY <3>1 DEF TypedAfter
    <3> QED BY <2>3, <3>2 DEF Answered
  <2> QED BY <1>2, <2>1, <2>2, <2>3 DEF CallStep
<1>3. CASE UNCHANGED allVars
  BY <1>3 DEF allVars, callVars, modelVars
<1> QED BY <1>1, <1>2, <1>3 DEF ClientNext

(* Transact only ever carries one of the calls the text service makes.     *)
LEMMA CallsKnownNext ==
  ASSUME ClientInv, [ClientNext]_allVars  PROVE CallsKnown'
<1> USE DEF ClientInv, CallTypes, CallsKnown, callVars, allVars
<1>1. CASE Host
  BY <1>1 DEF Host
<1>2. ASSUME NEW s \in Session, CallStep(s) PROVE CallsKnown'
  <2>1. CASE \E v \in Calls : Call(s, v)
    BY <2>1 DEF Call
  <2>2. CASE Connect(s) \/ Send(s) \/ Resynced(s)
    BY <2>2 DEF Connect, Send, Resynced
  <2>3. CASE ConnectFails(s) \/ Answered(s) \/ Abandon(s)
    BY <2>3 DEF ConnectFails, Answered, Abandon, Return
  <2>4. CASE Reactivate(s) \/ Leave(s)
    BY <2>4 DEF Reactivate, Leave
  <2> QED BY <1>2, <2>1, <2>2, <2>3, <2>4 DEF CallStep
<1>3. CASE UNCHANGED allVars
  BY <1>3
<1> QED BY <1>1, <1>2, <1>3 DEF ClientNext

-----------------------------------------------------------------------------
(* What a step of the host leaves alone.                                   *)

(* Every step that is not a worker's leaves requests, replies and sessions *)
(* alone; at most it gives a connection its worker.                        *)
OtherHostStep ==
  \/ \E w \in Client \cup {Collector} : Wake(w)
  \/ GcStep \/ MainStep
  \/ IdleElapses \/ ChildExit

LEMMA OtherStepsFrame ==
  ASSUME IInv, OtherHostStep
  PROVE  /\ UNCHANGED <<inbox, open, req, response, owners, engine, hidden>>
         /\ alive' => alive
         /\ \/ worker' = worker
            \/ worker[nextId] = "unborn"
               /\ worker' = [worker EXCEPT ![nextId] = "reading"]
<1> USE DEF clientVars, workerVars, arbiterVars
<1>1. CASE GcStep
  BY <1>1 DEF GcStep, GcTick, GcEnter, GcStart, GcCollected, GcCompacted, engineVars
<1>2. CASE TestStopping \/ ConnectNamedPipe \/ Accept \/ StopChild \/ Exit
  BY <1>2 DEF TestStopping, ConnectNamedPipe, Accept, StopChild, Exit,
     engineVars
<1>3. CASE Spawn
  BY <1>3, SpawnsUnborn DEF Spawn, engineVars, IInv
<1>4. CASE IdleElapses \/ ChildExit
  BY <1>4 DEF IdleElapses, ChildExit, engineVars
<1>5. CASE \E w \in Client \cup {Collector} : Wake(w)
  BY <1>5 DEF Wake, engineVars
<1> QED BY <1>1, <1>2, <1>3, <1>4, <1>5 DEF OtherHostStep, MainStep

(* A worker's step is about its own connection, and never reopens a child. *)
LEMMA WorkersFrame ==
  ASSUME IInv, NEW d \in Client, WorkerStep(d)
  PROVE  /\ \A c \in Client \ {d} :
              /\ worker'[c] = worker[c] /\ req'[c] = req[c]
              /\ inbox'[c] = inbox[c] /\ response'[c] = response[c]
         /\ alive' = alive /\ open' = open
         /\ UNCHANGED <<nextId, instance>>
         /\ worker[d] # "unborn"
<1> USE DEF IInv, TypeOK, ConnectionTypes, clientVars, workerVars, mainVars,
            engineVars
<1>1. CASE Read(d) \/ ReadFails(d)
  BY <1>1 DEF Read, ReadFails
<1>2. CASE Lock(d)
  BY <1>2 DEF Lock
<1>3. CASE TakeOver(d)
  BY <1>3 DEF TakeOver
<1>4. CASE Dispatch(d)
  BY <1>4 DEF Dispatch
<1>5. CASE DispatchFails(d) \/ ConversionFails(d)
  BY <1>5 DEF DispatchFails, ConversionFails
<1>6. CASE Reply(d)
  BY <1>6 DEF Reply
<1>7. CASE Cleanup(d)
  BY <1>7 DEF Cleanup
<1> QED BY <1>1, <1>2, <1>3, <1>4, <1>5, <1>6, <1>7 DEF WorkerStep

LEMMA HostCases ==
  ASSUME HostStep
  PROVE  OtherHostStep \/ \E d \in Client : WorkerStep(d)
BY DEF HostStep, OtherHostStep

(* The host never opens or closes a client's handle.                       *)
LEMMA HostKeepsHandles ==
  ASSUME IInv, HostStep  PROVE open' = open
BY HostCases, OtherStepsFrame, WorkersFrame

(* The host accepts connections in order: a connection nobody has made yet *)
(* stays closed, and nothing is in it.                                     *)
LEMMA HostKeepsUnclaimed ==
  ASSUME IInv, Unclaimed, HostStep  PROVE Unclaimed'
<1> USE Constants DEF IInv, TypeOK, LoopTypes, Unclaimed
<1>1. CASE OtherHostStep
  <2>1. UNCHANGED <<inbox, open, response>>
    BY <1>1, OtherStepsFrame
  <2>2. CASE UNCHANGED <<nextId, instance>>
    BY <2>1, <2>2
  <2>3. CASE Spawn
    BY <2>1, <2>3 DEF Spawn
  <2>4. CASE instance' # "listening" /\ nextId' = nextId
    BY <2>1, <2>4
  <2>5. \/ Spawn \/ UNCHANGED <<nextId, instance>>
        \/ instance' # "listening" /\ nextId' = nextId
    <3> USE DEF mainVars
    <3>1. CASE GcStep
      BY <3>1 DEF GcStep, GcTick, GcEnter, GcStart, GcCollected, GcCompacted
    <3>2. CASE TestStopping \/ ConnectNamedPipe \/ Accept \/ StopChild \/ Exit
      BY <3>2 DEF TestStopping, ConnectNamedPipe, Accept, StopChild, Exit
    <3>3. CASE IdleElapses \/ ChildExit
      BY <3>3 DEF IdleElapses, ChildExit
    <3>4. CASE \E w \in Client \cup {Collector} : Wake(w)
      BY <3>4 DEF Wake
    <3> QED BY <1>1, <3>1, <3>2, <3>3, <3>4 DEF OtherHostStep, MainStep
  <2> QED BY <2>2, <2>3, <2>4, <2>5
<1>2. ASSUME NEW d \in Client, WorkerStep(d) PROVE Unclaimed'
  <2>1. nextId' = nextId /\ instance' = instance /\ open' = open
    BY <1>2, WorkersFrame
  <2>2. ~(d >= nextId)
    BY <1>2, WorkersFrame DEF WorkersAccepted
  <2>3. ASSUME NEW c \in Client, c >= nextId
        PROVE  inbox'[c] = inbox[c] /\ response'[c] = response[c]
    BY <1>2, <2>2, <2>3, WorkersFrame
  <2> QED BY <2>1, <2>3 DEF Client
<1> QED BY <1>1, <1>2, HostCases

-----------------------------------------------------------------------------
(* A client's handle, and what is on its connection.                       *)

(* The clients' steps leave the host's own state alone.                    *)
hostVars == <<worker, req, mutex, owners, engine, hidden, alive, nextId>>

(* A client's step is about its own connection: the one it holds, or the   *)
(* one it has just made.                                                   *)
LEMMA CallFrame ==
  ASSUME ClientInv, NEW s \in Session, CallStep(s)
  PROVE  /\ UNCHANGED <<hostVars, modelVars>>
         /\ \A other \in Session \ {s} :
              /\ pipe'[other] = pipe[other] /\ resync'[other] = resync[other]
              /\ phase'[other] = phase[other] /\ want'[other] = want[other]
              /\ typed'[other] = typed[other]
         /\ \A c \in Client : c # pipe[s] =>
              inbox'[c] = inbox[c] /\ response'[c] = response[c]
<1> USE DEF ClientInv, CallTypes, CountTypes, IInv, TypeOK, ConnectionTypes,
            hostVars, vars, clientVars, workerVars, arbiterVars, engineVars,
            mainVars, modelVars
<1>1. CASE (\E v \in Calls : Call(s, v)) \/ ConnectFails(s)
  BY <1>1 DEF Call, ConnectFails, Return
<1>2. CASE Connect(s)
  BY <1>2 DEF Connect, ClientConnect
<1>3. CASE Send(s)
  BY <1>3 DEF Send, ClientWrite
<1>4. CASE Resynced(s) \/ Answered(s)
  BY <1>4 DEF Resynced, Answered, ClientRead, Return
<1>5. CASE Abandon(s) \/ Reactivate(s)
  BY <1>5 DEF Abandon, Reactivate, ClientHangup, Return, AfterFailure
<1>6. CASE Leave(s)
  BY <1>6 DEF Leave, ClientHangup
<1> QED BY <1>1, <1>2, <1>3, <1>4, <1>5, <1>6 DEF CallStep

(* The connection a client makes was closed and empty.                     *)
LEMMA ConnectMakes ==
  ASSUME ClientInv, NEW s \in Session, Connect(s)
  PROVE  /\ nextId \in Client /\ ~open[nextId] /\ Silent(nextId)
         /\ worker[nextId] = "unborn"
         /\ instance' = "client" /\ nextId' = nextId
         /\ open' = [open EXCEPT ![nextId] = TRUE]
         /\ inbox' = inbox /\ response' = response
         /\ \A other \in Session : pipe[other] # nextId
<1> USE Constants DEF ClientInv, IInv, TypeOK, LoopTypes
<1>1. nextId \in Client
  BY DEF Connect, ClientConnect, Client
<1>2. ~open[nextId] /\ Silent(nextId) /\ worker[nextId] = "unborn"
  BY <1>1 DEF Connect, ClientConnect, Unclaimed, Silent, WorkersAccepted
<1>3. /\ instance' = "client" /\ nextId' = nextId /\ inbox' = inbox
      /\ open' = [open EXCEPT ![nextId] = TRUE] /\ response' = response
  BY DEF Connect, ClientConnect, workerVars
<1>4. \A other \in Session : pipe[other] # nextId
  BY <1>1, <1>2 DEF HandlesOpen
<1> QED BY <1>1, <1>2, <1>3, <1>4

(* A client gives up its handle when it closes it, and only its own.       *)
LEMMA HandlesNext ==
  ASSUME ClientInv, [ClientNext]_allVars  PROVE HandlesOpen'
<1> USE DEF ClientInv, CallTypes, HandlesOpen
<1>1. CASE Host
  BY <1>1, HostKeepsHandles DEF Host, callVars
<1>2. ASSUME NEW s \in Session, CallStep(s) PROVE HandlesOpen'
  <2> USE Constants DEF IInv, TypeOK, ConnectionTypes
  <2>1. CASE (\E v \in Calls : Call(s, v)) \/ ConnectFails(s)
    BY <2>1 DEF Call, ConnectFails, Return, vars, clientVars
  <2>2. CASE Connect(s)
    <3>1. nextId \in Client /\ open' = [open EXCEPT ![nextId] = TRUE]
          /\ \A other \in Session : pipe[other] # nextId
      BY <2>2, ConnectMakes
    <3>2. pipe' = [pipe EXCEPT ![s] = nextId]
          /\ phase' = [phase EXCEPT ![s] = "sending"]
      BY <2>2 DEF Connect
    <3> QED BY <3>1, <3>2
  <2>3. CASE Send(s) \/ Resynced(s)
    BY <2>3 DEF Send, Resynced, ClientWrite, ClientRead, clientVars
  <2>4. CASE Answered(s)
    BY <2>4 DEF Answered, ClientRead, Return, clientVars
  <2>5. CASE Abandon(s)
    BY <2>5 DEF Abandon, ClientHangup, Return
  <2>6. CASE Reactivate(s)
    BY <2>6 DEF Reactivate, ClientHangup
  <2>7. CASE Leave(s)
    BY <2>7 DEF Leave, ClientHangup, vars, clientVars
  <2> QED BY <1>2, <2>1, <2>2, <2>3, <2>4, <2>5, <2>6, <2>7 DEF CallStep
<1>3. CASE UNCHANGED allVars
  BY <1>3 DEF allVars, callVars, vars, clientVars
<1> QED BY <1>1, <1>2, <1>3 DEF ClientNext

LEMMA UnclaimedNext ==
  ASSUME ClientInv, [ClientNext]_allVars  PROVE Unclaimed'
<1> USE DEF ClientInv, CallTypes, Unclaimed, clientVars, workerVars, mainVars
<1>1. CASE Host
  BY <1>1, HostKeepsUnclaimed DEF Host
<1>2. ASSUME NEW s \in Session, CallStep(s) PROVE Unclaimed'
  <2> USE Constants DEF IInv, TypeOK, ConnectionTypes, LoopTypes
  <2>1. pipe[s] # Nobody => pipe[s] \in Client /\ open[pipe[s]]
    BY DEF HandlesOpen
  <2>2. CASE (\E v \in Calls : Call(s, v)) \/ ConnectFails(s)
    BY <2>2 DEF Call, ConnectFails, vars
  <2>3. CASE Connect(s)
    BY <2>3, ConnectMakes
  <2>4. CASE Send(s)
    BY <2>1, <2>4 DEF Send, ClientWrite, HandlesOpen
  <2>5. CASE Resynced(s) \/ Answered(s)
    BY <2>1, <2>5 DEF Resynced, Answered, ClientRead, HandlesOpen
  <2>6. CASE Abandon(s) \/ Reactivate(s)
    BY <2>1, <2>6 DEF Abandon, Reactivate, ClientHangup
  <2>7. CASE Leave(s)
    BY <2>1, <2>7 DEF Leave, ClientHangup, vars
  <2> QED BY <1>2, <2>2, <2>3, <2>4, <2>5, <2>6, <2>7 DEF CallStep
<1>3. CASE UNCHANGED allVars
  BY <1>3 DEF allVars, vars
<1> QED BY <1>1, <1>2, <1>3 DEF ClientNext

(* A handle is given up only together with the promise that rests on it.   *)
LEMMA ResyncOwedNext ==
  ASSUME ClientInv, [ClientNext]_allVars  PROVE ResyncOwed'
<1> USE DEF ClientInv, CallTypes, ResyncOwed
<1>1. CASE Host
  BY <1>1 DEF Host, callVars
<1>2. ASSUME NEW s \in Session, CallStep(s) PROVE ResyncOwed'
  <2>1. CASE (\E v \in Calls : Call(s, v)) \/ ConnectFails(s)
    BY <2>1 DEF Call, ConnectFails, Return
  <2>2. CASE Connect(s)
    BY <2>2, ConnectMakes, Constants DEF Connect
  <2>3. CASE Send(s) \/ Resynced(s) \/ Answered(s)
    BY <2>3 DEF Send, Resynced, Answered, Return, HandlesOpen
  <2>4. CASE Abandon(s) \/ Reactivate(s) \/ Leave(s)
    BY <2>4 DEF Abandon, Reactivate, Leave, Return, AfterFailure
  <2> QED BY <1>2, <2>1, <2>2, <2>3, <2>4 DEF CallStep
<1>3. CASE UNCHANGED allVars
  BY <1>3 DEF allVars, callVars
<1> QED BY <1>1, <1>2, <1>3 DEF ClientNext

-----------------------------------------------------------------------------
(* Lanes: what is on the way on a client's connection.                     *)

(* What a client sent is a RESET of its own session or the call itself,    *)
(* and what reaches the child of it is about that session alone.           *)
LEMMA SentRequests ==
  ASSUME ClientInv, NEW s \in Session,
         phase[s] \in {"resyncing", "waiting"}
  PROVE  /\ \E v \in {"KEY", "RESET", "QUERY", "PREVIEW"} : Sent(s) = Ask(s, v)
         /\ Sent(s) # NoRequest /\ Sent(s).verb # "SHUTDOWN"
         /\ Sent(s).verb # "PREVIEW" =>
              /\ Sent(s).scope = s
              /\ Sent(s).verb \in {"KEY", "RESET", "QUERY"}
         /\ phase[s] = "resyncing" =>
              Sent(s).scope = s /\ Sent(s).verb = "RESET"
<1>1. \E v \in {"KEY", "RESET", "QUERY", "PREVIEW"} : Sent(s) = Ask(s, v)
  BY ClientConstants DEF ClientInv, CallsKnown, Sent
<1>2. \A v \in {"KEY", "RESET", "QUERY", "PREVIEW"} : Ask(s, v) # NoRequest
  BY DEF Ask, NoRequest
<1> QED BY <1>1, <1>2 DEF Ask, Sent

(* The worker's own steps move a request along its lane.                   *)
LEMMA WorkerKeepsLane ==
  ASSUME ClientInv, NEW s \in Session, NEW c \in Client, pipe[s] = c,
         WorkerStep(c), UNCHANGED callVars
  PROVE  Ending(c)' \/ Lane(s, c)'
<1> USE DEF ClientInv, CallTypes, callVars
<1>1. open[c] /\ (Ending(c) \/ Lane(s, c)) /\ c # Nobody
  BY Constants DEF HandlesOpen, Lanes, LaneOf
<1>2. Sent(s)' = Sent(s) /\ phase'[s] = phase[s]
  BY DEF Sent
<1> USE DEF IInv, TypeOK, ConnectionTypes
<1>3. CASE Read(c)
  <2>1. /\ phase[s] \in {"resyncing", "waiting"}
        /\ inbox[c] = Sent(s) /\ response[c] = "none"
    BY <1>1, <1>3, SentRequests DEF Read, Ending, Lane, Silent
  <2>2. inbox'[c] = NoRequest /\ req'[c] = Sent(s)
    BY <1>3, <2>1 DEF Read
  <2>3. \/ worker'[c] = "locking" /\ response'[c] = "none"
        \/ worker'[c] = "replying" /\ response'[c] = "ack"
    BY <1>3, <2>1 DEF Read
  <2> QED BY <1>2, <2>1, <2>2, <2>3 DEF Lane, Silent
<1>4. CASE ReadFails(c)
  BY <1>4 DEF ReadFails, Ending
<1>5. CASE Lock(c) \/ TakeOver(c) \/ Dispatch(c)
  <2>1. /\ phase[s] \in {"resyncing", "waiting"} /\ Silent(c)
        /\ req[c] = Sent(s) /\ worker[c] \in {"locking", "dispatching"}
    BY <1>1, <1>5 DEF Lock, TakeOver, Dispatch, Ending, Lane
  <2>2. Scoped(req[c])
    BY <2>1, SentRequests DEF Scoped, RequestInHand, Transacting
  <2>3. CASE Lock(c)
    <3>1. /\ worker'[c] = "dispatching" /\ req' = req /\ inbox' = inbox
          /\ response' = response
      BY <2>2, <2>3 DEF Lock, Refused, PlainReset, TakesOver, Input, clientVars
    <3> QED BY <1>2, <2>1, <3>1 DEF Lane, Silent
  <2>4. CASE Dispatch(c)
    <3>1. worker'[c] = "replying" /\ req' = req /\ inbox' = inbox
      BY <2>4 DEF Dispatch, clientVars
    <3>2. PICK mode \in EngineAfter(req[c]) :
            \E reply \in EngineReplies(req[c], mode) :
              response' = [response EXCEPT ![c] = reply]
      BY <2>4 DEF Dispatch
    <3>3. PICK reply \in EngineReplies(req[c], mode) :
            response' = [response EXCEPT ![c] = reply]
      BY <3>2
    <3>4. ForChild(req[c])
      BY <2>1 DEF RequestInHand, Transacting, ForChild
    <3>5. reply # "none"
      BY <3>4, ChildAnswers
    <3> QED BY <1>2, <2>1, <3>1, <3>3, <3>5 DEF Lane, Silent
  <2> QED BY <1>5, <2>1, <2>3, <2>4 DEF TakeOver
<1>6. CASE DispatchFails(c) \/ ConversionFails(c)
  BY <1>6 DEF DispatchFails, ConversionFails, Ending
<1>7. CASE Reply(c)
  <2>1. /\ phase[s] \in {"resyncing", "waiting"}
        /\ inbox[c] = NoRequest /\ response[c] # "none"
    BY <1>1, <1>7 DEF Reply, Ending, Lane
  <2>2. /\ worker'[c] \in {"reading", "closing"} /\ inbox' = inbox
        /\ response'[c] = response[c]
    BY <1>1, <1>7 DEF Reply, clientVars
  <2> QED BY <1>2, <2>1, <2>2 DEF Lane, Ending
<1>8. CASE Cleanup(c)
  BY <1>8 DEF Cleanup, Ending
<1> QED BY <1>3, <1>4, <1>5, <1>6, <1>7, <1>8 DEF WorkerStep

LEMMA HostKeepsLanes ==
  ASSUME ClientInv, Host  PROVE Lanes'
<1> USE DEF ClientInv, CallTypes
<1> SUFFICES ASSUME NEW s \in Session, pipe[s] # Nobody PROVE LaneOf(s)'
  BY DEF Lanes, LaneOf, Host, callVars
<1>1. PICK c \in Client : pipe[s] = c
  OBVIOUS
<1>2. (Ending(c) \/ Lane(s, c)) /\ UNCHANGED callVars /\ HostStep
  BY <1>1 DEF Lanes, LaneOf, Host
<1>3. pipe'[s] = c /\ phase'[s] = phase[s] /\ Sent(s)' = Sent(s)
  BY <1>1, <1>2 DEF callVars, Sent
<1> SUFFICES Ending(c)' \/ Lane(s, c)'
  BY <1>3 DEF LaneOf, Ending, Lane, Silent
<1>4. CASE OtherHostStep
  <2>1. /\ inbox'[c] = inbox[c] /\ req'[c] = req[c]
        /\ response'[c] = response[c]
    BY <1>4, OtherStepsFrame DEF IInv
  <2>2. \/ worker'[c] = worker[c]
        \/ worker[c] = "unborn" /\ worker'[c] = "reading"
    BY <1>4, OtherStepsFrame DEF IInv, TypeOK, ConnectionTypes
  <2> QED BY <1>2, <1>3, <2>1, <2>2 DEF Ending, Lane, Silent
<1>5. CASE WorkerStep(c)
  BY <1>1, <1>2, <1>5, WorkerKeepsLane
<1>6. ASSUME NEW d \in Client, WorkerStep(d), d # c
      PROVE  Ending(c)' \/ Lane(s, c)'
  <2>1. /\ worker'[c] = worker[c] /\ req'[c] = req[c]
        /\ inbox'[c] = inbox[c] /\ response'[c] = response[c]
    BY <1>6, WorkersFrame
  <2> QED BY <1>2, <1>3, <2>1 DEF Ending, Lane, Silent
<1> QED BY <1>2, <1>4, <1>5, <1>6, HostCases

(* A client writes only on a silent connection, and reads what it sent     *)
(* for.                                                                    *)
LEMMA CallKeepsOwnLane ==
  ASSUME ClientInv, NEW s \in Session, CallStep(s)
  PROVE  LaneOf(s)'
<1> SUFFICES ASSUME pipe'[s] # Nobody PROVE LaneOf(s)'
  BY DEF LaneOf
<1> USE DEF ClientInv, CallTypes
<1>1. worker' = worker /\ req' = req
  BY CallFrame DEF hostVars
<1> USE DEF IInv, TypeOK, ConnectionTypes
<1>2. CASE Connect(s)
  <2>1. pipe'[s] = nextId /\ phase'[s] = "sending"
    BY <1>2 DEF Connect
  <2>2. nextId \in Client /\ inbox'[nextId] = NoRequest
        /\ response'[nextId] = "none" /\ worker'[nextId] = "unborn"
    BY <1>1, <1>2, ConnectMakes DEF Silent
  <2> QED BY <2>1, <2>2 DEF LaneOf, Lane, Silent
<1>3. CASE ~Connect(s)
  <2>1. pipe' = pipe
    BY <1>3 DEF CallStep, Call, ConnectFails, Send, Resynced, Answered,
       Abandon, Reactivate, Leave
  <2>2. PICK c \in Client : pipe[s] = c /\ pipe'[s] = c
    BY <2>1
  <2>3. Ending(c) \/ Lane(s, c)
    BY <2>2, Constants DEF Lanes, LaneOf
  <2> SUFFICES Ending(c)' \/ Lane(s, c)'
    BY <2>2 DEF LaneOf, Ending, Lane, Silent, Sent
  <2>4. CASE (\E v \in Calls : Call(s, v)) \/ ConnectFails(s)
    <3>1. inbox' = inbox /\ response' = response
      BY <2>4 DEF Call, ConnectFails, vars, clientVars, workerVars
    <3>2. phase[s] = "idle" /\ phase'[s] = "sending"
      BY <2>2, <2>4, Constants DEF Call, ConnectFails, ResyncOwed
    <3> QED BY <1>1, <2>3, <3>1, <3>2 DEF Ending, Lane, Silent
  <2>5. CASE Send(s)
    <3>1. worker[c] \in {"unborn", "reading"} /\ response[c] = "none"
      BY <2>2, <2>5 DEF Send, ClientWrite, Outstanding
    <3>2. response' = response
      BY <2>5 DEF Send, ClientWrite, workerVars
    <3>3. inbox'[c] = Sent(s)' /\ phase'[s] \in {"resyncing", "waiting"}
      BY <2>2, <2>5 DEF Send, ClientWrite, Sent
    <3> QED BY <1>1, <3>1, <3>2, <3>3 DEF Lane
  <2>6. CASE Resynced(s) \/ Answered(s)
    <3>1. /\ inbox' = inbox /\ phase[s] \in {"resyncing", "waiting"}
          /\ phase'[s] \in {"sending", "idle"}
      BY <2>6 DEF Resynced, Answered, Return, ClientRead, clientVars
    <3>2. /\ response[c] # "none" /\ response'[c] = "none"
          /\ worker[c] \in {"reading", "closing"}
      BY <2>2, <2>6 DEF Resynced, Answered, ClientRead, Delivered
    <3> QED BY <1>1, <2>3, <3>1, <3>2 DEF Lane, Silent, Ending
  <2>7. ~(Abandon(s) \/ Reactivate(s) \/ Leave(s))
    BY DEF Abandon, Reactivate, Leave
  <2> QED BY <1>3, <2>4, <2>5, <2>6, <2>7 DEF CallStep
<1> QED BY <1>2, <1>3

(* The others' connections are out of its reach.                           *)
LEMMA CallKeepsOthers ==
  ASSUME ClientInv, NEW s \in Session, CallStep(s),
         NEW other \in Session \ {s}, NEW c \in Client, pipe[other] = c
  PROVE  inbox'[c] = inbox[c] /\ response'[c] = response[c]
BY CallFrame, Constants DEF ClientInv, CallTypes, HandlesOpen

LEMMA LanesNext ==
  ASSUME ClientInv, [ClientNext]_allVars  PROVE Lanes'
<1>1. CASE Host
  BY <1>1, HostKeepsLanes
<1>2. ASSUME NEW s \in Session, CallStep(s) PROVE Lanes'
  <2> SUFFICES ASSUME NEW other \in Session PROVE LaneOf(other)'
    BY DEF Lanes
  <2>1. CASE other = s
    BY <1>2, <2>1, CallKeepsOwnLane
  <2>2. CASE other # s
    <3>1. pipe'[other] = pipe[other] /\ phase'[other] = phase[other]
          /\ Sent(other)' = Sent(other)
      BY <1>2, <2>2, CallFrame DEF Sent
    <3>2. worker' = worker /\ req' = req
      BY <1>2, CallFrame DEF hostVars
    <3>3. CASE pipe[other] = Nobody
      BY <3>1, <3>3 DEF LaneOf
    <3>4. ASSUME NEW c \in Client, pipe[other] = c PROVE LaneOf(other)'
      <4>1. inbox'[c] = inbox[c] /\ response'[c] = response[c]
        BY <1>2, <2>2, <3>4, CallKeepsOthers
      <4>2. Ending(c) \/ Lane(other, c)
        BY <3>4, Constants DEF ClientInv, Lanes, LaneOf
      <4>3. Ending(c)' \/ Lane(other, c)'
        BY <3>1, <3>2, <4>1, <4>2 DEF Ending, Lane, Silent
      <4> QED BY <3>1, <3>4, <4>3 DEF LaneOf, Ending, Lane, Silent
    <3> QED BY <3>3, <3>4 DEF ClientInv, CallTypes
  <2> QED BY <2>1, <2>2
<1>3. CASE UNCHANGED allVars
  <2>1. Lanes
    BY DEF ClientInv
  <2> QED BY <1>3, <2>1 DEF allVars, callVars, vars, clientVars, workerVars,
        Lanes, LaneOf, Ending, Lane, Silent, Sent
<1> QED BY <1>1, <1>2, <1>3 DEF ClientNext

-----------------------------------------------------------------------------
(* Agreement: what the session holds, and what the client was shown.       *)

LEMMA DueIs ==
  ASSUME NEW s, NEW c
  PROVE  /\ phase[s] = "resyncing" => Due(s, c) = 0
         /\ phase[s] = "waiting" /\ response[c] # "none" =>
              Due(s, c) = TypedAfter(s, c)
         /\ phase[s] = "waiting" /\ response[c] = "none" => Due(s, c) = typed[s]
         /\ phase[s] \in {"idle", "sending"} => Due(s, c) = typed[s]
BY DEF Due

(* A worker completes a transaction only by Dispatch, one at a time.       *)
LEMMA ExecutedBy ==
  ASSUME IInv, HostStep, NEW c \in Client, NEW s \in Session, Executed(c, s)
  PROVE  Dispatch(c) /\ \A e \in Client : e # c => worker'[e] = worker[e]
<1> USE DEF Executed, IInv, TypeOK, ConnectionTypes
<1>1. worker'[c] # worker[c]
  OBVIOUS
<1>2. ~OtherHostStep
  BY <1>1, OtherStepsFrame
<1>3. PICK d \in Client : WorkerStep(d)
  BY <1>2, HostCases
<1>4. d = c
  BY <1>1, <1>3, WorkersFrame
<1>5. WorkerStep(c)
  BY <1>3, <1>4
<1>6. Dispatch(c)
  BY <1>5 DEF WorkerStep, Read, ReadFails, Lock, TakeOver, DispatchFails,
     ConversionFails, Reply, Cleanup
<1> QED BY <1>3, <1>4, <1>6, WorkersFrame

LEMMA OneExecutes ==
  ASSUME IInv, HostStep, NEW c \in Client, NEW s \in Session, Executed(c, s)
  PROVE  \A e \in Client, t \in Session : Executed(e, t) => e = c /\ t = s
<1> TAKE e \in Client, t \in Session
<1> HAVE Executed(e, t)
<1>1. e = c
  BY ExecutedBy DEF Executed
<1> QED BY <1>1 DEF Executed

(* Nothing ran in session s: its keys stay, unless its record is gone.     *)
LEMMA QuietSession ==
  ASSUME IInv, HostStep, ModelStep, NEW s \in Session,
         \A c \in Client : ~Executed(c, s)
  PROVE  /\ engine'[s] = engine[s] \/ engine'[s] = "none"
         /\ held'[s] = IF engine'[s] = "none" THEN 0 ELSE held[s]
         /\ s \in hidden' <=> s \in hidden
<1> USE DEF IInv, TypeOK, EngineTypes, ConnectionTypes
<1>1. held'[s] = IF engine'[s] = "none" THEN 0 ELSE held[s]
  BY DEF ModelStep
<1>2. CASE OtherHostStep
  BY <1>1, <1>2, OtherStepsFrame
<1>3. ASSUME NEW d \in Client, WorkerStep(d)
      PROVE  /\ engine'[s] = engine[s] \/ engine'[s] = "none"
             /\ s \in hidden' <=> s \in hidden
  <2> USE DEF engineVars
  <2>1. CASE Read(d) \/ ReadFails(d) \/ Lock(d) \/ DispatchFails(d) \/ Reply(d)
    BY <2>1 DEF Read, ReadFails, Lock, DispatchFails, Reply
  <2>2. CASE TakeOver(d)
    BY <2>2, Constants DEF TakeOver
  <2>3. CASE Dispatch(d)
    <3>1. req[d].scope # s
      BY <2>3 DEF Dispatch, Executed
    <3>2. engine'[s] = engine[s]
      BY <2>3, <3>1 DEF Dispatch
    <3>3. PICK mode \in EngineAfter(req[d]) :
            \E reply \in EngineReplies(req[d], mode) :
              hidden' = Unreported(d, req[d], reply)
      BY <2>3 DEF Dispatch
    <3>4. s \in hidden' <=> s \in hidden
      BY <3>1, <3>3 DEF Unreported
    <3> QED BY <3>2, <3>4
  <2>4. CASE Cleanup(d)
    BY <2>4 DEF Cleanup
  <2>5. CASE ConversionFails(d)
    BY <2>5, ConversionTouchesLegacy, Constants
  <2> QED BY <1>3, <2>1, <2>2, <2>3, <2>4, <2>5 DEF WorkerStep
<1> QED BY <1>1, <1>2, <1>3, HostCases

LEMMA EmptyUnlessComposing ==
  ASSUME ClientInv, Host, NEW s \in Session, engine'[s] # "composing"
  PROVE  held'[s] = 0
<1> USE DEF ClientInv, Host
<1>1. CASE \E c \in Client : Executed(c, s)
  BY <1>1 DEF ModelStep, HeldAfter
<1>2. CASE ~\E c \in Client : Executed(c, s)
  <2>1. /\ engine'[s] = engine[s] \/ engine'[s] = "none"
        /\ held'[s] = IF engine'[s] = "none" THEN 0 ELSE held[s]
    BY <1>2, QuietSession
  <2> QED BY <2>1 DEF Agreement
<1> QED BY <1>1, <1>2

(* An abandoned request that runs in s is one that overtakes; only the     *)
(* client's own RESET makes good for it.                                   *)
LEMMA Overtaking ==
  ASSUME ClientInv, Host, NEW s \in Session, NEW c \in Client, pipe[s] = c,
         s \notin overtaken'
  PROVE  /\ \A d \in Client : Executed(d, s) => d = c
         /\ s \in overtaken => Executed(c, s) /\ req[c].verb = "RESET"
BY Constants DEF Host, ModelStep

(* While nothing happens on its connection a client is due the same.       *)
LEMMA SameDue ==
  ASSUME ClientInv, Host, NEW s \in Session, NEW c \in Client,
         response'[c] = response[c], \A t \in Session : ~Executed(c, t)
  PROVE  Due(s, c)' = Due(s, c) /\ Synced(s, c)' = Synced(s, c)
<1>1. phase' = phase /\ typed' = typed /\ resync' = resync
  BY DEF Host, callVars
<1>2. response[c] # "none" => shown'[c] = shown[c]
  BY DEF Host, ModelStep
<1>3. response[c] # "none" => TypedAfter(s, c)' = TypedAfter(s, c)
  BY <1>1, <1>2 DEF TypedAfter
<1>4. Due(s, c)' = Due(s, c)
  <2>1. CASE phase[s] = "waiting" /\ response[c] # "none"
    BY <1>1, <1>3, <2>1 DEF Due
  <2>2. CASE ~(phase[s] = "waiting" /\ response[c] # "none")
    BY <1>1, <2>2 DEF Due
  <2> QED BY <2>1, <2>2
<1>5. Synced(s, c)' = Synced(s, c)
  BY <1>1 DEF Synced
<1> QED BY <1>4, <1>5

(* What Agrees promises of a connection in service.                        *)
Promise(s, c) ==
  /\ owners[s] = c \/ StaleInside(s, c)
  /\ s \notin hidden => held[s] = Due(s, c)

(* While no transaction is in progress the owner is the client itself.     *)
LEMMA FreeMutexOwner ==
  ASSUME IInv, NEW s \in Session, NEW c \in Client,
         owners[s] = c \/ StaleInside(s, c), mutex = Nobody
  PROVE  owners[s] = c
BY Constants DEF IInv, MutexHeld, StaleInside

(* A step of another worker that runs nothing in the session leaves it to  *)
(* the client, or takes it for an abandoned request about to run.          *)
LEMMA OthersLeaveSession ==
  ASSUME IInv, NEW s \in Session, NEW c \in Client,
         NEW d \in Client \ {c}, WorkerStep(d), ~Executed(d, s), alive,
         owners[s] = c \/ StaleInside(s, c)
  PROVE  /\ owners'[s] = c \/ StaleInside(s, c)'
         /\ engine'[s] = engine[s]
<1> USE DEF IInv, TypeOK, ConnectionTypes, ArbiterTypes, EngineTypes
<1>1. \A e \in Client \ {d} : worker'[e] = worker[e] /\ req'[e] = req[e]
  BY WorkersFrame
<1>2. CASE Read(d) \/ ReadFails(d) \/ Reply(d)
  <2>1. owners' = owners /\ engine' = engine /\ worker[d] # "dispatching"
    BY <1>2 DEF Read, ReadFails, Reply, arbiterVars, engineVars
  <2> QED BY <1>1, <2>1 DEF StaleInside
<1>3. CASE Lock(d)
  <2>1. owners[s] = c /\ engine' = engine
    BY <1>3, FreeMutexOwner DEF Lock, engineVars
  <2>2. CASE req[d].scope = s
    <3>1. worker'[d] = "dispatching" /\ req' = req
      BY <1>3, <2>2
         DEF Lock, Scoped, Refused, PlainReset, TakesOver, Input
    <3> QED BY <2>1, <2>2, <3>1 DEF StaleInside
  <2>3. CASE req[d].scope # s
    <3>1. owners'[s] = c
      BY <1>3, <2>1, <2>3 DEF Lock
    <3> QED BY <2>1, <3>1
  <2> QED BY <2>2, <2>3
<1>4. CASE TakeOver(d)
  <2>1. owners' = owners /\ worker[d] # "dispatching"
    BY <1>4 DEF TakeOver
  <2>2. engine'[s] = engine[s]
    BY <1>4, Constants DEF TakeOver
  <2> QED BY <1>1, <2>1, <2>2 DEF StaleInside
<1>5. CASE Dispatch(d)
  <2>1. req[d].scope # s /\ worker[d] = "dispatching"
    BY <1>5 DEF Dispatch, Executed
  <2>2. owners[s] = c
    BY <2>1, OneTransaction DEF StaleInside
  <2>3. owners'[s] = owners[s] /\ engine'[s] = engine[s]
    BY <1>5, <2>1 DEF Dispatch
  <2> QED BY <2>2, <2>3
<1>6. ~DispatchFails(d)
  BY DEF DispatchFails
<1>7. CASE Cleanup(d)
  <2>1. owners[s] = c
    BY <1>7, FreeMutexOwner DEF Cleanup
  <2>2. s \notin OwnedBy(d)
    BY <2>1 DEF OwnedBy
  <2>3. owners'[s] = owners[s] /\ engine'[s] = engine[s]
    BY <1>7, <2>2 DEF Cleanup
  <2> QED BY <2>1, <2>3
<1>8. CASE ConversionFails(d)
  <2>1. owners' = owners /\ engine'[s] = engine[s] /\ worker[d] = "dispatching"
    BY <1>8, ConversionTouchesLegacy DEF ConversionFails
  <2>2. req[d].scope # s
    BY <1>8 DEF ConversionFails, Input, Scoped
  <2>3. owners[s] = c
    BY <2>1, <2>2, OneTransaction DEF StaleInside
  <2> QED BY <2>1, <2>3
<1> QED BY <1>2, <1>3, <1>4, <1>5, <1>6, <1>7, <1>8 DEF WorkerStep

(* What the host does away from the client's connection keeps the promise. *)
LEMMA BystanderAgrees ==
  ASSUME ClientInv, Host, NEW s \in Session, NEW c \in Client, pipe[s] = c,
         alive', s \notin overtaken', ~Ending(c)', Synced(s, c)',
         OtherHostStep \/ \E d \in Client \ {c} : WorkerStep(d)
  PROVE  Promise(s, c)'
<1> USE DEF ClientInv
<1>1. HostStep /\ ModelStep
  BY DEF Host
<1>2. /\ response'[c] = response[c] /\ alive
      /\ \/ worker'[c] = worker[c]
         \/ worker[c] = "unborn" /\ worker'[c] = "reading"
  <2> USE DEF IInv, TypeOK, ConnectionTypes
  <2>1. CASE OtherHostStep
    BY <2>1, OtherStepsFrame
  <2>2. CASE \E d \in Client \ {c} : WorkerStep(d)
    BY <2>2, WorkersFrame
  <2> QED BY <2>1, <2>2
<1>3. \A t \in Session : ~Executed(c, t)
  BY <1>2 DEF Executed
<1>4. Due(s, c)' = Due(s, c) /\ Synced(s, c)
  BY <1>2, <1>3, SameDue
<1>5. s \notin overtaken /\ \A d \in Client : ~Executed(d, s)
  BY <1>3, Overtaking
<1>6. Promise(s, c)
  <2>1. Agrees(s, c)
    BY Constants DEF Agreement
  <2>2. ~Ending(c)
    BY <1>2 DEF Ending
  <2> QED BY <1>2, <1>4, <1>5, <2>1, <2>2 DEF Agrees, Promise
<1>7. /\ owners'[s] = c \/ StaleInside(s, c)'
      /\ engine'[s] = engine[s]
  <2>1. CASE OtherHostStep
    <3>1. UNCHANGED <<owners, engine, req>>
      BY <2>1, OtherStepsFrame
    <3>2. \A d \in Client :
            worker[d] = "dispatching" => worker'[d] = "dispatching"
      BY <2>1, OtherStepsFrame DEF IInv, TypeOK, ConnectionTypes
    <3> QED BY <1>6, <3>1, <3>2 DEF Promise, StaleInside
  <2>2. ASSUME NEW d \in Client \ {c}, WorkerStep(d)
        PROVE  /\ owners'[s] = c \/ StaleInside(s, c)'
               /\ engine'[s] = engine[s]
    BY <1>2, <1>5, <1>6, <2>2, OthersLeaveSession DEF Promise
  <2> QED BY <2>1, <2>2
<1>8. held'[s] = held[s] /\ (s \in hidden' <=> s \in hidden)
  <2>1. /\ held'[s] = IF engine'[s] = "none" THEN 0 ELSE held[s]
        /\ s \in hidden' <=> s \in hidden
    BY <1>1, <1>5, QuietSession
  <2>2. engine'[s] = "none" => held[s] = 0
    BY <1>7 DEF Agreement
  <2> QED BY <2>1, <2>2
<1> QED BY <1>4, <1>6, <1>7, <1>8 DEF Promise

(* The transaction of the client's own request: afterwards the session     *)
(* holds what the reply shows.                                             *)
LEMMA DispatchAgrees ==
  ASSUME ClientInv, Host, NEW s \in Session, NEW c \in Client, pipe[s] = c,
         s \notin overtaken', ~Ending(c), Synced(s, c)', Dispatch(c)
  PROVE  Promise(s, c)'
<1> USE DEF ClientInv
<1>1. /\ Lane(s, c) /\ phase' = phase /\ typed' = typed /\ resync' = resync
      /\ HostStep /\ ModelStep
  BY Constants DEF Lanes, LaneOf, Host, callVars
<1>2. /\ phase[s] \in {"resyncing", "waiting"} /\ Silent(c)
      /\ req[c] = Sent(s) /\ worker[c] = "dispatching"
  BY <1>1 DEF Lane, Dispatch
<1>3. /\ req[c].scope = s /\ req[c].verb \in {"KEY", "RESET", "QUERY"}
      /\ phase[s] = "resyncing" => req[c].verb = "RESET"
  BY <1>2, SentRequests DEF IInv, RequestInHand, Transacting
<1>4. owners'[s] = c
  <2>1. owners[s] = c
    BY <1>2, <1>3 DEF IInv, DispatcherOwns, Scoped
  <2> QED BY <1>3, <2>1 DEF Dispatch, Closes
<1>5. Executed(c, s)
  BY <1>2, <1>3 DEF Executed, Dispatch, IInv, TypeOK, ConnectionTypes
<1>6. /\ held'[s] = HeldAfter(s, c)
      /\ response'[c] # "none" => shown'[c] = held'[s]
  <2>1. \A e \in Client, t \in Session : Executed(e, t) => e = c /\ t = s
    BY <1>1, <1>5, OneExecutes
  <2>2. (CHOOSE e \in Client : Executed(e, s)) = c
    BY <1>5, <2>1
  <2> QED BY <1>1, <1>3, <1>5, <2>2 DEF ModelStep
<1>7. PICK mode \in EngineAfter(req[c]) :
        \E reply \in EngineReplies(req[c], mode) :
          /\ engine' = [engine EXCEPT ![req[c].scope] = mode]
          /\ hidden' = Unreported(c, req[c], reply)
          /\ response' = [response EXCEPT ![c] = reply]
  BY DEF Dispatch
<1>8. PICK reply \in EngineReplies(req[c], mode) :
        /\ engine' = [engine EXCEPT ![req[c].scope] = mode]
        /\ hidden' = Unreported(c, req[c], reply)
        /\ response' = [response EXCEPT ![c] = reply]
  BY <1>7
<1>9. /\ engine'[s] = mode /\ response'[c] = reply
      /\ reply \in {"idle", "composing", "ack"}
  <2>1. ForChild(req[c])
    BY <1>2 DEF IInv, RequestInHand, Transacting, ForChild
  <2>2. reply \in {"idle", "composing", "ack"}
    BY <2>1, ChildAnswers DEF IInv, TypeOK
  <2> QED BY <1>3, <1>8, <2>2 DEF IInv, TypeOK, EngineTypes, ConnectionTypes
<1>10. ASSUME s \notin hidden' PROVE held'[s] = Due(s, c)'
  <2>1. CASE req[c].verb = "RESET"
    <3>1. mode = "idle" /\ reply = "idle"
      BY <2>1 DEF EngineAfter, EngineReplies
    <3>2. held'[s] = 0
      BY <1>6, <1>9, <3>1 DEF HeldAfter
    <3>3. phase[s] = "waiting" => TypedAfter(s, c)' = 0
      BY <1>6, <1>9, <3>1, <3>2 DEF TypedAfter
    <3> QED BY <1>1, <1>2, <1>9, <3>1, <3>2, <3>3 DEF Due
  <2>2. CASE req[c].verb = "KEY"
    <3>1. phase[s] = "waiting"
      BY <1>2, <1>3, <2>2
    <3>2. reply # "ack"
      BY <1>3, <1>8, <1>10, <2>2 DEF Unreported
    <3>3. TypedAfter(s, c)' = held'[s]
      BY <1>6, <1>9, <3>2 DEF TypedAfter
    <3> QED BY <1>1, <1>9, <3>1, <3>3 DEF Due
  <2>3. CASE req[c].verb = "QUERY"
    <3>1. phase[s] = "waiting" /\ reply = "ack"
      BY <1>2, <1>3, <2>3 DEF EngineReplies
    <3>2. Due(s, c)' = typed[s]
      BY <1>1, <1>9, <3>1 DEF Due, TypedAfter
    <3>3. s \notin overtaken /\ s \notin hidden /\ Synced(s, c)
      BY <1>1, <1>8, <1>10, <2>3, <3>1, Overtaking DEF Unreported, Synced
    <3>4. held[s] = typed[s]
      <4>1. Agrees(s, c) /\ alive
        BY Constants DEF Agreement, Dispatch
      <4>2. Due(s, c) = typed[s]
        BY <1>2, <3>1 DEF Due, Silent
      <4> QED BY <3>3, <4>1, <4>2 DEF Agrees
    <3>5. held'[s] = held[s]
      <4>1. mode = IF engine[s] = "none" THEN "idle" ELSE engine[s]
        BY <1>3, <2>3 DEF EngineAfter
      <4>2. engine[s] # "composing" => held[s] = 0
        BY DEF Agreement
      <4> QED BY <1>6, <1>9, <2>3, <4>1, <4>2 DEF HeldAfter
    <3> QED BY <3>2, <3>4, <3>5
  <2> QED BY <1>3, <2>1, <2>2, <2>3
<1> QED BY <1>4, <1>10 DEF Promise

(* The client's own worker: reading, locking, answering.                   *)
LEMMA WorkerAgrees ==
  ASSUME ClientInv, Host, NEW s \in Session, NEW c \in Client, pipe[s] = c,
         alive', s \notin overtaken', ~Ending(c)', Synced(s, c)', WorkerStep(c)
  PROVE  Promise(s, c)'
<1> USE DEF ClientInv
<1>1. /\ phase' = phase /\ typed' = typed /\ resync' = resync
      /\ HostStep /\ ModelStep /\ alive /\ Agrees(s, c)
  BY WorkersFrame, Constants DEF Host, callVars, Agreement
<1> USE DEF IInv, TypeOK, ConnectionTypes
<1>2. /\ ~ReadFails(c) /\ ~Cleanup(c)
      /\ ~DispatchFails(c) /\ ~ConversionFails(c)
  BY <1>1 DEF ReadFails, DispatchFails, ConversionFails, Cleanup, Ending
<1>3. ~Ending(c)
  BY <1>2 DEF WorkerStep, Read, Lock, TakeOver, Dispatch, Reply, Ending
<1>4. Lane(s, c)
  BY <1>3, Constants DEF Lanes, LaneOf
<1>5. CASE Dispatch(c)
  BY <1>3, <1>5, DispatchAgrees
<1>6. CASE Read(c) \/ Lock(c) \/ Reply(c)
  <2>1. \A d \in Client, t \in Session : ~Executed(d, t)
    <3>1. \A t \in Session : ~Executed(c, t)
      BY <1>6 DEF Read, Lock, Reply, Executed
    <3>2. \A d \in Client \ {c}, t \in Session : ~Executed(d, t)
      BY WorkersFrame DEF Executed
    <3> QED BY <3>1, <3>2
  <2>2. s \notin overtaken
    BY <2>1, Overtaking
  <2>3. UNCHANGED <<engine, hidden>>
    BY <1>6 DEF Read, Lock, Reply, engineVars
  <2>4. held'[s] = held[s]
    <3>1. held'[s] = IF engine'[s] = "none" THEN 0 ELSE held[s]
      BY <1>1, <2>1, QuietSession
    <3> QED BY <2>3, <3>1 DEF Agreement
  <2>5. CASE Read(c)
    <3>1. /\ phase[s] \in {"resyncing", "waiting"}
          /\ inbox[c] = Sent(s) /\ response[c] = "none"
      BY <1>4, <2>5 DEF Read, Lane, Silent
    <3>2. response'[c] \in {"none", "ack"}
          /\ (response'[c] = "ack" => Sent(s).verb \in {"SHUTDOWN", "PREVIEW"})
      BY <2>5, <3>1 DEF Read
    <3>3. phase[s] = "waiting"
      BY <1>1, <3>1, <3>2, SentRequests DEF Synced
    <3>4. Synced(s, c) /\ Due(s, c) = typed[s]
      BY <1>1, <3>1, <3>3 DEF Synced, Due
    <3>5. Due(s, c)' = typed[s]
      BY <1>1, <3>2, <3>3 DEF Due, TypedAfter
    <3>6. owners' = owners /\ (StaleInside(s, c) => StaleInside(s, c)')
      <4>1. \A d \in Client \ {c} : worker'[d] = worker[d] /\ req'[d] = req[d]
        BY WorkersFrame
      <4>2. owners' = owners
        BY <2>5 DEF Read, arbiterVars
      <4> QED BY <4>1, <4>2 DEF StaleInside
    <3> QED BY <1>1, <1>3, <2>2, <2>3, <2>4, <3>4, <3>5, <3>6 DEF Agrees, Promise
  <2>6. CASE Lock(c)
    <3>1. /\ phase[s] \in {"resyncing", "waiting"} /\ Silent(c)
          /\ req[c] = Sent(s)
      BY <1>4, <2>6 DEF Lock, Lane
    <3>2. req[c].scope = s
      BY <2>6, <3>1, SentRequests DEF Lock, RequestInHand, Transacting
    <3>3. owners'[s] = c /\ response' = response
      BY <2>6, <3>2
         DEF Lock, Scoped, Refused, PlainReset, ArbiterTypes
    <3>4. Due(s, c)' = Due(s, c) /\ Synced(s, c)' = Synced(s, c)
      BY <2>1, <3>3, SameDue
    <3> QED BY <1>1, <1>3, <2>2, <2>3, <2>4, <3>3, <3>4 DEF Agrees, Promise
  <2>7. CASE Reply(c)
    <3>1. response'[c] = response[c]
      BY <2>7, Constants DEF Reply, HandlesOpen
    <3>2. Due(s, c)' = Due(s, c) /\ Synced(s, c)' = Synced(s, c)
      BY <2>1, <3>1, SameDue
    <3>3. owners' = owners /\ (StaleInside(s, c) => StaleInside(s, c)')
      <4>1. \A d \in Client \ {c} : worker'[d] = worker[d] /\ req'[d] = req[d]
        BY WorkersFrame
      <4>2. owners' = owners
        BY <2>7 DEF Reply, arbiterVars
      <4> QED BY <4>1, <4>2 DEF StaleInside
    <3> QED BY <1>1, <1>3, <2>2, <2>3, <2>4, <3>2, <3>3 DEF Agrees, Promise
  <2> QED BY <1>6, <2>5, <2>6, <2>7
<1>7. ~TakeOver(c)
  BY <1>4 DEF TakeOver, Lane
<1> QED BY <1>2, <1>5, <1>6, <1>7 DEF WorkerStep

LEMMA HostKeepsAgreement ==
  ASSUME ClientInv, Host  PROVE Agreement'
<1>1. ASSUME NEW s \in Session, pipe'[s] # Nobody PROVE Agrees(s, pipe[s])'
  <2>1. PICK c \in Client : pipe[s] = c /\ pipe' = pipe
    BY <1>1 DEF ClientInv, CallTypes, Host, callVars
  <2> SUFFICES ASSUME alive', s \notin overtaken', ~Ending(c)', Synced(s, c)'
               PROVE  Promise(s, c)'
    BY <2>1 DEF Agrees, Promise, Ending, Synced, StaleInside, Due, TypedAfter
  <2>2. CASE OtherHostStep \/ \E d \in Client \ {c} : WorkerStep(d)
    BY <2>1, <2>2, BystanderAgrees
  <2>3. CASE WorkerStep(c)
    BY <2>1, <2>3, WorkerAgrees
  <2> QED BY <2>2, <2>3, HostCases DEF Host
<1>2. \A s \in Session : engine'[s] # "composing" => held'[s] = 0
  BY EmptyUnlessComposing
<1> QED BY <1>1, <1>2 DEF Agreement

(* A client's own step: reading the reply gives it what it is due, and     *)
(* whatever drops the connection makes it owe a resync.                    *)
LEMMA CallKeepsOwnAgreement ==
  ASSUME ClientInv, NEW s \in Session, CallStep(s), pipe'[s] # Nobody
  PROVE  Agrees(s, pipe[s])'
<1> USE DEF ClientInv, CallTypes
<1>1. UNCHANGED <<hostVars, modelVars>>
  BY CallFrame
<1> USE DEF IInv, TypeOK, ConnectionTypes
<1>2. CASE Connect(s)
  <2>1. phase'[s] = "sending" /\ resync' = resync
    BY <1>2 DEF Connect
  <2>2. resync[s]
    BY <1>2 DEF Connect, ResyncOwed
  <2> QED BY <2>1, <2>2 DEF Agrees, Synced
<1>3. CASE ~Connect(s)
  <2>1. pipe' = pipe
    BY <1>3 DEF CallStep, Call, ConnectFails, Send, Resynced, Answered,
       Abandon, Reactivate, Leave
  <2>2. PICK c \in Client : pipe[s] = c
    BY <2>1
  <2>3. Agrees(s, c) /\ LaneOf(s)
    BY <2>2, Constants DEF Agreement, Lanes
  <2> SUFFICES ASSUME alive', s \notin overtaken', ~Ending(c)', Synced(s, c)'
               PROVE  Promise(s, c)'
    BY <2>1, <2>2
       DEF Agrees, Promise, Ending, Synced, StaleInside, Due, TypedAfter
  <2>4. /\ alive /\ s \notin overtaken /\ ~Ending(c) /\ Lane(s, c)
        /\ Synced(s, c) => Promise(s, c)
    BY <1>1, <2>2, <2>3, Constants
       DEF hostVars, modelVars, Ending, LaneOf, Agrees, Promise
  <2>5. ASSUME Synced(s, c), Due(s, c)' = Due(s, c) PROVE Promise(s, c)'
    BY <1>1, <2>4, <2>5 DEF hostVars, modelVars, Promise, StaleInside
  <2>6. CASE (\E v \in Calls : Call(s, v)) \/ ConnectFails(s)
    <3>1. UNCHANGED <<resync, typed>>
      BY <2>6 DEF Call, ConnectFails, ResyncOwed
    <3>2. phase[s] = "idle" /\ phase'[s] = "sending"
      BY <2>2, <2>6, Constants DEF Call, ConnectFails, ResyncOwed
    <3> QED BY <2>5, <3>1, <3>2 DEF Synced, Due
  <2>7. CASE Send(s)
    <3>1. /\ phase[s] = "sending" /\ phase'[s] \in {"resyncing", "waiting"}
          /\ UNCHANGED <<resync, typed, response>>
      BY <2>7 DEF Send, ClientWrite, workerVars
    <3>2. response[c] = "none"
      BY <2>2, <2>7 DEF Send, ClientWrite, Outstanding
    <3>3. phase'[s] = "waiting"
      BY <3>1, <3>2 DEF Synced
    <3> QED BY <2>5, <3>1, <3>2, <3>3 DEF Synced, Due
  <2>8. CASE Resynced(s) \/ Answered(s)
    <3>1. response[c] # "none"
      BY <2>2, <2>8 DEF Resynced, Answered, ClientRead, Delivered
    <3>2. CASE Resynced(s)
      <4>1. phase[s] = "resyncing" /\ phase'[s] = "sending" /\ typed'[s] = 0
        BY <3>2 DEF Resynced, CountTypes
      <4> QED BY <2>5, <3>1, <4>1 DEF Synced, Due
    <3>3. CASE Answered(s)
      <4>1. /\ phase[s] = "waiting" /\ phase'[s] = "idle"
            /\ typed'[s] = TypedAfter(s, c) /\ resync' = resync
        BY <2>2, <3>3 DEF Answered, Return, CountTypes
      <4> QED BY <2>5, <3>1, <4>1 DEF Synced, Due
    <3> QED BY <2>8, <3>2, <3>3
  <2>9. ~(Abandon(s) \/ Reactivate(s) \/ Leave(s))
    BY DEF Abandon, Reactivate, Leave
  <2> QED BY <1>3, <2>6, <2>7, <2>8, <2>9 DEF CallStep
<1> QED BY <1>2, <1>3

LEMMA AgreementNext ==
  ASSUME ClientInv, [ClientNext]_allVars  PROVE Agreement'
<1>1. CASE Host
  BY <1>1, HostKeepsAgreement
<1>2. ASSUME NEW s \in Session, CallStep(s) PROVE Agreement'
  <2>1. UNCHANGED <<hostVars, modelVars>>
    BY <1>2, CallFrame
  <2>2. ASSUME NEW other \in Session, pipe'[other] # Nobody
        PROVE  Agrees(other, pipe[other])'
    <3>1. CASE other = s
      BY <1>2, <2>2, <3>1, CallKeepsOwnAgreement
    <3>2. CASE other # s
      <4>1. /\ pipe'[other] = pipe[other] /\ phase'[other] = phase[other]
            /\ resync'[other] = resync[other] /\ typed'[other] = typed[other]
        BY <1>2, <3>2, CallFrame
      <4>2. PICK c \in Client : pipe[other] = c
        BY <2>2, <4>1 DEF ClientInv, CallTypes
      <4>3. response'[c] = response[c]
        BY <1>2, <3>2, <4>2, CallKeepsOthers
      <4>4. Agrees(other, c)
        BY <2>2, <4>1, <4>2 DEF ClientInv, Agreement
      <4>5. Agrees(other, c)'
        BY <2>1, <4>1, <4>3, <4>4
           DEF hostVars, modelVars, Agrees, Ending, Synced, StaleInside, Due,
               TypedAfter
      <4> QED BY <4>1, <4>2, <4>5
           DEF Agrees, Ending, Synced, StaleInside, Due, TypedAfter
    <3> QED BY <3>1, <3>2
  <2>3. \A t \in Session : engine'[t] # "composing" => held'[t] = 0
    BY <2>1 DEF hostVars, modelVars, ClientInv, Agreement
  <2> QED BY <2>2, <2>3 DEF Agreement
<1>3. CASE UNCHANGED allVars
  <2>1. Agreement
    BY DEF ClientInv
  <2> QED BY <1>3, <2>1
       DEF allVars, callVars, modelVars, vars, clientVars, workerVars,
           arbiterVars, engineVars, Agreement, Agrees, Ending, Synced,
           StaleInside, Due, TypedAfter
<1> QED BY <1>1, <1>2, <1>3 DEF ClientNext

-----------------------------------------------------------------------------
(* The theorems.                                                           *)

(* A text service starts without a connection and owing a resync.          *)
LEMMA ClientInvInit == ClientInit => ClientInv
<1> SUFFICES ASSUME ClientInit PROVE ClientInv
  OBVIOUS
<1> USE ClientConstants, Constants DEF ClientInit
<1>1. IInv
  BY IInvInit
<1>2. CallTypes /\ CountTypes
  BY DEF CallTypes, CountTypes, CallPhases
<1>3. CallsKnown /\ HandlesOpen /\ ResyncOwed /\ Lanes
  BY DEF CallsKnown, HandlesOpen, ResyncOwed, Lanes, LaneOf
<1>4. Unclaimed
  BY DEF Unclaimed, Init
<1>5. Agreement
  BY DEF Agreement
<1> QED BY <1>1, <1>2, <1>3, <1>4, <1>5 DEF ClientInv

(* Every call of a client and every step of the host preserves the         *)
(* combined invariant.                                                     *)
LEMMA ClientInvNext == ClientInv /\ [ClientNext]_allVars => ClientInv'
<1> SUFFICES ASSUME ClientInv, [ClientNext]_allVars PROVE ClientInv'
  OBVIOUS
<1>1. IInv'
  BY StepsAllowed, IInvNext DEF ClientInv
<1>2. CallTypes' /\ CountTypes' /\ CallsKnown'
  BY CallTypesNext, CountTypesNext, CallsKnownNext
<1>3. HandlesOpen' /\ Unclaimed' /\ ResyncOwed'
  BY HandlesNext, UnclaimedNext, ResyncOwedNext
<1>4. Lanes' /\ Agreement'
  BY LanesNext, AgreementNext
<1> QED BY <1>1, <1>2, <1>3, <1>4 DEF ClientInv

(* The combined invariant: whatever is timed out on, cancelled or          *)
(* reconnected, each connection carries its own client's request, and the  *)
(* engine's session holds what that client was shown or is about to be.    *)
THEOREM ClientInvariant == ClientSpec => []ClientInv
BY ClientInvInit, ClientInvNext, PTL DEF ClientSpec

(* The text services' EngineClient objects, whatever they time out on,     *)
(* cancel or reconnect, use the host exactly as EngineHost's clients may:  *)
(* every theorem about the host holds with them as its clients.            *)
THEOREM ClientsImplementHostProtocol == ClientSpec => Spec
<1>1. ClientInit => Init
  BY DEF ClientInit
<1>2. ClientInv /\ [ClientNext]_allVars => [Next]_vars
  BY StepsAllowed
<1> QED BY <1>1, <1>2, ClientInvariant, PTL DEF ClientSpec, Spec

(* A client never waits on a handle it has closed, never on another        *)
(* client's, and its counts stay in range.                                 *)
THEOREM ClientTypes == ClientSpec => []ClientTypeOK
<1>1. ClientInv => ClientTypeOK
  BY DEF ClientInv, CallTypes, CountTypes, HandlesOpen, ClientTypeOK
<1> QED BY <1>1, ClientInvariant, PTL

(* A request abandoned halfway, whether the child ran it or not, leaves no *)
(* key behind: after the resync RESET the client and the engine agree on   *)
(* the composition whenever no call is in progress.                        *)
THEOREM ResyncAgrees == ClientSpec => []ResyncRestoresAgreement
<1>1. ClientInv => ResyncRestoresAgreement
  <2> SUFFICES ASSUME ClientInv, NEW s \in Session,
                      phase[s] = "idle", pipe[s] # Nobody, ~resync[s], alive,
                      worker[pipe[s]] = "reading",
                      s \notin overtaken \cup hidden
               PROVE  held[s] = typed[s]
    BY DEF ResyncRestoresAgreement
  <2>1. Agrees(s, pipe[s])
    BY DEF ClientInv, Agreement
  <2>2. Due(s, pipe[s]) = typed[s]
    BY DueIs
  <2> QED BY <2>1, <2>2 DEF Agrees, Ending, Synced
<1> QED BY <1>1, ClientInvariant, PTL

(* Session ownership survives abandoned calls and reconnects.              *)
THEOREM ReconnectOwnership == ClientSpec => []SessionsAreOwned
BY ClientsImplementHostProtocol, SessionOwnership, PTL
=============================================================================
