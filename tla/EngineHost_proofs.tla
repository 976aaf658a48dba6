-------------------------- MODULE EngineHost_proofs --------------------------
(***************************************************************************)
(* Proofs about EngineHost, for every number of connections, every set of  *)
(* sessions and every traffic.                                             *)
(***************************************************************************)
EXTENDS EngineHostInv, TLAPS

(* Constants: the facts about client ids every proof below needs.          *)
LEMMA Constants ==
  /\ \A c \in Client : c \in Nat /\ c # Nobody /\ c # Collector
  /\ Collector # Nobody
  /\ Collector \notin Client /\ Nobody \notin Client
  /\ Session \cap Client = {}
  /\ Legacy \notin Session
  /\ MaxClient \in Nat \ {0}
  /\ Traffic \subseteq Request
BY HostAssumption DEF HostAssumption, Client, Nobody, Collector

(* An empty inbox is told apart from every request a client can write.     *)
LEMMA NoRequestIsNone == NoRequest \notin Request
BY DEF NoRequest, Request, Verbs

-----------------------------------------------------------------------------
(* TypeOK.                                                                 *)

(* The process starts in a well-typed state.                               *)
LEMMA TypeInit == Init => TypeOK
<1> SUFFICES ASSUME Init PROVE TypeOK
  OBVIOUS
<1>1. ConnectionTypes
  BY DEF Init, ConnectionTypes, WorkerPhases
<1>2. ArbiterTypes
  BY DEF Init, ArbiterTypes
<1>3. EngineTypes
  BY DEF Init, EngineTypes
<1>4. LoopTypes
  <2>1. 1 \in 1..(MaxClient + 1)
    BY Constants
  <2> QED BY <2>1 DEF Init, LoopTypes
<1> QED BY <1>1, <1>2, <1>3, <1>4 DEF TypeOK

(* A request that reached the lock is one the child executes.              *)
ForChild(r) == r \in Request /\ r.verb \notin {"PREVIEW", "SHUTDOWN"}

(* What the child does with a request that reached the lock, and what it   *)
(* can answer: a closed session is never reported in a STATE line.         *)
LEMMA ChildAnswers ==
  ASSUME EngineTypes, NEW r, ForChild(r),
         NEW mode \in EngineAfter(r), NEW reply \in EngineReplies(r, mode)
  PROVE  /\ r.scope \in Session \cup {Legacy}
         /\ mode \in {"none", "idle", "composing"}
         /\ reply \in {"idle", "composing", "ack"}
         /\ reply # "ack" => reply = mode
         /\ mode = "none" <=> r.verb = "CLOSE"
         /\ mode = "composing" =>
              r.verb = "KEY" \/ engine[r.scope] = mode
         /\ PlainReset(r) => mode = "idle"
<1>1. r.scope \in Session \cup {Legacy}
  BY DEF ForChild, Request
<1>2. r.verb \in {"KEY", "RESET", "SET", "QUERY", "CLOSE", "STATUS"}
  BY DEF ForChild, Request, Verbs
<1>3. engine[r.scope] \in {"none", "idle", "composing"}
  BY <1>1 DEF EngineTypes
<1>4. CASE r.verb = "KEY"
  BY <1>1, <1>4 DEF EngineAfter, EngineReplies, PlainReset
<1>5. CASE r.verb \in {"RESET", "SET"}
  BY <1>1, <1>5 DEF EngineAfter, EngineReplies, PlainReset
<1>6. CASE r.verb = "CLOSE"
  BY <1>1, <1>6 DEF EngineAfter, EngineReplies, PlainReset
<1>7. CASE r.verb \in {"QUERY", "STATUS"}
  BY <1>1, <1>3, <1>7 DEF EngineAfter, EngineReplies, PlainReset
<1> QED BY <1>2, <1>4, <1>5, <1>6, <1>7

(* A malformed CONVERT-KEYS reaches no record but the legacy session's,    *)
(* whose mode the host cannot know afterwards.                             *)
LEMMA ConversionTouchesLegacy ==
  ASSUME EngineTypes, NEW c \in Client, ConversionFails(c)
  PROVE  /\ Input(req[c])
         /\ EngineTypes'
         /\ \A s \in Session : engine'[s] = engine[s]
         /\ hidden \subseteq hidden' /\ hidden' \subseteq hidden \cup {Legacy}
         /\ engine' = engine \/ Legacy \in hidden'
<1>1. Legacy \notin Session
  BY Constants
<1>2. CASE UNCHANGED <<engine, hidden, typist>>
  BY <1>2 DEF ConversionFails, EngineTypes
<1>3. ASSUME NEW mode \in EngineAfter(req[c]),
             engine' = [engine EXCEPT ![Legacy] = mode],
             hidden' = hidden \cup {Legacy}, typist' = c
      PROVE  /\ EngineTypes'
             /\ \A s \in Session : engine'[s] = engine[s]
             /\ hidden' = hidden \cup {Legacy}
             /\ Legacy \in hidden'
  <2>1. mode \in {"idle", "composing"}
    BY <1>3 DEF ConversionFails, EngineAfter, Input
  <2> QED BY <1>1, <1>3, <2>1 DEF ConversionFails, EngineTypes
<1> QED BY <1>2, <1>3 DEF ConversionFails

(* The variables of the connections.                                       *)
LEMMA ConnectionTypesNext ==
  ASSUME TypeOK, RequestInHand, [Next]_vars  PROVE ConnectionTypes'
<1> USE DEF TypeOK, ConnectionTypes, vars, clientVars, workerVars
<1>1. CASE ClientConnect
  BY <1>1 DEF ClientConnect
<1>2. ASSUME NEW c \in Client, ClientStep(c) PROVE ConnectionTypes'
  BY <1>2, Constants DEF ClientStep, ClientWrite, ClientRead, ClientHangup
<1>3. ASSUME NEW c \in Client, WorkerStep(c) PROVE ConnectionTypes'
  <2>1. CASE Read(c)
    BY <2>1 DEF Read, WorkerPhases
  <2>2. CASE ReadFails(c)
    BY <2>2 DEF ReadFails, WorkerPhases
  <2>3. CASE Lock(c)
    BY <2>3 DEF Lock, WorkerPhases, Scoped
  <2>4. CASE TakeOver(c)
    BY <2>4 DEF TakeOver, WorkerPhases
  <2>5. CASE Dispatch(c)
    <3>1. ForChild(req[c])
      BY <2>5 DEF Dispatch, RequestInHand, Transacting, ForChild
    <3>2. PICK mode \in EngineAfter(req[c]) :
            \E reply \in EngineReplies(req[c], mode) :
              response' = [response EXCEPT ![c] = reply]
      BY <2>5 DEF Dispatch
    <3>3. PICK reply \in EngineReplies(req[c], mode) :
            response' = [response EXCEPT ![c] = reply]
      BY <3>2
    <3>4. reply \in {"idle", "composing", "ack"}
      BY <3>1, ChildAnswers
    <3> QED BY <2>5, <3>3, <3>4 DEF Dispatch, WorkerPhases
  <2>6. CASE DispatchFails(c) \/ ConversionFails(c)
    BY <2>6 DEF DispatchFails, ConversionFails, WorkerPhases
  <2>7. CASE Reply(c)
    BY <2>7 DEF Reply, WorkerPhases
  <2>8. CASE Cleanup(c)
    BY <2>8 DEF Cleanup, WorkerPhases
  <2> QED BY <1>3, <2>1, <2>2, <2>3, <2>4, <2>5, <2>6, <2>7, <2>8
      DEF WorkerStep
<1>4. CASE GcStep
  BY <1>4 DEF GcStep, GcTick, GcEnter, GcStart, GcCollected, GcCompacted
<1>5. CASE MainStep
  BY <1>5 DEF MainStep, TestStopping, ConnectNamedPipe, Accept, Spawn,
     StopChild, Exit, WorkerPhases
<1>6. CASE IdleElapses \/ ChildExit
  BY <1>6 DEF IdleElapses, ChildExit
<1>7. CASE \E w \in Client \cup {Collector} : Wake(w)
  BY <1>7 DEF Wake
<1>8. CASE UNCHANGED vars
  BY <1>8
<1> QED BY <1>1, <1>2, <1>3, <1>4, <1>5, <1>6, <1>7, <1>8 DEF Next, HostStep

(* The variables behind g_engine_mutex.                                    *)
LEMMA ArbiterTypesNext ==
  ASSUME TypeOK, RequestInHand, [Next]_vars  PROVE ArbiterTypes'
<1> USE DEF TypeOK, ArbiterTypes, vars, arbiterVars
<1>1. ASSUME NEW c \in Client, WorkerStep(c) PROVE ArbiterTypes'
  <2>1. CASE Read(c) \/ ReadFails(c) \/ Reply(c) \/ DispatchFails(c) \/ ConversionFails(c)
    BY <2>1 DEF Read, ReadFails, Reply, DispatchFails, ConversionFails
  <2>2. CASE Lock(c)
    BY <2>2 DEF Lock, Scoped
  <2>3. CASE TakeOver(c)
    BY <2>3 DEF TakeOver
  <2>4. CASE Dispatch(c)
    <3>1. composing' \subseteq Session \cup Client
      BY <2>4 DEF Dispatch, Published, StateOwner, Scoped
    <3>2. composingFlag' \in BOOLEAN
      BY <2>4 DEF Dispatch
    <3>3. owners' \in [Session -> {Nobody} \cup Client]
      BY <2>4 DEF Dispatch
    <3> QED BY <2>4, <3>1, <3>2, <3>3 DEF Dispatch
  <2>5. CASE Cleanup(c)
    <3>1. composingFlag' \in BOOLEAN
      BY <2>5 DEF Cleanup
    <3> QED BY <2>5, <3>1 DEF Cleanup
  <2> QED BY <1>1, <2>1, <2>2, <2>3, <2>4, <2>5 DEF WorkerStep
<1>2. CASE GcStep
  BY <1>2 DEF GcStep, GcTick, GcEnter, GcStart, GcCollected, GcCompacted
<1>3. CASE ClientConnect \/ \E c \in Client : ClientStep(c)
  BY <1>3 DEF ClientConnect, ClientStep, ClientWrite, ClientRead, ClientHangup
<1>4. CASE MainStep
  BY <1>4 DEF MainStep, TestStopping, ConnectNamedPipe, Accept, Spawn,
     StopChild, Exit
<1>5. CASE IdleElapses \/ ChildExit
  BY <1>5 DEF IdleElapses, ChildExit
<1>6. CASE \E w \in Client \cup {Collector} : Wake(w)
  BY <1>6 DEF Wake
<1>7. CASE UNCHANGED vars
  BY <1>7
<1> QED BY <1>1, <1>2, <1>3, <1>4, <1>5, <1>6, <1>7 DEF Next, HostStep

(* What the host can observe of the child.                                 *)
LEMMA EngineTypesNext ==
  ASSUME TypeOK, RequestInHand, [Next]_vars  PROVE EngineTypes'
<1> USE DEF TypeOK, EngineTypes, vars, engineVars
<1>1. ASSUME NEW c \in Client, WorkerStep(c) PROVE EngineTypes'
  <2>1. CASE Read(c) \/ ReadFails(c) \/ Lock(c) \/ Reply(c) \/ DispatchFails(c)
    BY <2>1 DEF Read, ReadFails, Lock, Reply, DispatchFails
  <2>2. CASE TakeOver(c)
    BY <2>2 DEF TakeOver
  <2>3. CASE Dispatch(c)
    <3>1. ForChild(req[c])
      BY <2>3 DEF Dispatch, RequestInHand, Transacting, ForChild
    <3>2. PICK mode \in EngineAfter(req[c]) :
            \E reply \in EngineReplies(req[c], mode) :
              /\ engine' = [engine EXCEPT ![req[c].scope] = mode]
              /\ hidden' = Unreported(c, req[c], reply)
      BY <2>3 DEF Dispatch
    <3>3. /\ req[c].scope \in Session \cup {Legacy}
          /\ mode \in {"none", "idle", "composing"}
      BY <3>1, <3>2, ChildAnswers
    <3>4. hidden' \subseteq Session \cup {Legacy}
      BY <3>2, <3>3 DEF Unreported
    <3> QED BY <2>3, <3>2, <3>3, <3>4 DEF Dispatch
  <2>4. CASE Cleanup(c)
    BY <2>4 DEF Cleanup
  <2>5. CASE ConversionFails(c)
    BY <2>5, ConversionTouchesLegacy
  <2> QED BY <1>1, <2>1, <2>2, <2>3, <2>4, <2>5 DEF WorkerStep
<1>2. CASE GcStep
  BY <1>2 DEF GcStep, GcTick, GcEnter, GcStart, GcCollected, GcCompacted
<1>3. CASE ClientConnect \/ \E c \in Client : ClientStep(c)
  BY <1>3 DEF ClientConnect, ClientStep, ClientWrite, ClientRead, ClientHangup
<1>4. CASE MainStep
  BY <1>4 DEF MainStep, TestStopping, ConnectNamedPipe, Accept, Spawn,
     StopChild, Exit
<1>5. CASE IdleElapses \/ ChildExit
  BY <1>5 DEF IdleElapses, ChildExit
<1>6. CASE \E w \in Client \cup {Collector} : Wake(w)
  BY <1>6 DEF Wake
<1>7. CASE UNCHANGED vars
  BY <1>7
<1> QED BY <1>1, <1>2, <1>3, <1>4, <1>5, <1>6, <1>7 DEF Next, HostStep

(* The stop flag, the collector and the accept loop.                       *)
LEMMA LoopTypesNext ==
  ASSUME TypeOK, SpareInstance, [Next]_vars  PROVE LoopTypes'
<1> USE DEF TypeOK, LoopTypes, vars, gcVars, stopVars, mainVars
<1>1. ASSUME NEW c \in Client, WorkerStep(c) PROVE LoopTypes'
  <2>1. CASE Read(c) \/ ReadFails(c) \/ Lock(c)
    BY <2>1 DEF Read, ReadFails, Lock
  <2>2. CASE TakeOver(c) \/ Dispatch(c) \/ DispatchFails(c) \/ ConversionFails(c)
    BY <2>2 DEF TakeOver, Dispatch, DispatchFails, ConversionFails
  <2>3. CASE Reply(c)
    BY <2>3 DEF Reply, RequestStop
  <2>4. CASE Cleanup(c)
    BY <2>4 DEF Cleanup, RequestStop
  <2> QED BY <1>1, <2>1, <2>2, <2>3, <2>4 DEF WorkerStep
<1>2. CASE GcStep
  BY <1>2 DEF GcStep, GcTick, GcEnter, GcStart, GcCollected, GcCompacted, RequestStop
<1>3. CASE ClientConnect
  BY <1>3 DEF ClientConnect
<1>4. CASE \E c \in Client : ClientStep(c)
  BY <1>4 DEF ClientStep, ClientWrite, ClientRead, ClientHangup
<1>5. CASE Spawn
  <2>1. nextId' \in 1..(MaxClient + 1)
    BY <1>5, Constants DEF Spawn, SpareInstance
  <2> QED BY <1>5, <2>1 DEF Spawn
<1>6. CASE TestStopping \/ ConnectNamedPipe \/ Accept \/ StopChild \/ Exit
  BY <1>6 DEF TestStopping, ConnectNamedPipe, Accept, StopChild, Exit
<1>7. CASE IdleElapses \/ ChildExit
  BY <1>7 DEF IdleElapses, ChildExit
<1>8. CASE \E w \in Client \cup {Collector} : Wake(w)
  BY <1>8 DEF Wake
<1>9. CASE UNCHANGED vars
  BY <1>9
<1> QED BY <1>1, <1>2, <1>3, <1>4, <1>5, <1>6, <1>7, <1>8, <1>9
    DEF Next, HostStep, MainStep

-----------------------------------------------------------------------------
(* The lock and the threads.                                               *)

(* The worker that wmain starts is a new one.                              *)
LEMMA SpawnsUnborn ==
  ASSUME TypeOK, WorkersAccepted, SpareInstance, Spawn
  PROVE  nextId \in Client /\ worker[nextId] = "unborn"
<1>1. nextId \in Client
  BY Constants DEF Spawn, SpareInstance, TypeOK, LoopTypes, Client
<1>2. worker[nextId] = "unborn"
  BY <1>1, Constants DEF WorkersAccepted
<1> QED BY <1>1, <1>2

(* Every thread that enters a transaction takes the free mutex, and every  *)
(* way out of one gives it back.                                           *)
LEMMA MutexHeldNext ==
  ASSUME TypeOK, MutexHeld, WorkersAccepted, SpareInstance, [Next]_vars
  PROVE  MutexHeld'
<1> USE Constants DEF TypeOK, ConnectionTypes, ArbiterTypes, MutexHeld, vars
<1>1. ASSUME NEW c \in Client, WorkerStep(c) PROVE MutexHeld'
  <2> USE DEF gcVars
  <2>1. CASE Read(c) \/ ReadFails(c) \/ Reply(c)
    BY <2>1 DEF Read, ReadFails, Reply
  <2>2. CASE Lock(c)
    BY <2>2 DEF Lock
  <2>3. CASE TakeOver(c)
    BY <2>3 DEF TakeOver
  <2>4. CASE Dispatch(c)
    BY <2>4 DEF Dispatch
  <2>5. CASE DispatchFails(c) \/ ConversionFails(c)
    BY <2>5 DEF DispatchFails, ConversionFails
  <2>6. CASE Cleanup(c)
    BY <2>6 DEF Cleanup
  <2> QED BY <1>1, <2>1, <2>2, <2>3, <2>4, <2>5, <2>6 DEF WorkerStep
<1>2. CASE GcStep
  BY <1>2 DEF GcStep, GcTick, GcEnter, GcStart, GcCollected, GcCompacted, workerVars
<1>3. CASE ClientConnect \/ \E c \in Client : ClientStep(c)
  BY <1>3 DEF ClientConnect, ClientStep, ClientWrite, ClientRead,
     ClientHangup, workerVars, gcVars
<1>4. CASE Spawn
  BY <1>4, SpawnsUnborn DEF Spawn, gcVars
<1>5. CASE TestStopping \/ ConnectNamedPipe \/ Accept \/ StopChild \/ Exit
  BY <1>5 DEF TestStopping, ConnectNamedPipe, Accept, StopChild, Exit,
     workerVars, gcVars
<1>6. CASE IdleElapses \/ ChildExit
  BY <1>6 DEF IdleElapses, ChildExit, workerVars, gcVars
<1>7. CASE \E w \in Client \cup {Collector} : Wake(w)
  BY <1>7 DEF Wake, workerVars, gcVars
<1>8. CASE UNCHANGED vars
  BY <1>8 DEF workerVars, gcVars
<1> QED BY <1>1, <1>2, <1>3, <1>4, <1>5, <1>6, <1>7, <1>8
    DEF Next, HostStep, MainStep

(* SHUTDOWN and PREVIEW are answered before the lock.                      *)
LEMMA RequestInHandNext ==
  ASSUME TypeOK, RequestInHand, [Next]_vars  PROVE RequestInHand'
<1> USE DEF TypeOK, ConnectionTypes, RequestInHand, Transacting, vars
<1>1. ASSUME NEW c \in Client, WorkerStep(c) PROVE RequestInHand'
  <2>1. CASE Read(c)
    BY <2>1, NoRequestIsNone DEF Read
  <2>2. CASE Lock(c)
    BY <2>2 DEF Lock, TakesOver, Input, Scoped
  <2>3. CASE ReadFails(c) \/ TakeOver(c) \/ DispatchFails(c) \/ ConversionFails(c)
    BY <2>3 DEF ReadFails, TakeOver, DispatchFails, ConversionFails, Input, Scoped
  <2>4. CASE Dispatch(c)
    BY <2>4 DEF Dispatch, Input, Scoped
  <2>5. CASE Reply(c) \/ Cleanup(c)
    BY <2>5 DEF Reply, Cleanup, Input, Scoped
  <2> QED BY <1>1, <2>1, <2>2, <2>3, <2>4, <2>5 DEF WorkerStep
<1>2. CASE GcStep
  BY <1>2 DEF GcStep, GcTick, GcEnter, GcStart, GcCollected, GcCompacted, workerVars,
     Input, Scoped
<1>3. CASE ClientConnect \/ \E c \in Client : ClientStep(c)
  BY <1>3 DEF ClientConnect, ClientStep, ClientWrite, ClientRead,
     ClientHangup, workerVars, Input, Scoped
<1>4. CASE Spawn
  BY <1>4 DEF Spawn, Input, Scoped
<1>5. CASE TestStopping \/ ConnectNamedPipe \/ Accept \/ StopChild \/ Exit
  BY <1>5 DEF TestStopping, ConnectNamedPipe, Accept, StopChild, Exit,
     workerVars, Input, Scoped
<1>6. CASE IdleElapses \/ ChildExit
  BY <1>6 DEF IdleElapses, ChildExit, workerVars, Input, Scoped
<1>7. CASE \E w \in Client \cup {Collector} : Wake(w)
  BY <1>7 DEF Wake, workerVars, Input, Scoped
<1>8. CASE UNCHANGED vars
  BY <1>8 DEF workerVars, Input, Scoped
<1> QED BY <1>1, <1>2, <1>3, <1>4, <1>5, <1>6, <1>7, <1>8
    DEF Next, HostStep, MainStep

(* A worker is born when its connection is accepted, and never again.      *)
LEMMA WorkersAcceptedNext ==
  ASSUME TypeOK, WorkersAccepted, [Next]_vars  PROVE WorkersAccepted'
<1> USE Constants DEF TypeOK, ConnectionTypes, LoopTypes, WorkersAccepted, vars
<1>1. ASSUME NEW c \in Client, WorkerStep(c) PROVE WorkersAccepted'
  <2> USE DEF mainVars
  <2>1. CASE Read(c) \/ ReadFails(c) \/ Reply(c) \/ Cleanup(c)
    BY <2>1 DEF Read, ReadFails, Reply, Cleanup
  <2>2. CASE Lock(c)
    BY <2>2 DEF Lock
  <2>3. CASE TakeOver(c) \/ DispatchFails(c) \/ ConversionFails(c)
    BY <2>3 DEF TakeOver, DispatchFails, ConversionFails
  <2>4. CASE Dispatch(c)
    BY <2>4 DEF Dispatch
  <2> QED BY <1>1, <2>1, <2>2, <2>3, <2>4 DEF WorkerStep
<1>2. CASE GcStep
  BY <1>2 DEF GcStep, GcTick, GcEnter, GcStart, GcCollected, GcCompacted, workerVars,
     mainVars
<1>3. CASE ClientConnect \/ \E c \in Client : ClientStep(c)
  BY <1>3 DEF ClientConnect, ClientStep, ClientWrite, ClientRead,
     ClientHangup, workerVars, mainVars
<1>4. CASE Spawn
  BY <1>4 DEF Spawn
<1>5. CASE TestStopping \/ ConnectNamedPipe \/ Accept \/ StopChild \/ Exit
  BY <1>5 DEF TestStopping, ConnectNamedPipe, Accept, StopChild, Exit,
     workerVars
<1>6. CASE IdleElapses \/ ChildExit
  BY <1>6 DEF IdleElapses, ChildExit, workerVars, mainVars
<1>7. CASE \E w \in Client \cup {Collector} : Wake(w)
  BY <1>7 DEF Wake, workerVars
<1>8. CASE UNCHANGED vars
  BY <1>8 DEF workerVars, mainVars
<1> QED BY <1>1, <1>2, <1>3, <1>4, <1>5, <1>6, <1>7, <1>8
    DEF Next, HostStep, MainStep

(* wmain and the spare instance: RequestStop raises the flag before its    *)
(* connect, and only a client's connection is handed to a worker.          *)
LEMMA SpareInstanceNext ==
  ASSUME TypeOK, SpareInstance, [Next]_vars  PROVE SpareInstance'
<1> USE DEF TypeOK, LoopTypes, SpareInstance, vars, stopVars, mainVars
<1>1. ASSUME NEW c \in Client, WorkerStep(c) PROVE SpareInstance'
  <2>1. CASE Read(c) \/ ReadFails(c) \/ Lock(c)
    BY <2>1 DEF Read, ReadFails, Lock
  <2>2. CASE TakeOver(c) \/ Dispatch(c) \/ DispatchFails(c) \/ ConversionFails(c)
    BY <2>2 DEF TakeOver, Dispatch, DispatchFails, ConversionFails
  <2>3. CASE Reply(c)
    BY <2>3 DEF Reply, RequestStop
  <2>4. CASE Cleanup(c)
    BY <2>4 DEF Cleanup, RequestStop
  <2> QED BY <1>1, <2>1, <2>2, <2>3, <2>4 DEF WorkerStep
<1>2. CASE GcStep
  BY <1>2 DEF GcStep, GcTick, GcEnter, GcStart, GcCollected, GcCompacted, RequestStop
<1>3. CASE ClientConnect
  BY <1>3 DEF ClientConnect
<1>4. CASE \E c \in Client : ClientStep(c)
  BY <1>4 DEF ClientStep, ClientWrite, ClientRead, ClientHangup
<1>5. CASE MainStep
  BY <1>5 DEF MainStep, TestStopping, ConnectNamedPipe, Accept, Spawn,
     StopChild, Exit
<1>6. CASE IdleElapses \/ ChildExit
  BY <1>6 DEF IdleElapses, ChildExit
<1>7. CASE \E w \in Client \cup {Collector} : Wake(w)
  BY <1>7 DEF Wake
<1>8. CASE UNCHANGED vars
  BY <1>8
<1> QED BY <1>1, <1>2, <1>3, <1>4, <1>5, <1>6, <1>7, <1>8
    DEF Next, HostStep

(* The last connect of a stopping host finds the instance wmain waits on,  *)
(* or wmain is past the wait.                                              *)
LEMMA NoLostWakeupNext ==
  ASSUME TypeOK, SpareInstance, NoLostWakeup, [Next]_vars
  PROVE  NoLostWakeup'
<1> USE DEF TypeOK, LoopTypes, SpareInstance, NoLostWakeup, vars, stopVars,
        mainVars
<1>1. ASSUME NEW c \in Client, WorkerStep(c) PROVE NoLostWakeup'
  <2>1. CASE Read(c) \/ ReadFails(c) \/ Lock(c)
    BY <2>1 DEF Read, ReadFails, Lock
  <2>2. CASE TakeOver(c) \/ Dispatch(c) \/ DispatchFails(c) \/ ConversionFails(c)
    BY <2>2 DEF TakeOver, Dispatch, DispatchFails, ConversionFails
  <2>3. CASE Reply(c)
    BY <2>3 DEF Reply, RequestStop
  <2>4. CASE Cleanup(c)
    BY <2>4 DEF Cleanup, RequestStop
  <2> QED BY <1>1, <2>1, <2>2, <2>3, <2>4 DEF WorkerStep
<1>2. CASE GcStep
  BY <1>2 DEF GcStep, GcTick, GcEnter, GcStart, GcCollected, GcCompacted, RequestStop
<1>3. CASE ClientConnect
  BY <1>3 DEF ClientConnect
<1>4. CASE \E c \in Client : ClientStep(c)
  BY <1>4 DEF ClientStep, ClientWrite, ClientRead, ClientHangup
<1>5. CASE MainStep
  BY <1>5 DEF MainStep, TestStopping, ConnectNamedPipe, Accept, Spawn,
     StopChild, Exit
<1>6. CASE IdleElapses \/ ChildExit
  BY <1>6 DEF IdleElapses, ChildExit
<1>7. CASE \E w \in Client \cup {Collector} : Wake(w)
  BY <1>7 DEF Wake
<1>8. CASE UNCHANGED vars
  BY <1>8
<1> QED BY <1>1, <1>2, <1>3, <1>4, <1>5, <1>6, <1>7, <1>8
    DEF Next, HostStep

-----------------------------------------------------------------------------
(* Sessions.                                                               *)

(* The worker inside a transaction is unique.                              *)
LEMMA OneTransaction ==
  ASSUME TypeOK, MutexHeld, NEW c \in Client,
         worker[c] \in {"resetting", "dispatching"}
  PROVE  \A d \in Client :
           worker[d] \in {"resetting", "dispatching"} <=> d = c
BY DEF MutexHeld

(* A worker leaves only after giving up every session it owns.             *)
LEMMA OwnerServesNext ==
  ASSUME TypeOK, WorkersAccepted, SpareInstance, OwnerServes, [Next]_vars
  PROVE  OwnerServes'
<1> USE Constants
    DEF TypeOK, ConnectionTypes, ArbiterTypes, OwnerServes, vars
<1>1. ASSUME NEW c \in Client, WorkerStep(c) PROVE OwnerServes'
  <2> USE DEF arbiterVars
  <2>1. CASE Read(c) \/ ReadFails(c) \/ Reply(c)
    BY <2>1 DEF Read, ReadFails, Reply
  <2>2. CASE Lock(c)
    BY <2>2 DEF Lock, Scoped
  <2>3. CASE TakeOver(c) \/ DispatchFails(c) \/ ConversionFails(c)
    BY <2>3 DEF TakeOver, DispatchFails, ConversionFails
  <2>4. CASE Dispatch(c)
    BY <2>4 DEF Dispatch
  <2>5. CASE Cleanup(c)
    BY <2>5 DEF Cleanup, OwnedBy
  <2> QED BY <1>1, <2>1, <2>2, <2>3, <2>4, <2>5 DEF WorkerStep
<1> USE DEF workerVars, arbiterVars
<1>2. CASE GcStep
  BY <1>2 DEF GcStep, GcTick, GcEnter, GcStart, GcCollected, GcCompacted
<1>3. CASE ClientConnect \/ \E c \in Client : ClientStep(c)
  BY <1>3 DEF ClientConnect, ClientStep, ClientWrite, ClientRead, ClientHangup
<1>4. CASE Spawn
  BY <1>4, SpawnsUnborn DEF Spawn
<1>5. CASE TestStopping \/ ConnectNamedPipe \/ Accept \/ StopChild \/ Exit
  BY <1>5 DEF TestStopping, ConnectNamedPipe, Accept, StopChild, Exit
<1>6. CASE IdleElapses \/ ChildExit
  BY <1>6 DEF IdleElapses, ChildExit
<1>7. CASE \E w \in Client \cup {Collector} : Wake(w)
  BY <1>7 DEF Wake
<1>8. CASE UNCHANGED vars
  BY <1>8
<1> QED BY <1>1, <1>2, <1>3, <1>4, <1>5, <1>6, <1>7, <1>8
    DEF Next, HostStep, MainStep

(* Nobody can take a session over during a transaction about it.           *)
LEMMA DispatcherOwnsNext ==
  ASSUME TypeOK, MutexHeld, RequestInHand, DispatcherOwns, WorkersAccepted,
         SpareInstance, [Next]_vars
  PROVE  DispatcherOwns'
<1> USE Constants
    DEF TypeOK, ConnectionTypes, ArbiterTypes, DispatcherOwns, Scoped, vars
<1>1. ASSUME NEW c \in Client, WorkerStep(c) PROVE DispatcherOwns'
  <2> USE DEF arbiterVars
  <2>1. CASE Read(c) \/ ReadFails(c) \/ Reply(c)
    BY <2>1 DEF Read, ReadFails, Reply
  <2>2. CASE Lock(c)
    BY <2>2 DEF Lock, MutexHeld
  <2>3. CASE TakeOver(c)
    BY <2>3 DEF TakeOver, RequestInHand, Input
  <2>4. CASE DispatchFails(c) \/ ConversionFails(c)
    BY <2>4 DEF DispatchFails, ConversionFails
  <2>5. CASE Dispatch(c)
    BY <2>5, OneTransaction DEF Dispatch
  <2>6. CASE Cleanup(c)
    BY <2>6 DEF Cleanup, MutexHeld
  <2> QED BY <1>1, <2>1, <2>2, <2>3, <2>4, <2>5, <2>6 DEF WorkerStep
<1> USE DEF workerVars, arbiterVars
<1>2. CASE GcStep
  BY <1>2 DEF GcStep, GcTick, GcEnter, GcStart, GcCollected, GcCompacted
<1>3. CASE ClientConnect \/ \E c \in Client : ClientStep(c)
  BY <1>3 DEF ClientConnect, ClientStep, ClientWrite, ClientRead, ClientHangup
<1>4. CASE Spawn
  BY <1>4, SpawnsUnborn DEF Spawn
<1>5. CASE TestStopping \/ ConnectNamedPipe \/ Accept \/ StopChild \/ Exit
  BY <1>5 DEF TestStopping, ConnectNamedPipe, Accept, StopChild, Exit
<1>6. CASE IdleElapses \/ ChildExit
  BY <1>6 DEF IdleElapses, ChildExit
<1>7. CASE \E w \in Client \cup {Collector} : Wake(w)
  BY <1>7 DEF Wake
<1>8. CASE UNCHANGED vars
  BY <1>8
<1> QED BY <1>1, <1>2, <1>3, <1>4, <1>5, <1>6, <1>7, <1>8
    DEF Next, HostStep, MainStep

(* The child's records follow g_session_owners: a record without an owner  *)
(* is never left behind, an owner without a record only until the child    *)
(* has answered.                                                           *)
LEMMA RecordsOwnedNext ==
  ASSUME TypeOK, MutexHeld, RequestInHand, WorkersAccepted, SpareInstance,
         OwnerServes, DispatcherOwns, RecordsOwned, [Next]_vars
  PROVE  RecordsOwned'
<1> USE Constants
    DEF TypeOK, ConnectionTypes, ArbiterTypes, EngineTypes, RecordsOwned,
        InProgress, vars
<1>1. ASSUME NEW c \in Client, WorkerStep(c) PROVE RecordsOwned'
  <2> USE DEF arbiterVars, engineVars
  <2>1. CASE Read(c) \/ ReadFails(c) \/ Reply(c)
    <3>1. \A d \in Client : worker[d] = "dispatching" =>
            d # c /\ worker'[d] = "dispatching" /\ req'[d] = req[d]
      BY <2>1 DEF Read, ReadFails, Reply
    <3>2. UNCHANGED <<mutex, owners, engine, alive>>
      BY <2>1 DEF Read, ReadFails, Reply
    <3>3. \A s \in Session : InProgress(s) => InProgress(s)'
      BY <3>1, <3>2
    <3> QED BY <3>2, <3>3
  <2>2. CASE Lock(c)
    <3>1. CASE Scoped(req[c])
      BY <2>2, <3>1 DEF Lock, Scoped, Refused, PlainReset, TakesOver, Input
    <3>2. CASE ~Scoped(req[c])
      BY <2>2, <3>2 DEF Lock
    <3> QED BY <3>1, <3>2
  <2>3. CASE TakeOver(c)
    BY <2>3 DEF TakeOver
  <2>4. CASE DispatchFails(c)
    BY <2>4 DEF DispatchFails
  <2>5. CASE Dispatch(c)
    <3>1. ForChild(req[c])
      BY <2>5 DEF Dispatch, RequestInHand, Transacting, ForChild
    <3>2. PICK mode \in EngineAfter(req[c]) :
            \E reply \in EngineReplies(req[c], mode) :
              engine' = [engine EXCEPT ![req[c].scope] = mode]
      BY <2>5 DEF Dispatch
    <3>3. /\ mode = "none" <=> req[c].verb = "CLOSE"
          /\ req[c].scope \in Session \cup {Legacy}
      BY <3>1, <3>2, ChildAnswers
    <3>4. \A d \in Client : worker'[d] # "dispatching"
      BY <2>5, OneTransaction DEF Dispatch
    <3>5. \A s \in Session : InProgress(s) => s = req[c].scope
      BY <2>5, OneTransaction DEF Dispatch
    <3>6. \A s \in Session : s # req[c].scope =>
            engine'[s] = engine[s] /\ owners'[s] = owners[s]
      BY <2>5, <3>2 DEF Dispatch
    <3>7. Scoped(req[c]) =>
            (engine'[req[c].scope] = "none" <=> owners'[req[c].scope] = Nobody)
      BY <2>5, <3>2, <3>3 DEF Dispatch, DispatcherOwns, Closes, Scoped
    <3>8. \A s \in Session : engine'[s] # "none" <=> owners'[s] # Nobody
      BY <2>5, <3>5, <3>6, <3>7 DEF Dispatch, Scoped
    <3> QED BY <3>8
  <2>6. CASE Cleanup(c)
    BY <2>6 DEF Cleanup, OwnedBy, OwnerServes, MutexHeld
  <2>7. CASE ConversionFails(c)
    <3>1. /\ UNCHANGED <<owners, alive>>
          /\ \A s \in Session : engine'[s] = engine[s]
      BY <2>7, ConversionTouchesLegacy DEF ConversionFails
    <3>2. \A s \in Session : ~InProgress(s)
      BY <2>7, OneTransaction, ConversionTouchesLegacy
      DEF ConversionFails, Input, Scoped
    <3> QED BY <3>1, <3>2
  <2> QED BY <1>1, <2>1, <2>2, <2>3, <2>4, <2>5,
     <2>6, <2>7 DEF WorkerStep
<1>2. CASE GcStep
  <2>1. UNCHANGED <<worker, req, owners, engine, alive>>
    BY <1>2 DEF GcStep, GcTick, GcEnter, GcStart, GcCollected, GcCompacted,
       workerVars, arbiterVars, engineVars
  <2>2. mutex \in Client => mutex' = mutex
    BY <1>2 DEF GcStep, GcTick, GcEnter, GcStart, GcCollected, GcCompacted, MutexHeld
  <2>3. \A s \in Session : InProgress(s) => InProgress(s)'
    BY <2>1, <2>2
  <2> QED BY <2>1, <2>3
<1>3. CASE ClientConnect \/ \E c \in Client : ClientStep(c)
  BY <1>3 DEF ClientConnect, ClientStep, ClientWrite, ClientRead,
     ClientHangup, workerVars, arbiterVars, engineVars
<1>4. CASE Spawn
  BY <1>4, SpawnsUnborn DEF Spawn, arbiterVars, engineVars
<1>5. CASE StopChild \/ ChildExit
  BY <1>5 DEF StopChild, ChildExit
<1>6. CASE TestStopping \/ ConnectNamedPipe \/ Accept \/ Exit
  <2>1. UNCHANGED <<worker, req, mutex, owners, engine, alive>>
    BY <1>6 DEF TestStopping, ConnectNamedPipe, Accept, Exit, workerVars,
       arbiterVars, engineVars
  <2> QED BY <2>1
<1>7. CASE IdleElapses \/ \E w \in Client \cup {Collector} : Wake(w)
  BY <1>7 DEF IdleElapses, Wake, workerVars, arbiterVars, engineVars
<1>8. CASE UNCHANGED vars
  BY <1>8 DEF workerVars, arbiterVars, engineVars
<1> QED BY <1>1, <1>2, <1>3, <1>4, <1>5, <1>6, <1>7, <1>8
    DEF Next, HostStep, MainStep

-----------------------------------------------------------------------------
(* The collector's tests.                                                  *)

(* The tick stays fresh from ReadFile to the end of the transaction.       *)
LEMMA WaitingIsFreshNext ==
  ASSUME TypeOK, WaitingIsFresh, [Next]_vars  PROVE WaitingIsFresh'
<1> USE Constants
    DEF TypeOK, ConnectionTypes, WaitingIsFresh, Transacting, vars
<1>1. ASSUME NEW c \in Client, WorkerStep(c) PROVE WaitingIsFresh'
  <2> USE DEF gcVars
  <2>1. CASE Read(c)
    BY <2>1 DEF Read
  <2>2. CASE ReadFails(c) \/ Reply(c) \/ Cleanup(c)
    BY <2>2 DEF ReadFails, Reply, Cleanup
  <2>3. CASE Lock(c)
    BY <2>3 DEF Lock
  <2>4. CASE TakeOver(c) \/ DispatchFails(c) \/ ConversionFails(c)
    BY <2>4 DEF TakeOver, DispatchFails, ConversionFails
  <2>5. CASE Dispatch(c)
    BY <2>5 DEF Dispatch
  <2> QED BY <1>1, <2>1, <2>2, <2>3, <2>4, <2>5 DEF WorkerStep
<1>2. CASE GcStep
  BY <1>2 DEF GcStep, GcTick, GcEnter, GcStart, GcCollected, GcCompacted, workerVars
<1>3. CASE ClientConnect \/ \E c \in Client : ClientStep(c)
  BY <1>3 DEF ClientConnect, ClientStep, ClientWrite, ClientRead,
     ClientHangup, workerVars, gcVars
<1>4. CASE Spawn
  BY <1>4 DEF Spawn, gcVars
<1>5. CASE TestStopping \/ ConnectNamedPipe \/ Accept \/ StopChild \/ Exit
  BY <1>5 DEF TestStopping, ConnectNamedPipe, Accept, StopChild, Exit,
     workerVars, gcVars
<1>6. CASE IdleElapses \/ ChildExit
  BY <1>6 DEF IdleElapses, ChildExit, workerVars, gcVars
<1>7. CASE \E w \in Client \cup {Collector} : Wake(w)
  BY <1>7 DEF Wake, workerVars, gcVars
<1>8. CASE UNCHANGED vars
  BY <1>8 DEF workerVars, gcVars
<1> QED BY <1>1, <1>2, <1>3, <1>4, <1>5, <1>6, <1>7, <1>8
    DEF Next, HostStep, MainStep

(* The reply to a transaction and what it leaves behind, in one place.     *)
LEMMA DispatchEffect ==
  ASSUME TypeOK, MutexHeld, RequestInHand, NEW c \in Client, Dispatch(c)
  PROVE  \E mode \in {"none", "idle", "composing"},
            reply \in {"idle", "composing", "ack"} :
           /\ ForChild(req[c])
           /\ engine' = [engine EXCEPT ![req[c].scope] = mode]
           /\ hidden' = Unreported(c, req[c], reply)
           /\ composing' = Published(c, req[c], reply) \
                             (IF Closes(c, req[c]) THEN {req[c].scope} ELSE {})
           /\ reply # "ack" => reply = mode
           /\ mode = "none" <=> req[c].verb = "CLOSE"
           /\ mode = "composing" =>
                req[c].verb = "KEY" \/ engine[req[c].scope] = mode
           /\ PlainReset(req[c]) => mode = "idle"
<1>1. ForChild(req[c])
  BY DEF Dispatch, RequestInHand, Transacting, ForChild
<1>2. PICK mode \in EngineAfter(req[c]) :
        \E reply \in EngineReplies(req[c], mode) :
          /\ engine' = [engine EXCEPT ![req[c].scope] = mode]
          /\ hidden' = Unreported(c, req[c], reply)
          /\ composing' = Published(c, req[c], reply) \
                            (IF Closes(c, req[c]) THEN {req[c].scope} ELSE {})
  BY DEF Dispatch
<1>3. PICK reply \in EngineReplies(req[c], mode) :
          /\ engine' = [engine EXCEPT ![req[c].scope] = mode]
          /\ hidden' = Unreported(c, req[c], reply)
          /\ composing' = Published(c, req[c], reply) \
                            (IF Closes(c, req[c]) THEN {req[c].scope} ELSE {})
  BY <1>2
<1>4. EngineTypes
  BY DEF TypeOK
<1>5. /\ mode \in {"none", "idle", "composing"}
      /\ reply \in {"idle", "composing", "ack"}
      /\ reply # "ack" => reply = mode
      /\ mode = "none" <=> req[c].verb = "CLOSE"
      /\ mode = "composing" =>
           req[c].verb = "KEY" \/ engine[req[c].scope] = mode
      /\ PlainReset(req[c]) => mode = "idle"
  BY <1>1, <1>4, ChildAnswers
<1> QED BY <1>1, <1>3, <1>5

(* After every reply the composing set covers the session it was about,    *)
(* and no other session's entry is touched.                                *)
LEMMA DispatchTracks ==
  ASSUME TypeOK, MutexHeld, RequestInHand, ActiveTypist, CompositionsTracked,
         NEW c \in Client, Dispatch(c)
  PROVE  CompositionsTracked'
<1> DEFINE r == req[c]
<1>1. PICK mode \in {"none", "idle", "composing"},
           reply \in {"idle", "composing", "ack"} :
        /\ ForChild(r)
        /\ engine' = [engine EXCEPT ![r.scope] = mode]
        /\ hidden' = Unreported(c, r, reply)
        /\ composing' = Published(c, r, reply) \
                          (IF Closes(c, r) THEN {r.scope} ELSE {})
        /\ reply # "ack" => reply = mode
        /\ mode = "none" <=> r.verb = "CLOSE"
        /\ mode = "composing" =>
             r.verb = "KEY" \/ engine[r.scope] = mode
        /\ PlainReset(r) => mode = "idle"
  BY DispatchEffect
<1>2. r.scope \in Session \cup {Legacy}
  BY <1>1 DEF ForChild, Request
<1>3. /\ alive /\ UNCHANGED <<alive, active>>
      /\ composingFlag' <=> composing' # {}
      /\ worker[c] = "dispatching"
  BY DEF Dispatch, arbiterVars
<1>4. engine \in [Session \cup {Legacy} -> {"none", "idle", "composing"}]
  BY DEF TypeOK, EngineTypes
<1>5. ASSUME NEW s \in Session, engine'[s] = "composing"
      PROVE  s \in composing' \cup hidden'
  <2>1. CASE s = r.scope
    <3>1. mode = "composing" /\ ~Closes(c, r) /\ StateOwner(c, r) = s
      BY <1>1, <1>4, <1>5, <2>1 DEF Closes, StateOwner, Scoped
    <3>2. CASE reply = "composing"
      BY <1>1, <3>1, <3>2 DEF Published
    <3>3. CASE reply = "ack" /\ r.verb = "KEY"
      BY <1>1, <2>1, <3>3 DEF Unreported
    <3>4. CASE reply = "ack" /\ r.verb # "KEY"
      BY <1>1, <1>3, <2>1, <3>1, <3>4
         DEF Published, Unreported, CompositionsTracked
    <3> QED BY <1>1, <3>1, <3>2, <3>3, <3>4
  <2>2. CASE s # r.scope
    <3>1. s \in composing \cup hidden
      BY <1>1, <1>2, <1>3, <1>4, <1>5, <2>2 DEF CompositionsTracked
    <3>2. StateOwner(c, r) # s
      BY <2>2, Constants DEF StateOwner
    <3> QED BY <1>1, <2>2, <3>1, <3>2 DEF Published, Unreported
  <2> QED BY <2>1, <2>2
<1>6. ASSUME engine'[Legacy] = "composing", Legacy \notin hidden',
             active # Nobody
      PROVE  active \in composing'
  <2>0. active \in Client
    BY <1>6 DEF TypeOK, ArbiterTypes
  <2>1. ASSUME engine[Legacy] = "composing", Legacy \notin hidden,
               ~ResetInProgress(active)
        PROVE  active \in composing
    BY <1>3, <1>6, <2>1 DEF CompositionsTracked
  <2>2. ~PlainReset(r) => ~ResetInProgress(active)
    BY <1>3, <2>0, OneTransaction DEF ResetInProgress
  <2>3. CASE Scoped(r)
    <3>1. r.scope # Legacy /\ r.scope # active /\ ~PlainReset(r)
      BY <2>0, <2>3, Constants DEF Scoped, PlainReset
    <3>2. active \in composing
      BY <1>1, <1>2, <1>4, <1>6, <2>1, <2>2, <3>1 DEF Unreported
    <3> QED BY <1>1, <2>3, <3>1, <3>2 DEF Published, StateOwner
  <2>4. CASE ~Scoped(r)
    <3>1. r.scope = Legacy /\ ~Closes(c, r) /\ StateOwner(c, r) = c
      BY <1>2, <2>4 DEF Scoped, Closes, StateOwner
    <3>2. mode = "composing"
      BY <1>1, <1>4, <1>6, <3>1
    <3>3. ~PlainReset(r)
      BY <1>1, <3>2
    <3>4. CASE reply = "composing"
      <4>1. c \in composing'
        BY <1>1, <3>1, <3>4 DEF Published
      <4>2. CASE active = c
        BY <4>1, <4>2
      <4>3. CASE active # c
        <5>1. Legacy \notin hidden
          BY <1>1, <1>6, <2>4, <3>4, <4>3 DEF Unreported
        <5>2. r.verb # "KEY"
          BY <1>3, <2>4, <4>3 DEF ActiveTypist, Input
        <5>3. active \in composing' \/ engine[Legacy] # "composing"
          BY <1>1, <2>1, <2>2, <3>1, <3>3, <3>4, <5>1 DEF Published
        <5>4. engine[Legacy] = "composing"
          BY <1>1, <3>1, <3>2, <5>2
        <5> QED BY <5>3, <5>4
      <4> QED BY <4>2, <4>3
    <3>5. CASE reply = "ack"
      <4>1. r.verb # "KEY"
        BY <1>1, <1>6, <3>1, <3>5 DEF Unreported
      <4>2. Legacy \notin hidden /\ engine[Legacy] = "composing"
        BY <1>1, <1>6, <3>1, <3>2, <3>5, <4>1 DEF Unreported
      <4> QED BY <1>1, <2>1, <2>2, <3>1, <3>3, <3>5, <4>2 DEF Published
    <3> QED BY <1>1, <3>2, <3>4, <3>5
  <2> QED BY <2>3, <2>4
<1> QED BY <1>3, <1>5, <1>6 DEF CompositionsTracked

(* What the host remembers of STATE lines keeps covering every live        *)
(* conversion: each answer is filed before g_engine_mutex is released.     *)
LEMMA CompositionsTrackedNext ==
  ASSUME TypeOK, MutexHeld, RequestInHand, WorkersAccepted, SpareInstance,
         ActiveTypist, CompositionsTracked, [Next]_vars
  PROVE  CompositionsTracked'
<1> USE Constants
    DEF TypeOK, ConnectionTypes, ArbiterTypes, EngineTypes,
        CompositionsTracked, ResetInProgress, PlainReset, Scoped, vars
<1>1. ASSUME NEW c \in Client, WorkerStep(c) PROVE CompositionsTracked'
  <2> USE DEF arbiterVars, engineVars
  <2>1. CASE Read(c) \/ ReadFails(c) \/ Reply(c)
    BY <2>1 DEF Read, ReadFails, Reply
  <2>2. CASE Lock(c)
    BY <2>2 DEF Lock, Refused, TakesOver, Input
  <2>3. CASE TakeOver(c)
    BY <2>3 DEF TakeOver
  <2>4. CASE DispatchFails(c)
    BY <2>4 DEF DispatchFails
  <2>5. CASE Dispatch(c)
    BY <2>5, DispatchTracks
  <2>6. CASE Cleanup(c)
    <3>1. composingFlag' <=> composing' # {}
      BY <2>6 DEF Cleanup
    <3>2. alive => \A s \in Session :
            engine'[s] = "composing" => s \in composing' \cup hidden'
      BY <2>6 DEF Cleanup, OwnedBy
    <3>3. alive /\ engine'[Legacy] = "composing" /\ Legacy \notin hidden'
            /\ active' # Nobody
            => active' \in composing' \/ ResetInProgress(active)'
      BY <2>6 DEF Cleanup, OwnedBy, MutexHeld
    <3> QED BY <2>6, <3>1, <3>2, <3>3 DEF Cleanup
  <2>7. CASE ConversionFails(c)
    <3>1. UNCHANGED <<composing, composingFlag, active, alive, req>>
      BY <2>7 DEF ConversionFails
    <3>2. \A d \in Client : ResetInProgress(d) => ResetInProgress(d)'
      BY <2>7, ConversionTouchesLegacy DEF ConversionFails, Input
    <3>3. \A s \in Session : engine'[s] = "composing" =>
            s \in composing' \cup hidden'
      BY <2>7, <3>1, ConversionTouchesLegacy DEF ConversionFails
    <3>4. alive /\ engine'[Legacy] = "composing" /\ Legacy \notin hidden'
            /\ active' # Nobody
            => active' \in composing' \/ ResetInProgress(active)'
      BY <2>7, <3>1, <3>2, ConversionTouchesLegacy DEF ConversionFails
    <3> QED BY <3>1, <3>3, <3>4
  <2> QED BY <1>1, <2>1, <2>2, <2>3, <2>4, <2>5,
     <2>6, <2>7 DEF WorkerStep
<1>2. CASE GcStep
  BY <1>2 DEF GcStep, GcTick, GcEnter, GcStart, GcCollected, GcCompacted,
     workerVars, arbiterVars, engineVars
<1>3. CASE ClientConnect \/ \E c \in Client : ClientStep(c)
  BY <1>3 DEF ClientConnect, ClientStep, ClientWrite, ClientRead,
     ClientHangup, workerVars, arbiterVars, engineVars
<1>4. CASE Spawn
  BY <1>4, SpawnsUnborn DEF Spawn, arbiterVars, engineVars
<1>5. CASE StopChild \/ ChildExit
  BY <1>5 DEF StopChild, ChildExit, arbiterVars
<1>6. CASE TestStopping \/ ConnectNamedPipe \/ Accept \/ Exit
  BY <1>6 DEF TestStopping, ConnectNamedPipe, Accept, Exit, workerVars,
     arbiterVars, engineVars
<1>7. CASE IdleElapses \/ \E w \in Client \cup {Collector} : Wake(w)
  BY <1>7 DEF IdleElapses, Wake, workerVars, arbiterVars, engineVars
<1>8. CASE UNCHANGED vars
  BY <1>8 DEF workerVars, arbiterVars, engineVars
<1> QED BY <1>1, <1>2, <1>3, <1>4, <1>5, <1>6, <1>7, <1>8
    DEF Next, HostStep, MainStep

(* Only the active client's keys and RESETs reach the legacy session.      *)
LEMMA ActiveTypistNext ==
  ASSUME TypeOK, MutexHeld, WorkersAccepted, SpareInstance, RequestInHand,
         ActiveTypist, [Next]_vars
  PROVE  ActiveTypist'
<1> USE Constants
    DEF TypeOK, ConnectionTypes, ArbiterTypes, ActiveTypist, ResetInProgress,
        PlainReset, Input, Scoped, vars
<1>1. ASSUME NEW c \in Client, WorkerStep(c) PROVE ActiveTypist'
  <2> USE DEF arbiterVars, engineVars
  <2>1. CASE Read(c) \/ ReadFails(c) \/ Reply(c)
    BY <2>1 DEF Read, ReadFails, Reply
  <2>2. CASE Lock(c)
    BY <2>2 DEF Lock, Refused, TakesOver, MutexHeld
  <2>3. CASE TakeOver(c)
    BY <2>3, OneTransaction DEF TakeOver
  <2>4. CASE DispatchFails(c) \/ ConversionFails(c)
    BY <2>4, OneTransaction DEF DispatchFails, ConversionFails
  <2>5. CASE Dispatch(c)
    BY <2>5, OneTransaction DEF Dispatch
  <2>6. CASE Cleanup(c)
    BY <2>6 DEF Cleanup, MutexHeld
  <2> QED BY <1>1, <2>1, <2>2, <2>3, <2>4, <2>5, <2>6 DEF WorkerStep
<1>2. CASE GcStep
  BY <1>2 DEF GcStep, GcTick, GcEnter, GcStart, GcCollected, GcCompacted,
     workerVars, arbiterVars, engineVars
<1>3. CASE ClientConnect \/ \E c \in Client : ClientStep(c)
  BY <1>3 DEF ClientConnect, ClientStep, ClientWrite, ClientRead,
     ClientHangup, workerVars, arbiterVars, engineVars
<1>4. CASE Spawn
  BY <1>4, SpawnsUnborn DEF Spawn, arbiterVars, engineVars
<1>5. CASE StopChild \/ ChildExit
  BY <1>5 DEF StopChild, ChildExit, workerVars, arbiterVars
<1>6. CASE TestStopping \/ ConnectNamedPipe \/ Accept \/ Exit
  BY <1>6 DEF TestStopping, ConnectNamedPipe, Accept, Exit, workerVars,
     arbiterVars, engineVars
<1>7. CASE IdleElapses \/ \E w \in Client \cup {Collector} : Wake(w)
  BY <1>7 DEF IdleElapses, Wake, workerVars, arbiterVars, engineVars
<1>8. CASE UNCHANGED vars
  BY <1>8 DEF workerVars, arbiterVars, engineVars
<1> QED BY <1>1, <1>2, <1>3, <1>4, <1>5, <1>6, <1>7, <1>8
    DEF Next, HostStep, MainStep

-----------------------------------------------------------------------------
(* The theorems.                                                           *)

(* The start-up state of wmain satisfies every conjunct.                   *)
LEMMA IInvInit == Init => IInv
<1> SUFFICES ASSUME Init PROVE IInv
  OBVIOUS
<1> USE Constants DEF Init
<1>1. TypeOK
  BY TypeInit
<1>2. MutexHeld
  BY DEF MutexHeld
<1>3. RequestInHand /\ WaitingIsFresh
  BY DEF RequestInHand, WaitingIsFresh, Transacting
<1>4. WorkersAccepted
  BY DEF WorkersAccepted, Client
<1>5. SpareInstance /\ NoLostWakeup
  BY DEF SpareInstance, NoLostWakeup
<1>6. OwnerServes /\ DispatcherOwns
  BY DEF OwnerServes, DispatcherOwns
<1>7. RecordsOwned
  BY DEF RecordsOwned
<1>8. CompositionsTracked
  BY DEF CompositionsTracked
<1>9. ActiveTypist
  BY DEF ActiveTypist
<1> QED BY <1>1, <1>2, <1>3, <1>4, <1>5, <1>6, <1>7, <1>8, <1>9 DEF IInv

(* Every step of a thread, of a client or of the child preserves them all. *)
LEMMA IInvNext == IInv /\ [Next]_vars => IInv'
<1> SUFFICES ASSUME IInv, [Next]_vars PROVE IInv'
  OBVIOUS
<1>1. /\ TypeOK /\ MutexHeld /\ RequestInHand /\ WorkersAccepted
      /\ SpareInstance /\ OwnerServes /\ DispatcherOwns /\ RecordsOwned
      /\ CompositionsTracked /\ ActiveTypist /\ WaitingIsFresh
      /\ NoLostWakeup
  BY DEF IInv
<1>2. TypeOK'
  BY <1>1, ConnectionTypesNext, ArbiterTypesNext, EngineTypesNext,
     LoopTypesNext DEF TypeOK
<1>3. MutexHeld' /\ RequestInHand' /\ WorkersAccepted'
  BY <1>1, MutexHeldNext, RequestInHandNext, WorkersAcceptedNext
<1>4. SpareInstance' /\ NoLostWakeup'
  BY <1>1, SpareInstanceNext, NoLostWakeupNext
<1>5. OwnerServes' /\ DispatcherOwns' /\ RecordsOwned'
  BY <1>1, OwnerServesNext, DispatcherOwnsNext, RecordsOwnedNext
<1>6. CompositionsTracked' /\ ActiveTypist' /\ WaitingIsFresh'
  BY <1>1, CompositionsTrackedNext, ActiveTypistNext, WaitingIsFreshNext
<1> QED BY <1>2, <1>3, <1>4, <1>5, <1>6 DEF IInv

(* Every reachable state satisfies the inductive invariant.                *)
THEOREM HostInvariant == Spec => []IInv
BY IInvInit, IInvNext, PTL DEF Spec

(* Every variable keeps its type: no worker records a session under an     *)
(* empty id, no id is handed out twice.                                    *)
THEOREM HostTypes == Spec => []TypeOK
<1>1. IInv => TypeOK
  BY DEF IInv
<1> QED BY <1>1, HostInvariant, PTL

(* Between transactions the child's records are exactly the owned sessions *)
(* and each has a worker that will close it, however many connections      *)
(* share, drop and resume however many sessions.                           *)
THEOREM SessionOwnership == Spec => []SessionsAreOwned
<1>1. IInv => SessionsAreOwned
  <2> SUFFICES ASSUME IInv, alive, mutex \notin Client, NEW s \in Session
               PROVE  /\ engine[s] # "none" <=> owners[s] # Nobody
                      /\ owners[s] # Nobody =>
                           /\ s \in sessions[owners[s]]
                           /\ worker[owners[s]] \notin {"unborn", "done"}
    BY DEF SessionsAreOwned
  <2>1. ~InProgress(s)
    BY DEF InProgress
  <2> QED BY <2>1 DEF IInv, RecordsOwned, OwnerServes
<1> QED BY <1>1, HostInvariant, PTL

(* No legacy client ever types into another one's conversion.              *)
THEOREM LegacyIsolation == Spec => []OneTypist
<1>1. IInv => OneTypist
  <2> SUFFICES ASSUME IInv, NEW c \in Client, worker[c] = "dispatching",
                      Input(req[c])
               PROVE  typist \in {Nobody, c}
    BY DEF OneTypist
  <2>1. active = c /\ c # Nobody
    BY Constants DEF IInv, ActiveTypist
  <2>2. ~ResetInProgress(c)
    BY DEF ResetInProgress, Input, PlainReset
  <2> QED BY <2>1, <2>2 DEF IInv, ActiveTypist
<1> QED BY <1>1, HostInvariant, PTL

(* A request to stop always gets wmain out of ConnectNamedPipe.            *)
THEOREM StopIsNoticed == Spec => []NoLostWakeup
<1>1. IInv => NoLostWakeup
  BY DEF IInv
<1> QED BY <1>1, HostInvariant, PTL

(* The collector moves in its own steps only.                              *)
LEMMA MovesInGcStep ==
  ASSUME [Next]_vars, gc' # gc
  PROVE  GcStep
<1>1. ~(\E c \in Client : WorkerStep(c))
  BY DEF WorkerStep, Read, ReadFails, Lock, TakeOver, Dispatch,
     DispatchFails, ConversionFails, Reply, Cleanup, gcVars
<1>2. ~(ClientConnect \/ \E c \in Client : ClientStep(c))
  BY DEF ClientConnect, ClientStep, ClientWrite, ClientRead,
     ClientHangup, gcVars
<1>3. ~MainStep
  BY DEF MainStep, TestStopping, ConnectNamedPipe, Accept, Spawn,
     StopChild, Exit, gcVars
<1>4. ~(IdleElapses \/ ChildExit
         \/ \E w \in Client \cup {Collector} : Wake(w))
  BY DEF IdleElapses, ChildExit, Wake, gcVars
<1> QED BY <1>1, <1>2, <1>3, <1>4 DEF Next, HostStep, vars, gcVars

(* Only GcEnter passes the last test of idleness, only GcStart collects.   *)
LEMMA TestsThenStarts ==
  ASSUME GcStep
  PROVE  /\ gc # "confirmed" /\ gc' = "confirmed" => GcEnter
         /\ GcStarts => GcStart
BY DEF GcStep, GcTick, GcEnter, GcStart, GcCollected, GcCompacted, GcStarts

(* No collection starts while a reported conversion is on screen.          *)
THEOREM GcIsPolite == Spec => GcSparesComposition
<1>1. IInv /\ [Next]_vars =>
        [GcStarts /\ alive =>
           \A x \in Session \cup {Legacy} :
             engine[x] = "composing" => x \in hidden \/ Abandoned(x)]_vars
  <2> SUFFICES ASSUME IInv, [Next]_vars, GcStarts, alive,
                      NEW x \in Session \cup {Legacy},
                      engine[x] = "composing"
               PROVE  x \in hidden \/ Abandoned(x)
    OBVIOUS
  <2>1. GcStart
    BY MovesInGcStep, TestsThenStarts DEF GcStarts
  <2>2. composing = {} /\ mutex = Collector
    BY <2>1 DEF GcStart, GcStarts, MayStart, IInv, MutexHeld,
       CompositionsTracked
  <2>3. \A c \in Client : ~ResetInProgress(c)
    BY <2>2, Constants DEF IInv, MutexHeld, ResetInProgress
  <2>4. active \in {Nobody} \cup Client
    BY DEF IInv, TypeOK, ArbiterTypes
  <2> QED BY <2>2, <2>3, <2>4 DEF IInv, CompositionsTracked, Abandoned
<1> QED BY <1>1, HostInvariant, PTL DEF Spec, GcSparesComposition

(* No request waits while the last test of idleness succeeds, and without  *)
(* that test nothing is collected.  The request that is read between the   *)
(* test and GC is not excluded: it does wait (NoKeyQueuesBehindGc fails).  *)
THEOREM GcIsOrdered == Spec => GcDefersToWaitingKey
<1>1. IInv /\ [Next]_vars =>
        [/\ gc # "confirmed" /\ gc' = "confirmed"
              => \A c \in Client : ~Transacting(c)
         /\ GcStarts => gc = "confirmed"]_vars
  <2> SUFFICES ASSUME IInv, [Next]_vars, gc' # gc
               PROVE  /\ gc # "confirmed" /\ gc' = "confirmed"
                           => \A c \in Client : ~Transacting(c)
                      /\ GcStarts => gc = "confirmed"
    BY DEF GcStarts
  <2>1. GcStep
    BY MovesInGcStep
  <2>2. ASSUME gc # "confirmed", gc' = "confirmed", NEW c \in Client
        PROVE  ~Transacting(c)
    BY <2>1, <2>2, TestsThenStarts
       DEF GcEnter, StillIdle, IInv, WaitingIsFresh
  <2>3. GcStarts => gc = "confirmed"
    BY <2>1, TestsThenStarts DEF GcStart
  <2> QED BY <2>2, <2>3
<1> QED BY <1>1, HostInvariant, PTL DEF Spec, GcDefersToWaitingKey
=============================================================================
