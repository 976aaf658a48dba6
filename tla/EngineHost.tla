----------------------------- MODULE EngineHost -----------------------------
(***************************************************************************)
(* The engine host process (windows/host/main.cpp): one NeLisp child, one  *)
(* mutex around it, a detached worker thread per pipe connection, the idle *)
(* GC thread and the accept loop of wmain.  The applications' ends of the  *)
(* pipes are the environment: they connect, write one request at a time,   *)
(* read the reply and hang up whenever they like.                          *)
(*                                                                         *)
(* The engine child appears as the little the host can observe of it: for  *)
(* every session whether a record exists and whether it is composing.      *)
(* What a request does inside a session is the subject of other modules.   *)
(***************************************************************************)
EXTENDS Naturals, FiniteSets

CONSTANTS
  Session,    (* the stable ids native clients put after "SESSION "        *)
  Legacy,     (* the one session of clients that send no SESSION prefix    *)
  MaxClient,  (* BOUND: connections accepted in a behaviour                *)
  Traffic     (* the requests this instance's clients may write            *)

Client == 1..MaxClient          \* client_id, handed out in accept order

Verbs ==
  [scoped |-> {"KEY", "RESET", "SET", "QUERY", "CLOSE"},
   plain  |-> {"KEY", "RESET", "STATUS", "QUERY", "PREVIEW", "SHUTDOWN"}]

(* KEY stands for KEY and every CONTROL; SET for ENGINE SET; QUERY for the *)
(* requests answered without a STATE line (ENGINE LIST, HELLO, GC ping).   *)
Request ==
  [scope : Session, verb : Verbs.scoped] \cup
  [scope : {Legacy}, verb : Verbs.plain]

NoRequest == [scope |-> Legacy, verb |-> "NONE"]

ASSUME HostAssumption ==
  /\ MaxClient \in Nat \ {0}
  /\ Legacy \notin Session
  /\ \A s \in Session : s \notin 1..MaxClient
  /\ Traffic \subseteq Request

Nobody == 0                     \* g_engine_mutex is free
Collector == MaxClient + 1      \* IdleGcLoop, as an owner of the mutex

VARIABLES
  worker,         \* where ServeClient(client_id) is
  req,            \* the request a worker has read
  response,       \* its reply: held while "replying", in the pipe afterwards
  sessions,       \* client_sessions, local to each worker
  inbox,          \* written by the client, not yet read by the worker
  open,           \* the client's end of the connection
  mutex,          \* holder of g_engine_mutex
  owners,         \* g_session_owners (Nobody: no entry)
  active,         \* g_active_input_client
  composing,      \* g_composing_sessions; "legacy:<id>" is the client id
  composingFlag,  \* g_session_composing
  engine,         \* the child's sessions: "none", "idle", "composing"
  hidden,         \* sessions whose last input was not answered by a STATE
  typist,         \* client whose input the legacy session holds
  alive,          \* the child process runs
  stopping,       \* g_stopping
  wakers,         \* callers inside RequestStop's throwaway connect
  gc,             \* where IdleGcLoop is
  gcPending,      \* g_gc_pending
  fresh,          \* g_last_activity_tick is younger than IdleGcIntervalMs
  main,           \* where wmain's accept loop is
  instance,       \* the spare pipe instance
  nextId          \* g_next_client_id

clientVars == <<inbox, open>>
workerVars == <<worker, req, response, sessions>>
arbiterVars == <<owners, active, composing, composingFlag, typist>>
engineVars == <<engine, hidden, alive>>
gcVars == <<gc, gcPending, fresh>>
stopVars == <<stopping, wakers>>
mainVars == <<main, instance, nextId>>
vars == <<clientVars, workerVars, mutex, arbiterVars, engineVars, gcVars,
          stopVars, mainVars>>

Init ==
  /\ worker = [c \in Client |-> "unborn"]
  /\ req = [c \in Client |-> NoRequest]
  /\ response = [c \in Client |-> "none"]
  /\ sessions = [c \in Client |-> {}]
  /\ inbox = [c \in Client |-> NoRequest]
  /\ open = [c \in Client |-> FALSE]
  /\ mutex = Nobody
  /\ owners = [s \in Session |-> Nobody]
  /\ active = Nobody
  /\ composing = {}
  /\ composingFlag = FALSE
  /\ engine = [s \in Session \cup {Legacy} |->
                 IF s = Legacy THEN "idle" ELSE "none"]
  /\ hidden = {}
  /\ typist = Nobody
  /\ alive = TRUE
  /\ stopping = FALSE
  /\ wakers = {}
  /\ gc = "sleeping"
  /\ gcPending = FALSE
  /\ fresh = FALSE
  /\ main = "testing"
  /\ instance = "listening"
  /\ nextId = 1

Running == main # "exited"

-----------------------------------------------------------------------------
(* The applications' ends of the pipes.                                    *)

(* A client takes the spare instance.  ConnectNamedPipe, if the accept     *)
(* loop is already blocked in it, returns in the same instant.             *)
ClientConnect ==
  /\ Running
  /\ instance = "listening"
  /\ nextId <= MaxClient
  /\ instance' = "client"
  /\ open' = [open EXCEPT ![nextId] = TRUE]
  /\ main' = IF main = "blocked" THEN "accepted" ELSE main
  /\ UNCHANGED <<inbox, workerVars, mutex, arbiterVars, engineVars, gcVars,
                 stopVars, nextId>>

(* One request is outstanding at a time on a connection.                   *)
Outstanding(c) ==
  \/ inbox[c] # NoRequest
  \/ response[c] # "none"
  \/ worker[c] \notin {"unborn", "reading"}

ClientWrite(c, r) ==
  /\ Running
  /\ open[c]
  /\ ~Outstanding(c)
  /\ inbox' = [inbox EXCEPT ![c] = r]
  /\ UNCHANGED <<open, workerVars, mutex, arbiterVars, engineVars, gcVars,
                 stopVars, mainVars>>

Delivered(c) == response[c] # "none" /\ worker[c] \in {"reading", "closing"}

ClientRead(c) ==
  /\ Running
  /\ open[c]
  /\ Delivered(c)
  /\ response' = [response EXCEPT ![c] = "none"]
  /\ UNCHANGED <<clientVars, worker, req, sessions, mutex, arbiterVars,
                 engineVars, gcVars, stopVars, mainVars>>

(* The application exits, times out or is cancelled: it closes its handle, *)
(* whatever the host is doing with the request it had written.             *)
ClientHangup(c) ==
  /\ Running
  /\ open[c]
  /\ open' = [open EXCEPT ![c] = FALSE]
  /\ UNCHANGED <<inbox, workerVars, mutex, arbiterVars, engineVars, gcVars,
                 stopVars, mainVars>>

-----------------------------------------------------------------------------
(* RequestStop: the flag first, then a throwaway connect to wake wmain.    *)

FlagWithoutWake(who) == stopping' = TRUE /\ UNCHANGED wakers     \* mutant

RequestStop(who) ==
  /\ stopping' = TRUE
  /\ wakers' = wakers \cup {who}

Wake(who) ==
  /\ Running
  /\ who \in wakers
  /\ wakers' = wakers \ {who}
  /\ IF instance = "listening"
     THEN /\ instance' = "wake"
          /\ main' = IF main = "blocked" THEN "accepted" ELSE main
     ELSE UNCHANGED <<instance, main>>
  /\ UNCHANGED <<clientVars, workerVars, mutex, arbiterVars, engineVars,
                 gcVars, stopping, nextId>>

-----------------------------------------------------------------------------
(* ServeClient.                                                            *)

(* A non-empty id between "SESSION " and the next space.                   *)
AnyScope(r) == TRUE                                               \* mutant

Scoped(r) == r.scope \in Session

Input(r) == ~Scoped(r) /\ r.verb = "KEY"

PlainReset(r) == ~Scoped(r) /\ r.verb = "RESET"

(* A RESET that is only acknowledged: it comes from another client, or     *)
(* from the active one while some conversion is live.                      *)
Refused(c, r) ==
  /\ PlainReset(r)
  /\ active # Nobody
  /\ active # c \/ composingFlag

(* The first input of a client that is not the active one resets first.    *)
FirstInputOnly(c, r) == Input(r) /\ active = Nobody               \* mutant

TakesOver(c, r) == Input(r) /\ active # c

(* ReadFile returned a request, and NoteActivity has run.                  *)
Read(c) ==
  /\ Running
  /\ worker[c] = "reading"
  /\ inbox[c] # NoRequest
  /\ req' = [req EXCEPT ![c] = inbox[c]]
  /\ inbox' = [inbox EXCEPT ![c] = NoRequest]
  /\ IF inbox[c].verb \in {"SHUTDOWN", "PREVIEW"}
     THEN /\ worker' = [worker EXCEPT ![c] = "replying"]
          /\ response' = [response EXCEPT ![c] = "ack"]
     ELSE /\ worker' = [worker EXCEPT ![c] = "locking"]
          /\ UNCHANGED response
  /\ fresh' = TRUE
  /\ gcPending' = TRUE
  /\ UNCHANGED <<open, sessions, mutex, arbiterVars, engineVars, gc,
                 stopVars, mainVars>>

ReadFails(c) ==
  /\ Running
  /\ worker[c] = "reading"
  /\ inbox[c] = NoRequest
  /\ ~open[c]
  /\ worker' = [worker EXCEPT ![c] = "closing"]
  /\ UNCHANGED <<clientVars, req, response, sessions, mutex, arbiterVars,
                 engineVars, gcVars, stopVars, mainVars>>

(* The mutex is taken, ownership is recorded and the request either goes   *)
(* to the child or, a refused RESET, is answered with an empty STATE.      *)
Lock(c) ==
  LET r == req[c] IN
  /\ Running
  /\ worker[c] = "locking"
  /\ mutex = Nobody
  /\ IF Scoped(r)
     THEN /\ sessions' = [sessions EXCEPT ![c] = @ \cup {r.scope}]
          /\ owners' = [owners EXCEPT ![r.scope] = c]
     ELSE UNCHANGED <<sessions, owners>>
  /\ IF Refused(c, r)
     THEN /\ worker' = [worker EXCEPT ![c] = "replying"]
          /\ response' = [response EXCEPT ![c] = "idle"]
          /\ UNCHANGED <<mutex, active>>
     ELSE /\ mutex' = c
          /\ worker' = [worker EXCEPT ![c] =
                          IF TakesOver(c, r) THEN "resetting"
                                             ELSE "dispatching"]
          /\ active' = IF PlainReset(r) THEN c ELSE active
          /\ UNCHANGED response
  /\ UNCHANGED <<clientVars, req, composing, composingFlag, typist,
                 engineVars, gcVars, stopVars, mainVars>>

(* The child answered the RESET that a change of input client sends first. *)
TakeOver(c) ==
  /\ Running
  /\ worker[c] = "resetting"
  /\ alive
  /\ worker' = [worker EXCEPT ![c] = "dispatching"]
  /\ engine' = [engine EXCEPT ![Legacy] = "idle"]
  /\ hidden' = hidden \ {Legacy}
  /\ active' = c
  /\ typist' = Nobody
  /\ UNCHANGED <<clientVars, req, response, sessions, mutex, owners,
                 composing, composingFlag, alive, gcVars, stopVars, mainVars>>

(* What a request line can leave a session of the child in, and what the   *)
(* child can answer: a STATE line with the mode, or "ack" for OK and ERR.  *)
EngineAfter(r) ==
  CASE r.verb = "KEY"                 -> {"idle", "composing"}
    [] r.verb \in {"RESET", "SET"}    -> {"idle"}
    [] r.verb = "CLOSE"               -> {"none"}
    [] r.verb \in {"QUERY", "STATUS"} ->
         {IF engine[r.scope] = "none" THEN "idle" ELSE engine[r.scope]}

EngineReplies(r, mode) ==
  CASE r.verb = "KEY"                    -> {mode, "ack"}
    [] r.verb \in {"RESET", "STATUS"}    -> {mode}
    [] r.verb \in {"QUERY", "SET", "CLOSE"} -> {"ack"}

(* state_owner: the session id, or "legacy:<client_id>".                   *)
StateOwner(c, r) == IF Scoped(r) THEN r.scope ELSE c

Published(c, r, reply) ==
  IF reply = "composing" THEN composing \cup {StateOwner(c, r)}
  ELSE IF reply = "idle" THEN composing \ {StateOwner(c, r)}
  ELSE composing

Unreported(c, r, reply) ==
  IF r.verb = "KEY" /\ reply = "ack" THEN hidden \cup {r.scope}
  ELSE IF reply # "ack" /\ (Scoped(r) \/ active = c) THEN hidden \ {r.scope}
  ELSE hidden

(* An owner's own CLOSE also drops its entries.                            *)
NeverCloses(c, r) == FALSE                                        \* mutant

Closes(c, r) == Scoped(r) /\ r.verb = "CLOSE" /\ owners[r.scope] = c

(* The child answered: the reply is published and the mutex released.      *)
Dispatch(c) ==
  LET r == req[c]
      closes == Closes(c, r)
  IN
  /\ Running
  /\ worker[c] = "dispatching"
  /\ alive
  /\ \E mode \in EngineAfter(r) : \E reply \in EngineReplies(r, mode) :
       /\ engine' = [engine EXCEPT ![r.scope] = mode]
       /\ hidden' = Unreported(c, r, reply)
       /\ response' = [response EXCEPT ![c] = reply]
       /\ composing' = Published(c, r, reply) \
                         (IF closes THEN {r.scope} ELSE {})
  /\ composingFlag' = (composing' # {})
  /\ owners' = IF closes THEN [owners EXCEPT ![r.scope] = Nobody] ELSE owners
  /\ typist' = IF Input(r) THEN c
               ELSE IF PlainReset(r) THEN Nobody ELSE typist
  /\ mutex' = Nobody
  /\ worker' = [worker EXCEPT ![c] = "replying"]
  /\ UNCHANGED <<clientVars, req, sessions, active, alive, gcVars, stopVars,
                 mainVars>>

(* The child is gone: the lock is released and the connection dropped.     *)
(* ASSUMPTION: a child that lives answers within the limits of Dispatch    *)
(* (64 dictionary exchanges, the length of a line); DictionaryRelay has    *)
(* what happens beyond them.                                               *)
DispatchFails(c) ==
  /\ Running
  /\ worker[c] \in {"resetting", "dispatching"}
  /\ ~alive
  /\ mutex' = Nobody
  /\ worker' = [worker EXCEPT ![c] = "closing"]
  /\ UNCHANGED <<clientVars, req, response, sessions, arbiterVars, engineVars,
                 gcVars, stopVars, mainVars>>

(* A malformed CONVERT-KEYS of an unscoped client: RESET and the keys      *)
(* before the mistake are executed, no STATE is published.                 *)
ConversionFails(c) ==
  /\ Running
  /\ worker[c] = "dispatching"
  /\ alive
  /\ Input(req[c])
  /\ \/ UNCHANGED <<engine, hidden, typist>>           \* empty or too long
     \/ \E mode \in EngineAfter(req[c]) :
          /\ engine' = [engine EXCEPT ![Legacy] = mode]
          /\ hidden' = hidden \cup {Legacy}
          /\ typist' = c
  /\ mutex' = Nobody
  /\ worker' = [worker EXCEPT ![c] = "closing"]
  /\ UNCHANGED <<clientVars, req, response, sessions, owners, active,
                 composing, composingFlag, alive, gcVars, stopVars, mainVars>>

(* WriteFile, outside the lock.  It fails when the client has hung up;     *)
(* SHUTDOWN stops the host either way.                                     *)
Reply(c) ==
  LET down == req[c].verb = "SHUTDOWN" IN
  /\ Running
  /\ worker[c] = "replying"
  /\ worker' = [worker EXCEPT ![c] =
                  IF open[c] /\ ~down THEN "reading" ELSE "closing"]
  /\ response' = [response EXCEPT ![c] = IF open[c] THEN @ ELSE "none"]
  /\ req' = [req EXCEPT ![c] = NoRequest]
  /\ IF down THEN RequestStop(c) ELSE UNCHANGED stopVars
  /\ UNCHANGED <<clientVars, sessions, mutex, arbiterVars, engineVars, gcVars,
                 mainVars>>

(* The sessions a leaving worker closes: those it still owns.              *)
OwnedByOthers(c) == {s \in sessions[c] : owners[s] # c}           \* mutant

OwnedBy(c) == {s \in sessions[c] : owners[s] = c}

(* The tail of ServeClient: FlushFileBuffers waits until the client has    *)
(* read or gone, then, under the lock, the worker closes what it owns.     *)
Cleanup(c) ==
  LET mine == OwnedBy(c) IN
  /\ Running
  /\ worker[c] = "closing"
  /\ c \notin wakers
  /\ open[c] => response[c] = "none"
  /\ mutex = Nobody
  /\ active' = IF active = c THEN Nobody ELSE active
  /\ engine' = [s \in Session \cup {Legacy} |->
                  IF alive /\ s \in mine THEN "none" ELSE engine[s]]
  /\ owners' = [s \in Session |-> IF s \in mine THEN Nobody ELSE owners[s]]
  /\ composing' = composing \ (mine \cup {c})
  /\ composingFlag' = (composing' # {})
  /\ worker' = [worker EXCEPT ![c] = "done"]
  /\ response' = [response EXCEPT ![c] = "none"]
  /\ req' = [req EXCEPT ![c] = NoRequest]
  /\ IF alive THEN UNCHANGED stopVars ELSE RequestStop(c)
  /\ UNCHANGED <<clientVars, sessions, mutex, typist, hidden, alive, gcVars,
                 mainVars>>

(* The child process exits on its own.                                     *)
ChildExit ==
  /\ Running
  /\ alive
  /\ alive' = FALSE
  /\ UNCHANGED <<clientVars, workerVars, mutex, arbiterVars, engine, hidden,
                 gcVars, stopVars, mainVars>>

-----------------------------------------------------------------------------
(* IdleGcLoop.                                                             *)

Transacting(c) == worker[c] \in {"locking", "resetting", "dispatching"}

(* The idle interval (10 s) passes without a request.  TIMING: a request   *)
(* that has been read is answered within the interval.                     *)
IdleElapses ==
  /\ Running
  /\ fresh
  /\ \A c \in Client : ~Transacting(c)
  /\ fresh' = FALSE
  /\ UNCHANGED <<clientVars, workerVars, mutex, arbiterVars, engineVars, gc,
                 gcPending, stopVars, mainVars>>

MayCollect == ~fresh /\ gcPending /\ ~composingFlag

(* One 100 ms tick: the cheap tests before the lock.  All are made again   *)
(* under it, so nothing hangs on their being one step here.                *)
GcTick ==
  /\ Running
  /\ gc = "sleeping"
  /\ Collector \notin wakers
  /\ \/ stopping /\ gc' = "ended"
     \/ ~stopping /\ MayCollect /\ gc' = "locking"
  /\ UNCHANGED <<clientVars, workerVars, mutex, arbiterVars, engineVars,
                 gcPending, fresh, stopVars, mainVars>>

(* The tests again under the lock.  ReadFile needs no lock, so a request   *)
(* can be read after the one for idleness and before GC is sent.           *)
AnyIdleness == TRUE                                               \* mutant
StillIdle == ~fresh

AnyComposition == gcPending                                       \* mutant
MayStart == ~composingFlag /\ gcPending

GcEnter ==
  /\ Running
  /\ gc = "locking"
  /\ mutex = Nobody
  /\ IF StillIdle THEN gc' = "confirmed" /\ mutex' = Collector
                  ELSE gc' = "sleeping" /\ UNCHANGED mutex
  /\ UNCHANGED <<clientVars, workerVars, arbiterVars, engineVars, gcPending,
                 fresh, stopVars, mainVars>>

GcStart ==
  /\ Running
  /\ gc = "confirmed"
  /\ IF MayStart THEN gc' = "collecting" /\ UNCHANGED mutex
                       ELSE gc' = "sleeping" /\ mutex' = Nobody
  /\ gcPending' = (gcPending /\ composingFlag)
  /\ UNCHANGED <<clientVars, workerVars, arbiterVars, engineVars, fresh,
                 stopVars, mainVars>>

(* GC answered, or failed because the child died; COMPACT follows at once. *)
GcCollected ==
  /\ Running
  /\ gc = "collecting"
  /\ gc' = "compacting"
  /\ IF alive THEN UNCHANGED stopVars ELSE RequestStop(Collector)
  /\ UNCHANGED <<clientVars, workerVars, mutex, arbiterVars, engineVars,
                 gcPending, fresh, mainVars>>

GcCompacted ==
  /\ Running
  /\ gc = "compacting"
  /\ Collector \notin wakers
  /\ gc' = "sleeping"
  /\ mutex' = Nobody
  /\ IF alive THEN UNCHANGED stopVars ELSE RequestStop(Collector)
  /\ UNCHANGED <<clientVars, workerVars, arbiterVars, engineVars, gcPending,
                 fresh, mainVars>>

-----------------------------------------------------------------------------
(* wmain's accept loop and shutdown.                                       *)

TestStopping ==
  /\ main = "testing"
  /\ main' = IF stopping THEN "leaving" ELSE "connecting"
  /\ UNCHANGED <<clientVars, workerVars, mutex, arbiterVars, engineVars,
                 gcVars, stopVars, instance, nextId>>

(* ConnectNamedPipe: waits on a listening instance, returns at once for a  *)
(* connected one and fails (ERROR_NO_DATA) for one whose client has        *)
(* already gone, which the loop answers by leaving.                        *)
ConnectNamedPipe ==
  /\ main = "connecting"
  /\ main' = IF instance = "listening" THEN "blocked"
             ELSE IF instance = "client" /\ ~open[nextId] THEN "leaving"
             ELSE "accepted"
  /\ UNCHANGED <<clientVars, workerVars, mutex, arbiterVars, engineVars,
                 gcVars, stopVars, instance, nextId>>

(* The second test of g_stopping: a connection accepted while the host is  *)
(* stopping, most likely the wake-up itself, is dropped.                   *)
Accept ==
  /\ main = "accepted"
  /\ main' = IF stopping THEN "leaving" ELSE "spawning"
  /\ UNCHANGED <<clientVars, workerVars, mutex, arbiterVars, engineVars,
                 gcVars, stopVars, instance, nextId>>

(* The connection goes to a worker of its own and a new spare instance is  *)
(* created; if that fails the loop ends.                                   *)
Spawn ==
  /\ main = "spawning"
  /\ worker' = [worker EXCEPT ![nextId] = "reading"]
  /\ nextId' = nextId + 1
  /\ \/ instance' = "listening" /\ main' = "testing"
     \/ instance' = "none" /\ main' = "leaving"
  /\ UNCHANGED <<clientVars, req, response, sessions, mutex, arbiterVars,
                 engineVars, gcVars, stopVars>>

(* CloseHandle on the spare instance; StopChild under the lock.            *)
StopChild ==
  /\ main = "leaving"
  /\ mutex = Nobody
  /\ alive' = FALSE
  /\ instance' = "none"
  /\ main' = "stopped"
  /\ UNCHANGED <<clientVars, workerVars, mutex, arbiterVars, engine, hidden,
                 gcVars, stopVars, nextId>>

(* wmain returns: the process and every detached thread with it.           *)
Exit ==
  /\ main = "stopped"
  /\ main' = "exited"
  /\ UNCHANGED <<clientVars, workerVars, mutex, arbiterVars, engineVars,
                 gcVars, stopVars, instance, nextId>>

-----------------------------------------------------------------------------
ClientStep(c) ==
  \/ \E r \in Traffic : ClientWrite(c, r)
  \/ ClientRead(c)
  \/ ClientHangup(c)

WorkerStep(c) ==
  \/ Read(c) \/ ReadFails(c) \/ Lock(c) \/ TakeOver(c) \/ Dispatch(c)
  \/ DispatchFails(c) \/ ConversionFails(c) \/ Reply(c) \/ Cleanup(c)

GcStep == GcTick \/ GcEnter \/ GcStart \/ GcCollected \/ GcCompacted

MainStep ==
  TestStopping \/ ConnectNamedPipe \/ Accept \/ Spawn \/ StopChild \/ Exit

HostStep ==
  \/ \E c \in Client : WorkerStep(c)
  \/ \E w \in Client \cup {Collector} : Wake(w)
  \/ GcStep \/ MainStep
  \/ IdleElapses \/ ChildExit

Next ==
  \/ ClientConnect
  \/ \E c \in Client : ClientStep(c)
  \/ HostStep

Spec == Init /\ [][Next]_vars

(* The threads are scheduled, and the child answers or dies; clients,      *)
(* timers and the child's death are left free.  SRWLOCK is not a queue, so *)
(* the threads that wait for the mutex need strong fairness.               *)
Fairness ==
  /\ \A c \in Client : SF_vars(WorkerStep(c))
  /\ WF_vars(\E w \in Client \cup {Collector} : Wake(w))
  /\ WF_vars(GcStep)
  /\ SF_vars(MainStep)

FairSpec == Spec /\ Fairness
-----------------------------------------------------------------------------
(* Properties.                                                             *)

WorkerPhases == {"unborn", "reading", "locking", "resetting", "dispatching",
                 "replying", "closing", "done"}

ConnectionTypes ==
  /\ worker \in [Client -> WorkerPhases]
  /\ req \in [Client -> Request \cup {NoRequest}]
  /\ response \in [Client -> {"none", "idle", "composing", "ack"}]
  /\ sessions \in [Client -> SUBSET Session]
  /\ inbox \in [Client -> Request \cup {NoRequest}]
  /\ open \in [Client -> BOOLEAN]

ArbiterTypes ==
  /\ mutex \in {Nobody, Collector} \cup Client
  /\ owners \in [Session -> {Nobody} \cup Client]
  /\ active \in {Nobody} \cup Client
  /\ composing \subseteq Session \cup Client
  /\ composingFlag \in BOOLEAN
  /\ typist \in {Nobody} \cup Client

EngineTypes ==
  /\ engine \in [Session \cup {Legacy} -> {"none", "idle", "composing"}]
  /\ hidden \subseteq Session \cup {Legacy}
  /\ alive \in BOOLEAN

LoopTypes ==
  /\ stopping \in BOOLEAN
  /\ wakers \subseteq Client \cup {Collector}
  /\ gc \in {"sleeping", "locking", "confirmed", "collecting", "compacting",
             "ended"}
  /\ gcPending \in BOOLEAN
  /\ fresh \in BOOLEAN
  /\ main \in {"testing", "connecting", "blocked", "accepted", "spawning",
               "leaving", "stopped", "exited"}
  /\ instance \in {"listening", "client", "wake", "none"}
  /\ nextId \in 1..(MaxClient + 1)

(* Every variable has its type; in particular a worker's client_sessions   *)
(* and g_session_owners name only ids that came in a SESSION prefix.       *)
TypeOK == ConnectionTypes /\ ArbiterTypes /\ EngineTypes /\ LoopTypes

(* Between transactions the child holds a record for exactly the sessions  *)
(* some worker owns, and that worker is still there to close it: however   *)
(* connections, crashes and reconnects interleave, the engine neither      *)
(* leaks a session nobody will close nor loses one its client still uses   *)
(* (g_session_owners against ddskk-engine--sessions).                      *)
SessionsAreOwned ==
  alive /\ mutex \notin Client =>
    \A s \in Session :
      /\ engine[s] # "none" <=> owners[s] # Nobody
      /\ owners[s] # Nobody =>
           /\ s \in sessions[owners[s]]
           /\ worker[owners[s]] \notin {"unborn", "done"}

(* A client never types into the legacy conversion another client began:   *)
(* when an unscoped key reaches the child, the shared session has been     *)
(* reset since any other client's input (g_active_input_client).           *)
OneTypist ==
  \A c \in Client :
    worker[c] = "dispatching" /\ Input(req[c]) => typist \in {Nobody, c}

(* The collector never starts while a conversion is on screen: no session  *)
(* is composing, unless its last input was answered ERR (the host could    *)
(* not know), or it is the legacy conversion of a client that has left.    *)
Abandoned(x) == x = Legacy /\ active = Nobody
GcStarts == gc # "collecting" /\ gc' = "collecting"

GcSparesComposition ==
  [][GcStarts /\ alive =>
       \A x \in Session \cup {Legacy} :
         engine[x] = "composing" => x \in hidden \/ Abandoned(x)]_vars

(* No request waits while the collector's last test of idleness succeeds,  *)
(* and no collection starts without that test: what a collection keeps     *)
(* waiting was read between the test and its end, and is overtaken once.   *)
GcDefersToWaitingKey ==
  [][/\ gc # "confirmed" /\ gc' = "confirmed"
          => \A c \in Client : ~Transacting(c)
     /\ GcStarts => gc = "confirmed"]_vars

(* What the comment above IdleGcLoop promises beyond that: a key that has  *)
(* been read waits for a collection that runs, never for one merely        *)
(* decided upon.                                                           *)
NoKeyQueuesBehindGc ==
  [][GcStarts => \A c \in Client : ~Transacting(c)]_vars

(* RequestStop's argument: the throwaway connect is never lost.  Once the  *)
(* flag is up and every such connect has been made, wmain is not, and will *)
(* not get, stuck in ConnectNamedPipe on an instance nobody takes.         *)
NoLostWakeup ==
  stopping /\ wakers = {} =>
    ~(main \in {"connecting", "blocked"} /\ instance = "listening")

(* Once anybody asked the host to stop, wmain comes out of its accept loop *)
(* and the process exits (RequestStop, the accept loop, StopChild).        *)
StopCompletes == stopping ~> main = "exited"

(* A session whose application went away without CLOSE is given up: its    *)
(* worker closes it or a replacement connection takes it over.             *)
AbandonedSessionsReleased ==
  \A s \in Session, c \in Client :
    owners[s] = c /\ ~open[c] ~> owners[s] # c \/ main = "exited"
=============================================================================
