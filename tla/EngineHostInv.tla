--------------------------- MODULE EngineHostInv ---------------------------
(***************************************************************************)
(* The inductive invariant of EngineHost: what every interleaving of the   *)
(* workers, the collector and the accept loop keeps true, each conjunct    *)
(* named for the reason it holds.  MCEngineHost checks it on instances,    *)
(* EngineHost_proofs proves it for every value of the constants.           *)
(***************************************************************************)
EXTENDS EngineHost

(* The transaction lock excludes: whoever is inside a transaction with the *)
(* child is the holder of g_engine_mutex, and the only one.                *)
MutexHeld ==
  /\ \A c \in Client : worker[c] \in {"resetting", "dispatching"} <=> mutex = c
  /\ gc \in {"confirmed", "collecting", "compacting"} <=> mutex = Collector

(* What a worker takes to the lock is a request for the child.             *)
RequestInHand ==
  \A c \in Client :
    /\ Transacting(c) =>
         /\ req[c] \in Request
         /\ req[c].verb \notin {"PREVIEW", "SHUTDOWN"}
    /\ worker[c] = "resetting" => Input(req[c])

(* Workers exist for the connections accepted so far.                      *)
WorkersAccepted == \A c \in Client : worker[c] = "unborn" <=> c >= nextId

(* The accept loop and the spare instance it listens on.                   *)
SpareInstance ==
  /\ instance = "client" => nextId <= MaxClient
  /\ instance = "wake" => stopping
  /\ wakers # {} => stopping
  /\ main \in {"testing", "connecting"} => instance # "none"
  /\ main = "blocked" => instance = "listening"
  /\ main = "accepted" => instance \in {"client", "wake"}
  /\ main = "spawning" => instance = "client"

(* g_session_owners points at a live worker that will close the session.   *)
OwnerServes ==
  \A s \in Session :
    owners[s] # Nobody =>
      /\ s \in sessions[owners[s]]
      /\ worker[owners[s]] \notin {"unborn", "done"}

(* A worker inside a transaction owns the session it is about.             *)
DispatcherOwns ==
  \A c \in Client :
    worker[c] = "dispatching" /\ Scoped(req[c]) => owners[req[c].scope] = c

(* The child's records and g_session_owners differ only in the session of  *)
(* the transaction in progress.                                            *)
InProgress(s) ==
  \E c \in Client :
    /\ mutex = c
    /\ worker[c] = "dispatching"
    /\ req[c].scope = s

RecordsOwned ==
  alive => \A s \in Session :
    /\ engine[s] # "none" => owners[s] # Nobody
    /\ owners[s] # Nobody => engine[s] # "none" \/ InProgress(s)

(* g_session_composing is the emptiness test of g_composing_sessions, and  *)
(* that set misses no composition a STATE line has reported.               *)
ResetInProgress(c) ==
  worker[c] = "dispatching" /\ PlainReset(req[c])

CompositionsTracked ==
  /\ composingFlag <=> composing # {}
  /\ alive =>
       /\ \A s \in Session :
            engine[s] = "composing" => s \in composing \cup hidden
       /\ engine[Legacy] = "composing" /\ Legacy \notin hidden
            /\ active # Nobody
            => active \in composing \/ ResetInProgress(active)

(* The legacy session is typed into by the active client only; a leftover  *)
(* of another client survives only until the RESET in progress, or in a    *)
(* child that is already dead.                                             *)
ActiveTypist ==
  /\ \A c \in Client :
       worker[c] = "dispatching" /\ (Input(req[c]) \/ PlainReset(req[c])) =>
         active = c
  /\ typist # Nobody /\ active # Nobody /\ typist # active =>
       \/ ResetInProgress(active)
       \/ ~alive /\ worker[active] = "closing"

(* A request that has been read keeps the activity tick fresh.             *)
WaitingIsFresh == \A c \in Client : Transacting(c) => fresh

(* The inductive invariant: no conjunct survives a step of the host without *)
(* the others, and together they give each safety property of EngineHost.  *)
IInv ==
  /\ TypeOK
  /\ MutexHeld /\ RequestInHand /\ WorkersAccepted /\ SpareInstance
  /\ OwnerServes /\ DispatcherOwns /\ RecordsOwned
  /\ CompositionsTracked /\ ActiveTypist /\ WaitingIsFresh
  /\ NoLostWakeup
=============================================================================
