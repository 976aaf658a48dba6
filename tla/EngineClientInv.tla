--------------------------- MODULE EngineClientInv ---------------------------
(***************************************************************************)
(* The inductive invariant of EngineClient composed with the host: whose   *)
(* request a connection carries at every point of a call, and what the     *)
(* engine's session then holds.  The run client_resync checks it,          *)
(* EngineClient_proofs proves it.                                          *)
(***************************************************************************)
EXTENDS EngineClient, EngineHostInv

(* A call in progress was made with one of the requests it may send.       *)
CallsKnown ==
  \A s \in Session :
    phase[s] \in {"connecting", "sending", "resyncing", "waiting"} =>
      \E v \in Calls : want[s] = Ask(s, v)

(* Handles are open, and no two clients hold the same one.                 *)
HandlesOpen ==
  \A s \in Session :
    /\ phase[s] \in {"sending", "resyncing", "waiting"} => pipe[s] # Nobody
    /\ pipe[s] # Nobody =>
         /\ open[pipe[s]]
         /\ \A other \in Session : pipe[other] = pipe[s] => other = s

(* A connection that has not been made is not open, and nothing is in it.  *)
Unclaimed ==
  \A c \in Client :
    c > nextId \/ (c = nextId /\ instance = "listening") =>
      ~open[c] /\ inbox[c] = NoRequest /\ response[c] = "none"

(* Without a pipe a client owes a resync; it connects only without one.    *)
ResyncOwed ==
  \A s \in Session :
    /\ pipe[s] = Nobody => resync[s] \/ phase[s] = "gone"
    /\ phase[s] = "connecting" => pipe[s] = Nobody

CallTypes ==
  /\ pipe \in [Session -> {Nobody} \cup Client]
  /\ resync \in [Session -> BOOLEAN]
  /\ phase \in [Session -> CallPhases]
  /\ want \in [Session -> Request \cup {NoRequest}]

CountTypes ==
  /\ typed \in [Session -> 0..(MaxKeys + 1)]
  /\ held \in [Session -> 0..(MaxKeys + 1)]
  /\ shown \in [Client -> 0..(MaxKeys + 1)]
  /\ overtaken \subseteq Session

(* The host's worker of a client's connection is where the client takes it *)
(* to be: nothing asked, or the client's own request or its reply.         *)
Ending(c) == worker[c] \in {"closing", "done"}
Sent(s) == IF phase[s] = "resyncing" THEN Ask(s, "RESET") ELSE want[s]
Silent(c) == inbox[c] = NoRequest /\ response[c] = "none"
Lane(s, c) ==
  \/ phase[s] \in {"idle", "sending"} /\ Silent(c) /\ worker[c] \in {"unborn", "reading"}
  \/ /\ phase[s] \in {"resyncing", "waiting"}
     /\ \/ /\ inbox[c] = Sent(s) /\ response[c] = "none"
           /\ worker[c] \in {"unborn", "reading"}
        \/ Silent(c) /\ req[c] = Sent(s) /\ worker[c] \in {"locking", "dispatching"}
        \/ /\ inbox[c] = NoRequest /\ response[c] # "none"
           /\ worker[c] = "reading" \/ (worker[c] = "replying" /\ req[c] = Sent(s))
LaneOf(s) == pipe[s] # Nobody => Ending(pipe[s]) \/ Lane(s, pipe[s])
Lanes == \A s \in Session : LaneOf(s)

(* From the answer to the resync RESET on, the session is the client's, or *)
(* an abandoned request is about to take it; and it holds what the client  *)
(* was shown, or will be when it reads the reply.                          *)
Synced(s, c) ==
  IF phase[s] = "resyncing" THEN response[c] # "none" ELSE ~resync[s]
Due(s, c) ==
  CASE phase[s] = "resyncing" -> 0
    [] phase[s] = "waiting" /\ response[c] # "none" -> TypedAfter(s, c)
    [] OTHER -> typed[s]
StaleInside(s, c) ==
  \E d \in Client : d # c /\ worker[d] = "dispatching" /\ req[d].scope = s
Agrees(s, c) ==
  alive /\ s \notin overtaken /\ ~Ending(c) /\ Synced(s, c) =>
    /\ owners[s] = c \/ StaleInside(s, c)
    /\ s \notin hidden => held[s] = Due(s, c)
Agreement ==
  /\ \A s \in Session : pipe[s] # Nobody => Agrees(s, pipe[s])
  /\ \A s \in Session : engine[s] # "composing" => held[s] = 0

ClientInv ==
  /\ IInv
  /\ CallTypes /\ CountTypes /\ CallsKnown /\ HandlesOpen /\ Unclaimed
  /\ ResyncOwed /\ Lanes /\ Agreement
=============================================================================
