--------------------------- MODULE MCEngineClient ---------------------------
(* Instances of EngineClient for TLC.                                      *)
EXTENDS EngineClientInv

CallTraffic ==
  [scope : Session, verb : {"KEY", "RESET"}] \cup
  [scope : {Legacy}, verb : {"PREVIEW"}]

(* BOUND of the client_ runs: the idle interval does not pass.  The only   *)
(* effect of the collector on a call is a delay, which free scheduling and *)
(* Abandon already allow; EngineHost's own runs exercise it.               *)
NeverIdle == gcPending => fresh
=============================================================================
