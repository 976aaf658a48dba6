---------------------------- MODULE MCEngineHost ----------------------------
(* Instances of EngineHost for TLC.                                        *)
EXTENDS EngineHostInv

ScopedTraffic ==
  [scope : Session, verb : {"KEY", "SET", "CLOSE"}]

LegacyTraffic ==
  [scope : {Legacy}, verb : {"KEY", "RESET", "SHUTDOWN"}]

(* For liveness: a request that opens the session is enough; the host is   *)
(* stopped by the death of the child or by a failed instance.              *)
StopTraffic == [scope : Session, verb : {"QUERY"}]
=============================================================================
