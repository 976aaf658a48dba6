\* Two clients without SESSION ids contend for the shared legacy session.
SPECIFICATION Spec
CONSTANTS
  Session = {}
  Legacy = legacy
  MaxClient = 2
  Traffic <- LegacyTraffic
CHECK_DEADLOCK FALSE
INVARIANTS OneTypist NoLostWakeup
PROPERTIES GcSparesComposition GcDefersToWaitingKey
