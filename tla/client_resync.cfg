\* One text service, two connections: every call may be abandoned.
SPECIFICATION ClientSpec
CONSTANTS
  Session = {s1}
  Legacy = legacy
  MaxClient = 2
  MaxKeys = 1
  Traffic <- CallTraffic
  Calls = {"KEY", "RESET", "PREVIEW"}
CONSTRAINT NeverIdle
CHECK_DEADLOCK FALSE
INVARIANTS ClientInv ResyncRestoresAgreement
