\* A request is read between the last test of idleness and GC.
SPECIFICATION Spec
CONSTANTS
  Session = {}
  Legacy = legacy
  MaxClient = 1
  Traffic <- LegacyTraffic
CHECK_DEADLOCK FALSE
PROPERTIES NoKeyQueuesBehindGc
