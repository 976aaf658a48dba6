\* Two connections sharing one scoped session.
SPECIFICATION Spec
CONSTANTS
  Session = {s1}
  Legacy = legacy
  MaxClient = 2
  Traffic <- ScopedTraffic
CHECK_DEADLOCK FALSE
INVARIANTS SessionsAreOwned IInv
