\* Two connections of one session, SHUTDOWN, the threads' fairness.
SPECIFICATION FairSpec
CONSTANTS
  Session = {s1}
  Legacy = legacy
  MaxClient = 2
  Traffic <- StopTraffic
CHECK_DEADLOCK FALSE
PROPERTIES StopCompletes AbandonedSessionsReleased
