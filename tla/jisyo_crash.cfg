\* The process is killed while it appends to the journal.
SPECIFICATION Spec
CONSTANTS
  Midasi = {m1, m2}
  Candidate = {c1, c2}
  Fragment = fragment
  Garbled = garbled
  BatchSize = 2
  LearningDisabled = FALSE
  Faults = {"killed"}
  Cap = 3
PROPERTIES CrashLosesNothing
