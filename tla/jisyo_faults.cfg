\* Every fault: short writes, unreadable files, the process killed in a write.
SPECIFICATION Spec
CONSTANTS
  Midasi = {m1, m2}
  Candidate = {c1, c2}
  Fragment = fragment
  Garbled = garbled
  BatchSize = 2
  LearningDisabled = FALSE
  Faults = {"unopened", "short", "unreadable", "killed"}
  Cap = 3
SYMMETRY Symmetry
CONSTRAINT ShortLists
INVARIANTS TypeOK OnlyTheLastLineCounts
PROPERTIES JournalGivenUpWhenSaved
