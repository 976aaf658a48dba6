\* Writes happen entirely or not at all; the process may end between them.
SPECIFICATION Spec
CONSTANTS
  Midasi = {m1, m2}
  Candidate = {c1, c2}
  Fragment = fragment
  Garbled = garbled
  BatchSize = 2
  LearningDisabled = FALSE
  Faults = {"unopened"}
  Cap = 3
SYMMETRY Symmetry
INVARIANTS NoWordTwice
PROPERTIES WordByWord
