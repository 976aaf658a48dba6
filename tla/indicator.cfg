\* A second host clears the memory that Sumi kept of the first one.
SPECIFICATION Spec
CONSTANTS
  Lines = {"hiragana", "registration"}
  MaxWrites = 2
  MaxLives = 2
  MaxIncidents = 2
  Cap = 1
  Budget = 2
CHECK_DEADLOCK FALSE
INVARIANTS IInv AcceptedCopyIsOneLine ReadyMeansRestarted
PROPERTIES NewestStateShown MirrorIsARegister
