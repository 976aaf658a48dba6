\* One document, every fault: two incidents and a worker that overtakes.
SPECIFICATION Spec
CONSTANTS
  Context = {"A"}
  Keys = {"A", "a", "space", "return", "ctrlg"}
  Events = {"unknown", "timeout", "later", "denied", "latecallback", "terminate", "close", "mouse", "langbar", "reactivate", "postfail", "overtake"}
  MaxKeys = 4
  MaxCalls = 2
  MaxIncidents = 2
CHECK_DEADLOCK FALSE
INVARIANTS IInv CandidateUiOwned
PROPERTIES NewerCompositionSurvives WordReplacesReading
