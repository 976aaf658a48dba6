\* A queued key that is replayed in latin mode stays in raw_keys_.
SPECIFICATION Spec
CONSTANTS
  Context = {"A"}
  Keys = {"A", "l", "space", "ctrlj"}
  Events = {}
  MaxKeys = 6
  MaxCalls = 2
  MaxIncidents = 0
CHECK_DEADLOCK FALSE
INVARIANTS ShownIsConverted
