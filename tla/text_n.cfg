\* A mode letter after n: the kana of the n stays in text_.
SPECIFICATION Spec
CONSTANTS
  Context = {"A"}
  Keys = {"n", "l", "ctrlj"}
  Events = {}
  MaxKeys = 4
  MaxCalls = 2
  MaxIncidents = 0
CHECK_DEADLOCK FALSE
INVARIANTS EachKeyOnce
