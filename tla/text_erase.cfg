\* Backspace on a romaji prefix keeps the kana before it.
SPECIFICATION Spec
CONSTANTS
  Context = {"A"}
  Keys = {"k", "back", "."}
  Events = {}
  MaxKeys = 4
  MaxCalls = 2
  MaxIncidents = 0
CHECK_DEADLOCK FALSE
INVARIANTS EachKeyOnce
