\* The engine answers an arrow key for a reading it does not have.
SPECIFICATION Spec
CONSTANTS
  Context = {"A", "B"}
  Keys = {"A", "left"}
  Events = {}
  MaxKeys = 3
  MaxCalls = 2
  MaxIncidents = 0
CHECK_DEADLOCK FALSE
INVARIANTS KeysStayInTheirDocument
