\* A cancelled reading has no candidate: its late result is a registration.
SPECIFICATION Spec
CONSTANTS
  Context = {"A"}
  Keys = {"A", "space", "ctrlj", "ctrlg"}
  Events = {"unknown"}
  MaxKeys = 4
  MaxCalls = 2
  MaxIncidents = 0
CHECK_DEADLOCK FALSE
PROPERTIES CancelledStaysCancelled
