\* Two documents, no fault: keys, queue, provider and focus interleave.
SPECIFICATION Spec
CONSTANTS
  Context = {"A", "B"}
  Keys = {"A", "a", "l", "space", "return", "back", "ctrlj", "ctrlg"}
  Events = {}
  MaxKeys = 5
  MaxCalls = 2
  MaxIncidents = 0
CHECK_DEADLOCK FALSE
INVARIANTS EachKeyOnce ArrivalOrder KeysStayInTheirDocument ShownIsSent KanaModeIsShared SecondQuitEnds
PROPERTIES CancelledStaysCancelled QueuedKeysAreServed
