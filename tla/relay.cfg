\* A request may look up one word more than the limit allows; the second
\* request may be the one that a waiting child takes for a reply.
SPECIFICATION Spec
CONSTANTS
  Word = {"local", "remote"}
  Known = {"remote"}
  Files <- TwoFiles
  Limit = 1
  MaxAsks = 2
  MaxRequests = 2
  MaxIncidents = 2
CHECK_DEADLOCK FALSE
INVARIANTS IInv LookupAnswersItsWord AnswerIsForItsRequest MergeIsUnion
PROPERTIES RestartedServerIsUsed BarrierShowsFirst DispatchEnds QuestionsAreAnswered
