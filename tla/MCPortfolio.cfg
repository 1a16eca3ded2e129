SPECIFICATION Spec
CONSTANTS
  None = None
  o1 = o1
  o2 = o2
  Ops <- MCOps
  Starts <- MCStarts
  Windows <- MCWindows
  Environments <- MCEnvironments
  Platforms = {"posix", "nt", "none"}
  Requests <- MCRequests
  Questions <- MCQuestions
  Results <- MCResults
  MaxMemory = 2
  MaxCalls = 2
CHECK_DEADLOCK FALSE
INVARIANTS
  AnswersAreHonest
  TimeLimitIsStrictest
  RoutesFitTheProblem
PROPERTIES
  MemoryIsGuarded
