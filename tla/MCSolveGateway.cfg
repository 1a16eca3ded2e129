SPECIFICATION FairSpec
CONSTANTS
  r1 = r1
  r2 = r2
  alns = alns
  greed = greed
  Null = Null
  Requests <- MCRequests
  Solvers <- MCSolvers
  Initials <- MCInitials
  Sizes <- MCSizes
  ExactSolvers <- MCNoSolvers
  HeavySolvers <- MCHeavySolvers
  MaxOperations = 2
  ExactMaxOperations = 1
  HeavyMaxOperations = 1
  LimitGuards = TRUE
  LimitGuardChain <- MCChain
  MaxConcurrent = 1
  Outcomes <- MCOutcomes
CHECK_DEADLOCK FALSE
INVARIANTS
  GateIsExact
  RetryKeepsItsSlot
  AnswerFitsAttempts
PROPERTIES
  EveryRequestAnswered
