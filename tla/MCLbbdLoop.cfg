SPECIFICATION FairSpec
CONSTANTS
  None = None
  Infinity = Infinity
  Split = Split
  Joint = Joint
  Tight = Tight
  Assignments <- MCAssignments
  Clusters <- MCClusters
  Unsolvable <- MCUnsolvable
  ClustersOf <- MCClustersOf
  Relax <- MCRelax
  LegalCost <- MCLegalCost
  Makespans <- MCMakespans
  NumWorkers = 2
  MaxIterations = 4
  GapPercent = 15
  ParallelAbove = 1
CHECK_DEADLOCK FALSE
INVARIANTS
  StatusIsTrue
  BoundsAreSound
  RoundsDoNotOverlap
PROPERTIES
  SolveEnds
