SPECIFICATION Spec
CONSTANTS
  None = None
  Cut = Cut
  Bend = Bend
  Pack = Pack
  Dye = Dye
  Dry = Dry
  Press = Press
  Mill = Mill
  jig = jig
  a = a
  b = b
  Ops <- MCOps
  Machines <- MCMachines
  Resources <- MCResources
  States <- MCStates
  StateOf <- MCStateOf
  EligibleFor <- MCEligibleFor
  Duration <- MCDuration
  SetupMinutes <- MCSetupMinutes
  LatestFinish <- MCLatestFinish
  HardWindow <- MCHardWindow
  Needs <- MCNeeds
  PoolSize <- MCPoolSize
  Calendar <- MCCalendar
  PredecessorOf <- MCPredecessorOf
  Edges <- MCEdges
  Release <- MCRelease
  HorizonEnd = 14
  OpenFrom <- MCOpenFrom
  Earliest <- MCEarliest
  AdmissionOffset <- MCAdmissionOffset
  DueOffset <- MCDueOffset
  SeqRank <- MCSeqRank
  EarliestRank <- MCEarliestRank
  AdmissionRank <- MCAdmissionRank
  DispatchRank <- MCDispatchRank
  CoverRank <- MCCoverRank
  Horizon = 16
  WindowMinutes = 6
  OverlapMinutes = 2
  MaxWindows = None
  OpCap = 2
  PoolLimit = 4
  AdmissionActive = TRUE
  ReadyFilter = TRUE
  FillTarget = 2
  MaxStretch = 2
  RelaxTarget = 1
  ScanTarget = 1
  BacktrackTail = 2
  BacktrackMax = 3
  Incumbents <- MCIncumbents
  Configs <- MCConfigs
CHECK_DEADLOCK FALSE
INVARIANTS
  CommitmentIsOrdered
  ClaimIsTrue
PROPERTIES
  SealedWorkStays
  RunEnds
