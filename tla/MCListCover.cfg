SPECIFICATION CoverSpec
CONSTANTS
  None = None
  Prep = Prep
  Mix = Mix
  Dip = Dip
  Dry = Dry
  Coat = Coat
  Test = Test
  P1 = P1
  P2 = P2
  tool = tool
  a = a
  b = b
  Ops <- MCOps
  Machines <- MCMachines
  Resources <- MCResources
  States <- MCStates
  StateOf <- MCStateOf
  EligibleFor <- MCEligibleFor
  Duration <- MCDuration
  SetupMinutes <- MCSetupMinutes
  LatestFinish <- MCLatestFinish
  HardWindow <- MCHardWindow
  Needs <- MCNeeds
  PoolSize <- MCPoolSize
  Calendar <- MCCalendar
  PredecessorOf <- MCPredecessorOf
  Edges <- MCEdges
  Release <- MCRelease
  OpenFrom <- MCOpenFrom
  Earliest <- MCEarliest
  SeqRank <- MCSeqRank
  ListRank <- MCListRank
  StateRank <- MCStateRank
  MachineRank <- MCMachineRank
  HorizonEnd = 9
  DayMinutes = 8
  Horizon = 9
  Rules = {"fifo", "atcs"}
  FloorWindow = 5
  ExhaustWindow = 0
  MaxInserts = 1
  AppendScanMin = 3
  MaxVictims = 12
CHECK_DEADLOCK FALSE
INVARIANTS
  CoverIsSound
  LeftoversAreStuck
PROPERTIES
  NothingIsLost
