SPECIFICATION AlnsSpec
CONSTANTS
  None = None
  Cut = Cut
  Bend = Bend
  Weld = Weld
  Done = Done
  P1 = P1
  P2 = P2
  tool = tool
  a = a
  b = b
  early = early
  late = late
  Ops <- MCOps
  Machines <- MCMachines
  Resources <- MCResources
  States <- MCStates
  StateOf <- MCStateOf
  EligibleFor <- MCEligibleFor
  Duration <- MCDuration
  SetupMinutes <- MCSetupMinutes
  LatestFinish <- MCLatestFinish
  HardWindow <- MCHardWindow
  Needs <- MCNeeds
  PoolSize <- MCPoolSize
  Calendar <- MCCalendar
  PredecessorOf <- MCPredecessorOf
  Edges <- MCEdges
  Release <- MCRelease
  Orders <- MCOrders
  OrderOf <- MCOrderOf
  Due <- MCDue
  BaseDuration <- MCBaseDuration
  OrderPriority <- MCOrderPriority
  Weights <- MCWeights
  Cases <- MCCases
  HorizonEnd = 6
  FixedIds = {Bend}
  DestroySize = 2
  MaxDestroy = 2
  CpSatMaxDestroy = 2
  MaxIterations = 2
  MaxNoImprove = 2
CHECK_DEADLOCK FALSE
INVARIANTS
  StatusIsTrue
  CostsAreTrue
  NeverWorseThanSeed
  DestroyedIsClosed
