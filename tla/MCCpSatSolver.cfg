SPECIFICATION Spec
CONSTANTS
  None = None
  Cut = Cut
  Bend = Bend
  Weld = Weld
  Pack = Pack
  Done = Done
  P1 = P1
  P2 = P2
  tool = tool
  a = a
  b = b
  early = early
  late = late
  SameShifts = TRUE
  Ops <- MCOps
  Machines <- MCMachines
  Resources <- MCResources
  States <- MCStates
  StateOf <- MCStateOf
  EligibleFor <- MCEligibleFor
  Duration <- MCDuration
  SetupMinutes <- MCSetupMinutes
  LatestFinish <- MCLatestFinish
  HardWindow <- MCHardWindow
  Needs <- MCNeeds
  PoolSize <- MCPoolSize
  Calendar <- MCCalendar
  PredecessorOf <- MCPredecessorOf
  Edges <- MCEdges
  Release <- MCRelease
  HorizonEnd = 6
  Orders <- MCOrders
  OrderOf <- MCOrderOf
  Due <- MCDue
  Problems <- MCProblems
  Settings <- MCSettings
  MachineOrder <- MCOrder
  Group <- MCGroup
  SafeMax = 900
  Grid <- MCGrid
  Primary = "tardiness"
  Slacks = {0, 1}
  Gaps = {0, 1, 40}
CHECK_DEADLOCK FALSE
INVARIANTS
  AnswerIsLegal
  OptimumIsProved
  SliceIsParetoBest
