SPECIFICATION Spec
CONSTANTS
  None = None
  Cut = Cut
  Bend = Bend
  Weld = Weld
  Pack = Pack
  Tooled = Tooled
  Coated = Coated
  Rush = Rush
  Press = Press
  Mill = Mill
  tool = tool
  a = a
  b = b
  Ops <- MCOps
  Machines <- MCMachines
  Resources <- MCResources
  States <- MCStates
  StateOf <- MCStateOf
  EligibleFor <- MCEligibleFor
  Duration <- MCDuration
  SetupMinutes <- MCSetupMinutes
  LatestFinish <- MCLatestFinish
  HardWindow <- MCHardWindow
  Needs <- MCNeeds
  PoolSize <- MCPoolSize
  Calendar <- MCCalendar
  PredecessorOf <- MCPredecessorOf
  Edges <- MCEdges
  Release <- MCRelease
  HorizonEnd = 14
  IssuedPlans <- MCPlans
  LateOps <- MCLateOps
  Requests <- MCRequests
  Priority <- MCPriority
  LargeProblem = {TRUE, FALSE}
  MaxWaves = 2
CHECK_DEADLOCK FALSE
INVARIANTS
  ClaimMeansLegal
  WholeChainsMove
PROPERTIES
  OnlyTheDisruptedMoves
