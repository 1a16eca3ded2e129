SPECIFICATION Spec
CONSTANTS
  None = None
  Early = Early
  Late = Late
  Urgent = Urgent
  Tooled = Tooled
  Capped = Capped
  Filler = Filler
  Plain = Plain
  Line1 = Line1
  Line2 = Line2
  tool = tool
  a = a
  b = b
  Ops <- MCOps
  Machines <- MCMachines
  Resources <- MCResources
  States <- MCStates
  StateOf <- MCStateOf
  EligibleFor <- MCEligibleFor
  Duration <- MCDuration
  SetupMinutes <- MCSetupMinutes
  LatestFinish <- MCLatestFinish
  HardWindow <- MCHardWindow
  Needs <- MCNeeds
  PoolSize <- MCPoolSize
  Calendar <- MCCalendar
  PredecessorOf <- MCPredecessorOf
  Edges <- MCEdges
  Release <- MCRelease
  ShortestDuration <- MCShortestDuration
  LargeProblem = {TRUE, FALSE}
CHECK_DEADLOCK FALSE
INVARIANTS
  TimelinesSeparated
  WindowsAndLagsHold
  AppendKeepsPoolsAndShifts
