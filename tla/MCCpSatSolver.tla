---------------------------- MODULE MCCpSatSolver ----------------------------
(* Two operations of a chain, a tooled pair and an edge between them on    *)
(* two presses; the presses are interchangeable except, where a run says   *)
(* so, for their shifts.  Done is frozen work of an earlier plan.          *)
EXTENDS CpSatSolver

CONSTANTS Cut, Bend, Weld, Pack, Done, P1, P2, tool, a, b, early, late,
          SameShifts

MCOps == {Cut, Bend, Weld, Pack, Done}
MCMachines == {P1, P2}
MCOrder == <<P1, P2>>
MCResources == {tool}
MCStates == {a, b}
MCStateOf == [o \in MCOps |-> IF o = Bend THEN b ELSE a]
MCEligibleFor == [o \in MCOps |-> MCMachines]
MCDuration == [o \in MCOps |-> [m \in MCMachines |-> IF o \in {Cut, Weld} THEN 2 ELSE 1]]
MCSetupMinutes ==
  [m \in MCMachines |-> [s \in MCStates |-> [t \in MCStates |-> IF s = t THEN 0 ELSE 1]]]
MCLatestFinish == [o \in MCOps |-> IF o = Pack THEN 5 ELSE None]
MCHardWindow == [o \in MCOps |-> FALSE]
MCNeeds == [o \in MCOps |-> [r \in MCResources |-> IF o \in {Weld, Bend, Done} THEN 1 ELSE 0]]
MCPoolSize == [r \in MCResources |-> 1]
MCCalendar ==
  [m \in MCMachines |->
     IF m = P1 /\ ~ SameShifts THEN {[open |-> 4, close |-> 6]}
     ELSE {[open |-> 0, close |-> 4], [open |-> 4, close |-> 6]}]
MCPredecessorOf == [o \in MCOps |-> IF o = Bend THEN Cut ELSE None]
MCEdges == {[src |-> Weld, dst |-> Pack, type |-> "SS", min_lag |-> 1]}
MCRelease == [o \in MCOps |-> IF o = Weld THEN 1 ELSE 0]
MCOrders == {early, late}
MCOrderOf == [o \in MCOps |-> IF o \in {Weld, Pack} THEN early ELSE late]
MCDue == [r \in MCOrders |-> IF r = early THEN 2 ELSE 3]
MCGroup == [m \in MCMachines |-> "press"]

MCFixed == [o \in {Done} |-> [wc |-> P1, start |-> 2, end |-> 3, setup |-> 1]]
MCFixedTooEarly == [o \in {Done} |-> [wc |-> P1, start |-> 0, end |-> 1, setup |-> 1]]
MCProblems ==
  {[ops |-> MCOps \ {Done}, fixed |-> [x \in {} |-> None]],
   [ops |-> {Cut, Weld, Bend}, fixed |-> MCFixed],
   [ops |-> {Cut}, fixed |-> MCFixedTooEarly]}

Setting(symmetry, mode, primary, cap, setup, tardiness) ==
  [symmetry |-> symmetry, mode |-> mode, primary |-> primary, cap |-> cap,
   setup |-> setup, tardiness |-> tardiness]
MCSettings ==
  {Setting(FALSE, "weighted_sum", "makespan", None, 1, 1),
   Setting(TRUE, "weighted_sum", "makespan", None, 0, 2),
   Setting(TRUE, "weighted_sum", "makespan", None, 9, 9),
   Setting(FALSE, "weighted_sum", "makespan", 5, 1, 1),
   Setting(TRUE, "epsilon_primary", "setup", 6, 1, 1),
   Setting(FALSE, "epsilon_primary", "tardiness", None, 1, 1)}
MCGrid == <<100, 125>>
=============================================================================
