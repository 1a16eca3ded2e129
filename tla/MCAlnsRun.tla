------------------------------ MODULE MCAlnsRun ------------------------------
(* A chain of two, and two users of a tool that one edge ties to the chain, *)
(* on two presses.  In a window some of them are frozen work.               *)
EXTENDS AlnsRun

CONSTANTS Cut, Bend, Weld, Done, P1, P2, tool, a, b, early, late

MCOps == {Cut, Bend, Weld, Done}
MCMachines == {P1, P2}
MCResources == {tool}
MCStates == {a, b}
MCStateOf == [o \in MCOps |-> IF o \in {Bend, Done} THEN b ELSE a]
MCEligibleFor == [o \in MCOps |-> IF o = Done THEN {P1} ELSE MCMachines]
MCDuration == [o \in MCOps |-> [m \in MCMachines |-> IF o = Weld THEN 2 ELSE 1]]
MCBaseDuration == [o \in MCOps |-> IF o = Weld THEN 2 ELSE 1]
MCSetupMinutes ==
  [m \in MCMachines |-> [s \in MCStates |-> [t \in MCStates |-> IF s = t THEN 0 ELSE 1]]]
MCLatestFinish == [o \in MCOps |-> IF o = Weld THEN 5 ELSE None]
MCHardWindow == [o \in MCOps |-> FALSE]
MCNeeds == [o \in MCOps |-> [r \in MCResources |-> IF o \in {Weld, Done} THEN 1 ELSE 0]]
MCPoolSize == [r \in MCResources |-> 1]
MCCalendar == [m \in MCMachines |-> {}]
MCPredecessorOf == [o \in MCOps |-> IF o = Bend THEN Cut ELSE None]
MCEdges == {[src |-> Weld, dst |-> Bend, type |-> "SS", min_lag |-> 1]}
MCRelease == [o \in MCOps |-> 0]
MCOrders == {early, late}
MCOrderOf == [o \in MCOps |-> IF o \in {Weld, Done} THEN early ELSE late]
MCDue == [r \in MCOrders |-> IF r = early THEN 2 ELSE 3]
MCOrderPriority == [r \in MCOrders |-> 500]
MCWeights == [makespan |-> 2, setup |-> 1, tardiness |-> 1]

At(m, t, o) == Slot(m, t, MCDuration[o][m], 0)
Placed(m, t, o) == [x \in {o} |-> At(m, t, o)]
With(f, g) == [x \in DOMAIN f \cup DOMAIN g |-> IF x \in DOMAIN f THEN f[x] ELSE g[x]]

MCCase(old, warm, native, cover, large, constructive) ==
  [frozen |-> old, warm |-> warm, native |-> native, cover |-> cover, large |-> large,
   constructive |-> constructive]

Chain == With(Placed(P2, 0, Cut), Placed(P2, 3, Bend))
Late == With(Chain, With(Placed(P1, 0, Done), Placed(P1, 2, Weld)))
Slow == With(With(Placed(P2, 0, Cut), Placed(P2, 4, Bend)), With(Placed(P1, 0, Done), Placed(P1, 3, Weld)))
Torn == With(With(Placed(P2, 2, Cut), Placed(P2, 0, Bend)), With(Placed(P1, 0, Done), Placed(P1, 1, Weld)))
Hasty == With(Placed(P2, 2, Bend), Late)
NoOne == [x \in {} |-> None]

MCCases ==
  {\* The whole problem: a warm start that lacks an operation, or a poor seed.
   MCCase(NoOne, With(Chain, Placed(P1, 2, Weld)), None, None, FALSE, {NoOne, Slow}),
   MCCase(NoOne, NoOne, Torn, Late, TRUE, {Late}),
   \* A warm start that fits but opens an edge too early.
   MCCase(NoOne, Hasty, None, Chain, TRUE, {Slow}),
   \* A window beside Done, and one beside the head of the chain as well.
   MCCase(Placed(P1, 1, Done), With(Chain, Placed(P1, 1, Weld)), None, None, FALSE,
          {With(Chain, Placed(P2, 1, Weld)), Chain}),
   MCCase(With(Placed(P1, 1, Done), With(Placed(P2, 0, Cut), Placed(P1, 3, Weld))), Placed(P2, 0, Bend),
          Placed(P2, 1, Bend), None, FALSE, {Placed(P2, 3, Bend)})}
=============================================================================
