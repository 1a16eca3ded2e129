------------------------ MODULE MCIncrementalRepair ------------------------
(* A chain of four operations, a tooled operation, a coated one and a rush *)
(* order on two machines.  Press needs a cleaning between two operations   *)
(* of the same state that a coated one in between makes unnecessary; Mill  *)
(* has two shifts.                                                         *)
EXTENDS IncrementalRepair

CONSTANTS Cut, Bend, Weld, Pack, Tooled, Coated, Rush, Press, Mill, tool, a, b

MCOps == {Cut, Bend, Weld, Pack, Tooled, Coated, Rush}
MCLateOps == {Rush}
MCMachines == {Press, Mill}
MCResources == {tool}
MCStates == {a, b}

MCStateOf == [o \in MCOps |-> IF o \in {Coated, Weld, Rush} THEN b ELSE a]
MCEligibleFor ==
  [o \in MCOps |-> CASE o \in {Cut, Bend, Coated} -> {Press}
                     [] o = Rush -> {Mill}
                     [] OTHER -> MCMachines]
MCDuration == [o \in MCOps |-> [m \in MCMachines |-> IF o = Tooled THEN 2 ELSE 1]]
MCSetupMinutes ==
  [m \in MCMachines |-> [s \in MCStates |-> [t \in MCStates |->
     CASE m = Press -> IF s = a /\ t = a THEN 2 ELSE 0
       [] m = Mill -> IF s = t THEN 0 ELSE 1]]]
MCLatestFinish == [o \in MCOps |-> IF o = Pack THEN 12 ELSE None]
MCHardWindow == [o \in MCOps |-> o = Pack]
MCNeeds == [o \in MCOps |-> [r \in MCResources |-> IF o \in {Tooled, Bend, Rush} THEN 1 ELSE 0]]
MCPoolSize == [r \in MCResources |-> 1]
MCCalendar ==
  [m \in MCMachines |->
     IF m = Press THEN {} ELSE {[open |-> 0, close |-> 5], [open |-> 6, close |-> 14]}]
MCPredecessorOf ==
  [o \in MCOps |-> CASE o = Bend -> Cut [] o = Weld -> Bend [] o = Pack -> Weld [] OTHER -> None]
MCEdges == {[src |-> Cut, dst |-> Tooled, type |-> "SS", min_lag |-> 1]}
MCRelease == [o \in MCOps |-> IF o = Rush THEN 2 ELSE 0]
MCPriority == [o \in MCOps |-> IF o \in {Rush, Coated} THEN 2 ELSE 1]

(* Issued plans: the clean ones on a grid of slots. *)
At(m, t, o) == [wc |-> m, start |-> t, end |-> t + MCDuration[o][m], setup |-> 0]
MCSlots(o) ==
  CASE o = Cut -> {At(Press, t, o) : t \in {0, 2}}
    [] o = Bend -> {At(Press, t, o) : t \in {2, 5}}
    [] o = Weld -> {At(Mill, 4, o), At(Press, 6, o), At(Mill, 7, o)}
    [] o = Pack -> {At(Mill, 9, o), At(Mill, 10, o)}
    [] o = Tooled -> {At(Press, 7, o), At(Mill, 6, o), At(Mill, 11, o)}
    [] o = Coated -> {At(Press, t, o) : t \in {1, 4}}
MCPlan(c, e, w, p, t, x) ==
  [o \in MCOps \ MCLateOps |->
     CASE o = Cut -> c [] o = Bend -> e [] o = Weld -> w
       [] o = Pack -> p [] o = Tooled -> t [] o = Coated -> x]
MCPlans ==
  {RecomputeSetups(q) : q \in
     {p \in {MCPlan(c, e, w, k, t, x) :
               c \in MCSlots(Cut), e \in MCSlots(Bend), w \in MCSlots(Weld),
               k \in MCSlots(Pack), t \in MCSlots(Tooled), x \in MCSlots(Coated)} :
        Legal(MCOps \ MCLateOps, p)}}

Request(disrupted, radius, regime, freezeEnd, breakFreeze, notary) ==
  [disrupted |-> disrupted, radius |-> radius, regime |-> regime,
   freezeEnd |-> freezeEnd, breakFreeze |-> breakFreeze, notary |-> notary]
MCRequests ==
  {Request({Cut}, None, "breakdown", None, FALSE, "exhaustive"),
   Request({Coated}, 0, "breakdown", None, FALSE, "delta"),
   Request({Weld}, 0, "breakdown", None, FALSE, "delta"),
   Request({Bend}, 1, "breakdown", 4, FALSE, "delta"),
   Request({Rush}, None, "rush_order", 5, FALSE, "delta"),
   Request({Tooled, Coated}, None, "rush_order", 5, FALSE, "shadow"),
   Request({Tooled}, None, "interactive", 7, TRUE, "exhaustive")}
=============================================================================
