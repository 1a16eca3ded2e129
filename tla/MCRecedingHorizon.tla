------------------------- MODULE MCRecedingHorizon -------------------------
(* Two orders on two machines over windows of six minutes that overlap by  *)
(* two.  Press needs a cleaning between a and b and back; Pack and Dye     *)
(* share one jig.  The second order is released at 4, and its first        *)
(* operation has a window of its own that only says when it must end.  The *)
(* solver may plan two minutes past the planning horizon.                  *)
EXTENDS RecedingHorizon

CONSTANTS Cut, Bend, Pack, Dye, Dry, Press, Mill, jig, a, b

MCOps == {Cut, Bend, Pack, Dye, Dry}
MCMachines == {Press, Mill}
MCResources == {jig}
MCStates == {a, b}

(* A value for each operation, in the order of the chains. *)
PerOp(cut, bend, pack, dye, dry) ==
  [o \in MCOps |-> CASE o = Cut -> cut [] o = Bend -> bend [] o = Pack -> pack
                     [] o = Dye -> dye [] o = Dry -> dry]

MCStateOf == PerOp(a, b, a, a, b)
MCEligibleFor == PerOp({Press}, MCMachines, {Mill}, MCMachines, {Press})
MCDuration == [o \in MCOps |-> [m \in MCMachines |-> PerOp(2, 2, 1, IF m = Mill THEN 3 ELSE 2, 1)[o]]]
MCSetupMinutes ==
  [m \in MCMachines |-> [s \in MCStates |-> [t \in MCStates |->
     IF m = Press /\ s # t THEN 1 ELSE 0]]]
MCLatestFinish == PerOp(None, 5, None, 7, None)
MCHardWindow == PerOp(FALSE, TRUE, FALSE, TRUE, FALSE)
MCNeeds == [o \in MCOps |-> [r \in MCResources |-> IF o \in {Pack, Dye} THEN 1 ELSE 0]]
MCPoolSize == [r \in MCResources |-> 1]
MCCalendar == [m \in MCMachines |-> {}]
MCPredecessorOf == PerOp(None, Cut, Bend, None, Dye)
MCEdges == {}
MCRelease == PerOp(0, 0, 0, 4, 4)
MCOpenFrom == PerOp(0, 0, 0, 0, 0)
MCEarliest == PerOp(0, 2, 4, 4, 6)
MCAdmissionOffset == PerOp(8, 8, 9, 10, 15)
MCDueOffset == PerOp(11, 11, 11, 11, 11)
MCSeqRank == PerOp(1, 3, 5, 2, 4)
MCEarliestRank == PerOp(1, 2, 4, 3, 5)
MCAdmissionRank == PerOp(1, 2, 3, 4, 5)
MCDispatchRank == PerOp(3, 4, 5, 1, 2)
MCCoverRank == PerOp(1, 4, 3, 5, 2)

At(m, t, o) == [wc |-> m, start |-> t, end |-> t + MCDuration[o][m], setup |-> 0]

(* Two incumbents are legal; one starts Bend before Cut ends and has Pack  *)
(* and Dye hold the jig together.                                          *)
MCIncumbents ==
  {PerOp(At(Press, 0, Cut), At(Mill, 2, Bend), At(Mill, 6, Pack), At(Press, 4, Dye), At(Press, 7, Dry)),
   PerOp(At(Press, 0, Cut), At(Press, 3, Bend), At(Mill, 7, Pack), At(Mill, 4, Dye), At(Press, 7, Dry)),
   PerOp(At(Press, 0, Cut), At(Mill, 1, Bend), At(Mill, 5, Pack), At(Press, 4, Dye), At(Press, 7, Dry))}

Options(on) ==
  [x \in {"inner", "gate", "backtracking", "adaptive", "repair", "repairOnTimeout"} |-> x \in on]
MCConfigs ==
  {Options({"inner", "gate", "backtracking", "adaptive", "repair", "repairOnTimeout"}),
   Options({"inner", "backtracking", "repair"}),
   Options({"inner", "gate"}),
   Options({"backtracking", "adaptive", "repair", "repairOnTimeout"})}
=============================================================================
