-------------------------- MODULE MCGreedyDispatch --------------------------
(* Seven operations on two machines that switch between two setup states.   *)
(* Late arrives last and leaves a gap behind it, Urgent has a hard window, *)
(* Tooled and Capped compete for the only tool, Tooled may run on either   *)
(* machine, and Line2 has two shifts.                                      *)
EXTENDS GreedyDispatch

CONSTANTS Early, Late, Urgent, Tooled, Capped, Filler, Plain, Line1, Line2, tool, a, b

MCOps == {Early, Late, Urgent, Tooled, Capped, Filler, Plain}
MCMachines == {Line1, Line2}
MCResources == {tool}
MCStates == {a, b}

MCStateOf == [o \in MCOps |-> IF o \in {Late, Tooled, Filler} THEN b ELSE a]
MCEligibleFor ==
  [o \in MCOps |-> CASE o \in {Tooled, Plain} -> MCMachines
                     [] o = Capped -> {Line2}
                     [] OTHER -> {Line1}]
MCDuration == [o \in MCOps |-> [m \in MCMachines |-> IF o = Tooled /\ m = Line2 THEN 3 ELSE 2]]
MCSetupMinutes ==
  [m \in MCMachines |-> [s \in MCStates |-> [t \in MCStates |->
     IF s = t THEN 0 ELSE IF m = Line1 /\ s = b THEN 2 ELSE 1]]]
MCLatestFinish ==
  [o \in MCOps |-> CASE o = Urgent -> 8 [] o = Capped -> 14 [] OTHER -> None]
MCHardWindow == [o \in MCOps |-> o \in {Urgent, Capped}]
MCNeeds == [o \in MCOps |-> [r \in MCResources |-> IF o \in {Tooled, Capped, Late} THEN 1 ELSE 0]]
MCPoolSize == [r \in MCResources |-> 1]
MCCalendar ==
  [m \in MCMachines |->
     IF m = Line1 THEN {} ELSE {[open |-> 0, close |-> 5], [open |-> 7, close |-> 14]}]
MCPredecessorOf == [o \in MCOps |-> IF o = Capped THEN Early ELSE None]
MCEdges == {[src |-> Early, dst |-> Plain, type |-> "FF", min_lag |-> 3],
            [src |-> Early, dst |-> Late, type |-> "SS", min_lag |-> 3]}
MCRelease == [o \in MCOps |-> IF o = Late THEN 6 ELSE 0]
MCShortestDuration == [o \in MCOps |-> 2]
=============================================================================
