---------------------------- MODULE MCLbbdLoop ----------------------------
(* Three assignments.  Split has two clusters and is solved in parallel,   *)
(* Joint has one and the best schedule, which the master ranks second,     *)
(* Tight looks cheapest to the master and one of its clusters cannot be    *)
(* scheduled in the horizon.                                               *)
EXTENDS LbbdLoop

CONSTANTS Split, Joint, Tight

MCAssignments == {Split, Joint, Tight}
MCClusters == {"s1", "s2", "j1", "j2", "t1", "t2"}
MCUnsolvable == {"t2"}
MCClustersOf ==
  [a \in MCAssignments |-> CASE a = Split -> <<"s1", "s2">>
                             [] a = Joint -> <<"j1">>
                             [] a = Tight -> <<"t1", "t2">>]
MCRelax == [a \in MCAssignments |-> CASE a = Split -> 9 [] a = Joint -> 6 [] a = Tight -> 4]
MCLegalCost ==
  [a \in MCAssignments |-> CASE a = Split -> 10 [] a = Joint -> 8 [] a = Tight -> None]
MCMakespans == {8, 10}
===========================================================================
