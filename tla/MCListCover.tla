----------------------------- MODULE MCListCover -----------------------------
(* Two machines, one with two shifts, and a tool that two operations need.  *)
(* Three operations of two states belong to the night from 1 to 6; they fit *)
(* only by insertion, a second pass, stealing a home or ejecting what was   *)
(* placed.                                                                  *)
EXTENDS ListCover, Sequences

CONSTANTS Prep, Mix, Dip, Dry, Coat, Test, P1, P2, tool, a, b

MCOps == {Prep, Mix, Dip, Dry, Coat, Test}
MCMachines == {P1, P2}
MCResources == {tool}
MCStates == {a, b}
MCStateOf == [o \in MCOps |-> IF o \in {Prep, Mix, Dry} THEN b ELSE a]
MCEligibleFor == [o \in MCOps |-> IF o = Dry THEN {P2} ELSE MCMachines]
MCDuration ==
  [o \in MCOps |-> [m \in MCMachines |-> CASE o = Dry -> 3 [] o \in {Coat, Test} -> 2 [] OTHER -> 1]]
MCSetupMinutes ==
  [m \in MCMachines |-> [s \in MCStates |-> [t \in MCStates |-> IF s = t THEN 0 ELSE 1]]]
MCHardWindow == [o \in MCOps |-> o \in {Mix, Dip, Test}]
MCOpenFrom == [o \in MCOps |-> IF MCHardWindow[o] THEN 1 ELSE None]
MCLatestFinish == [o \in MCOps |-> IF MCHardWindow[o] THEN 6 ELSE None]
MCEarliest == [o \in MCOps |-> IF o \in {Dry, Test} THEN 1 ELSE 0]
MCNeeds == [o \in MCOps |-> [r \in MCResources |-> IF o \in {Mix, Test} THEN 1 ELSE 0]]
MCPoolSize == [r \in MCResources |-> 1]
MCCalendar ==
  [m \in MCMachines |->
     IF m = P2 THEN {[open |-> 0, close |-> 4], [open |-> 4, close |-> 9]} ELSE {}]
MCPredecessorOf == [o \in MCOps |-> CASE o = Prep -> Dry [] o = Mix -> Coat [] OTHER -> None]
MCEdges == {}
MCRelease == [o \in MCOps |-> 0]
Position(seq) == [o \in MCOps |-> CHOOSE i \in 1 .. Len(seq) : seq[i] = o]
MCSeqRank == Position(<<Dry, Coat, Test, Prep, Mix, Dip>>)
MCListRank == Position(<<Test, Prep, Coat, Mix, Dip, Dry>>)
MCStateRank == [s \in MCStates |-> IF s = a THEN 1 ELSE 2]
MCMachineRank == [m \in MCMachines |-> IF m = P1 THEN 1 ELSE 2]
=============================================================================
