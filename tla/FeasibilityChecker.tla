------------------------- MODULE FeasibilityChecker -------------------------
(***************************************************************************)
(* FeasibilityChecker.check (synaps/solvers/feasibility_checker.py), the   *)
(* notary every solver's claim goes through, over the timelines of         *)
(* DispatchTimeline.  Machines are serial: lanes of parallel machines are  *)
(* left out, and so are modes, maximum lags and durations, which the       *)
(* timelines reserve exactly.  A violation is a <<kind, operation>> pair.  *)
(*                                                                         *)
(* A scope is what the delta notary asks to look at: the operations of the *)
(* per-operation families and the machines whose sequences are walked.     *)
(***************************************************************************)
EXTENDS Precedence

CONSTANT HorizonEnd  \* planning_horizon_end

ASSUME FeasibilityCheckerAssumption == HorizonEnd \in Nat

Everything == [ops |-> Ops, machines |-> Machines]

-----------------------------------------------------------------------------
Missing(known, placed) == {<<"MISSING_ASSIGNMENT", o>> : o \in known \ DOMAIN placed}

Ineligible(placed, scope) ==
  {<<"INELIGIBLE_MACHINE", o>> : o \in
     {x \in DOMAIN placed \cap scope.ops : placed[x].wc \notin EligibleFor[x]}}

(* An edge of the chain is checked when either end is in scope. *)
TornChains(placed, scope) ==
  {<<"PRECEDENCE_VIOLATION", o>> : o \in
     {x \in DOMAIN placed :
        /\ PredecessorOf[x] \in DOMAIN placed
        /\ {x, PredecessorOf[x]} \cap scope.ops # {}
        /\ placed[x].start < placed[PredecessorOf[x]].end}}

EdgeAnchors(placed, e) ==
  [src |-> IF e.type \in {"FS", "FF"} THEN placed[e.src].end ELSE placed[e.src].start,
   dst |-> IF e.type \in {"FF", "SF"} THEN placed[e.dst].end ELSE placed[e.dst].start]

BrokenEdges(placed, scope) ==
  {<<"PRECEDENCE_EDGE_VIOLATION", e.dst>> : e \in
     {d \in Edges :
        /\ {d.src, d.dst} \subseteq DOMAIN placed
        /\ {d.src, d.dst} \cap scope.ops # {}
        /\ EdgeAnchors(placed, d).dst < EdgeAnchors(placed, d).src + d.min_lag}}

(* _check_sequence_setup_gaps.  Two neighbours of a sequence overlap when  *)
(* any two operations of the machine do.                                   *)
Overlaps(placed, scope) ==
  {<<"MACHINE_OVERLAP", o>> : o \in
     {x \in DOMAIN placed :
        /\ placed[x].wc \in scope.machines
        /\ \E p \in On(placed, placed[x].wc) \ {x} :
             placed[p].start <= placed[x].start /\ placed[x].start < placed[p].end}}

ShortGaps(placed, scope) ==
  {<<"SETUP_GAP_VIOLATION", o>> : o \in
     {x \in DOMAIN placed :
        /\ placed[x].wc \in scope.machines
        /\ Predecessor(placed, x) # None
        /\ placed[Predecessor(placed, x)].end <= placed[x].start
        /\ placed[x].start < placed[Predecessor(placed, x)].end + ActualSetup(placed, x)}}

(* setup_window_start_by_op: derived from the walked sequences, from the   *)
(* stamps on the machines that are not (all but the first operation), and  *)
(* the processing alone behind an overlap.                                 *)
OccupiedFrom(placed, scope, o) ==
  LET p == Predecessor(placed, o)
  IN  placed[o].start -
        IF p = None THEN 0
        ELSE IF placed[o].wc \notin scope.machines THEN placed[o].setup
        ELSE IF placed[p].end > placed[o].start THEN 0
        ELSE SetupBetween(placed[o].wc, p, o)

(* _check_aux_pools: every operation's window, whatever the scope. *)
OverloadedPools(placed, scope) ==
  LET windows == [o \in DOMAIN placed |->
                    [from |-> OccupiedFrom(placed, scope, o), to |-> placed[o].end]]
      overloadedAt(r, o) == Held(windows, r, windows[o].from) > PoolSize[r]
  IN  {<<"AUX_RESOURCE_CAPACITY_VIOLATION", o>> : o \in
         {x \in DOMAIN placed : \E r \in RequiredBy(x) : overloadedAt(r, x)}}

OutOfHorizon(placed, scope) ==
  {<<"HORIZON_BOUND_VIOLATION", o>> : o \in
     {x \in DOMAIN placed \cap scope.ops :
        \/ placed[x].start < 0
        \/ placed[x].end > HorizonEnd
        \/ LatestFinish[x] # None /\ placed[x].end > LatestFinish[x]}}

BeforeRelease(placed, scope) ==
  {<<"RELEASE_DATE_VIOLATION", o>> : o \in
     {x \in DOMAIN placed \cap scope.ops : placed[x].start < Release[x]}}

(* _check_work_center_calendar: the longer of the stamped and the derived  *)
(* setup, with the processing, must sit in one shift.                      *)
OutOfShift(placed, scope) ==
  LET from(o) == -Larger(placed[o].setup - placed[o].start, -OccupiedFrom(placed, scope, o))
      fits(o) == \E shift \in Calendar[placed[o].wc] :
                   shift.open <= from(o) /\ placed[o].end <= shift.close
  IN  {<<"CALENDAR_VIOLATION", o>> : o \in
         {x \in DOMAIN placed \cap scope.ops : Calendar[placed[x].wc] # {} /\ ~ fits(x)}}

(* The notary, over the operations the problem now has. *)
Check(known, placed, scope) ==
  UNION {Missing(known, placed), Ineligible(placed, scope), TornChains(placed, scope),
         BrokenEdges(placed, scope), Overlaps(placed, scope), ShortGaps(placed, scope),
         OverloadedPools(placed, scope), OutOfHorizon(placed, scope),
         BeforeRelease(placed, scope), OutOfShift(placed, scope)}

-----------------------------------------------------------------------------
(* What a clean verdict promises, stated without the checker's walks. *)
Legal(known, placed) ==
  /\ known \subseteq DOMAIN placed
  /\ Separated(placed)
  /\ PoolsRespected(placed)
  /\ \A o \in DOMAIN placed :
       /\ placed[o].wc \in EligibleFor[o]
       /\ WithinShift(placed, o)
       /\ Release[o] <= placed[o].start /\ placed[o].end <= HorizonEnd
       /\ LatestFinish[o] # None => placed[o].end <= LatestFinish[o]
       /\ PredecessorOf[o] \in DOMAIN placed => placed[PredecessorOf[o]].end <= placed[o].start
  /\ \A e \in Edges :
       {e.src, e.dst} \subseteq DOMAIN placed =>
         EdgeAnchors(placed, e).src + e.min_lag <= EdgeAnchors(placed, e).dst
=============================================================================
