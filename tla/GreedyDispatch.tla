--------------------------- MODULE GreedyDispatch ---------------------------
(***************************************************************************)
(* GreedyDispatch._solve_core (synaps/solvers/greedy_dispatch.py): serial  *)
(* schedule generation over the timelines of DispatchTimeline.  The ATCS   *)
(* index picks the operation; it is a ranking of the ready ones by data    *)
(* the model leaves out, so any ready operation that has a slot may be     *)
(* picked.  The machine is the one of earliest completion.                 *)
(***************************************************************************)
EXTENDS Precedence

CONSTANTS
  ShortestDuration, \* min_duration_minutes_for over the eligible machines
  LargeProblem    \* whether n_ops reaches APPEND_GAP_SCAN_MIN_OPS, a set of cases

ASSUME GreedyDispatchAssumption ==
  /\ ShortestDuration \in [Ops -> Nat]
  /\ \A o \in Ops : \A m \in EligibleFor[o] : ShortestDuration[o] <= Duration[o][m]
  /\ LargeProblem \subseteq BOOLEAN

VARIABLES
  placed,    \* assignments: the timeline
  cache,     \* MachineIndex._resource_windows_cache
  large,     \* the size class of the problem being solved
  status     \* of the solver run

vars == <<placed, cache, large, status>>

Init ==
  /\ placed = [o \in {} |-> None]
  /\ cache = [k \in {} |-> None]
  /\ large \in LargeProblem
  /\ status = "running"

-----------------------------------------------------------------------------
(* DispatchPrecedence. *)

Ready(o) ==
  /\ o \in Ops \ DOMAIN placed
  /\ PredecessorOf[o] \in DOMAIN placed \cup {None}
  /\ \A e \in Edges : e.dst = o => e.src \in DOMAIN placed

SourceAnchor(e) == IF e.type \in {"FS", "FF"} THEN placed[e.src].end ELSE placed[e.src].start

(* A bug: an end-anchored edge read as a start-anchored one. *)
EdgeBoundFromStart(o, e) ==
  placed[e.src].start + e.min_lag - IF e.type \in {"FF", "SF"} THEN ShortestDuration[o] ELSE 0

EdgeBound(o, e) ==
  SourceAnchor(e) + e.min_lag - IF e.type \in {"FF", "SF"} THEN ShortestDuration[o] ELSE 0

EarliestStart(o) ==
  LET bounds == {Release[o]}
                \cup (IF PredecessorOf[o] = None THEN {} ELSE {placed[PredecessorOf[o]].end})
                \cup {EdgeBound(o, e) : e \in {d \in Edges : d.dst = o}}
  IN  CHOOSE b \in bounds : \A c \in bounds : c <= b

-----------------------------------------------------------------------------
ReadyOps == {o \in Ops : Ready(o)}

(* Looking for the slots of the ready operations fills the cache first.    *)
SearchedCache ==
  CachedFor(placed, cache, {RequiredBy(o) : o \in ReadyOps})

(* _collect_atcs_records, for one operation. *)
SlotsOf(o) ==
  UNION {EarliestSlots(placed, WindowsSeenBy(SearchedCache, o), GapScanFor(large, o),
                       o, m, EarliestStart(o)) : m \in EligibleFor[o]}

(* _slot_preference_key: completion, then setup; material loss and the     *)
(* machine's name settle what is left.                                     *)
Preferred(slots) ==
  {s \in slots : \A t \in slots :
     s.end < t.end \/ (s.end = t.end /\ s.setup <= t.setup)}

Dispatch(o) ==
  /\ status = "running"
  /\ Ready(o)
  /\ \E slot \in Preferred(SlotsOf(o)) :
       /\ placed' = PlaceAt(placed, o, slot)
       /\ cache' = CacheAfterAdd(SearchedCache, placed', o)
  /\ UNCHANGED <<large, status>>

(* No ready operation (a precedence cycle), or none with a slot. *)
Stuck ==
  /\ status = "running"
  /\ DOMAIN placed # Ops
  /\ \A o \in ReadyOps : SlotsOf(o) = {}
  /\ cache' = SearchedCache
  /\ status' = "error"
  /\ UNCHANGED <<placed, large>>

(* time_limit_s has passed at the head of the loop: a partial schedule. *)
TimeLimit ==
  /\ status = "running"
  /\ DOMAIN placed # Ops
  /\ status' = "timeout"
  /\ UNCHANGED <<placed, cache, large>>

(* _dispatch_feasible_result. *)
Finish ==
  /\ status = "running"
  /\ DOMAIN placed = Ops
  /\ placed' = RecomputeSetups(placed)
  /\ status' = "feasible"
  /\ UNCHANGED <<cache, large>>

Next == (\E o \in Ops : Dispatch(o)) \/ Stuck \/ TimeLimit \/ Finish

Spec == Init /\ [][Next]_vars

-----------------------------------------------------------------------------
(* Every variable has its type. *)
TypeOK ==
  /\ DOMAIN placed \subseteq Ops
  /\ placed \in [DOMAIN placed -> Assignment]
  /\ \A o \in DOMAIN placed :
       /\ placed[o].wc \in EligibleFor[o]
       /\ placed[o].end = placed[o].start + Duration[o][placed[o].wc]
  /\ DOMAIN cache \subseteq SUBSET Resources
  /\ large \in LargeProblem
  /\ status \in {"running", "feasible", "error", "timeout"}

(* Machines are never double-booked: whatever order operations are picked  *)
(* in and wherever a gap is filled, each one ends, and the setup to the    *)
(* operation that now follows it fits, before that operation starts.       *)
TimelinesSeparated == Separated(placed)

(* Chain predecessors, the minimum lags of all four edge types, release    *)
(* dates and latest finishes hold of every partial schedule.               *)
WindowsAndLagsHold ==
  \A o \in DOMAIN placed :
    /\ placed[o].start >= Release[o]
    /\ LatestFinish[o] # None => placed[o].end <= LatestFinish[o]
    /\ PredecessorOf[o] # None =>
         PredecessorOf[o] \in DOMAIN placed /\ placed[PredecessorOf[o]].end <= placed[o].start
    /\ \A e \in Edges :
         e.dst = o =>
           /\ e.src \in DOMAIN placed
           /\ SourceAnchor(e) + e.min_lag <=
                IF e.type \in {"FS", "SS"} THEN placed[o].start ELSE placed[o].end

(* As long as a large problem has placed no operation with a hard window,  *)
(* no gap was filled, so no neighbour's setup changed: the cached          *)
(* occupancy is the true one, pools are respected, and an operation that   *)
(* holds no resource stays in the shift it was clipped to.                 *)
AppendOnly == large /\ \A o \in DOMAIN placed : ~ HardWindow[o]

CachedWindowsAreTrue ==
  \A k \in DOMAIN cache : cache[k] = FreshWindows(placed, k)

AppendKeepsPoolsAndShifts ==
  AppendOnly =>
    /\ CachedWindowsAreTrue
    /\ PoolsRespected(placed)
    /\ \A o \in DOMAIN placed : RequiredBy(o) = {} => WithinShift(placed, o)

=============================================================================
