-------------------------- MODULE DispatchTimeline --------------------------
(***************************************************************************)
(* The insertion kernel shared by the constructive solvers                 *)
(* (synaps/solvers/_dispatch_support.py): the machine timelines, the       *)
(* earliest feasible slot of an operation on a machine, and the cached     *)
(* occupancy of auxiliary resources that MachineIndex keeps.               *)
(*                                                                         *)
(* Time is in whole minutes from the horizon's start, the grid on which    *)
(* durations are reserved and windows are snapped at ingest.  A timeline   *)
(* is a function from the operations placed so far to their assignments.   *)
(***************************************************************************)
EXTENDS Integers, FiniteSets, FiniteSetsExt

CONSTANTS
  Ops, Machines, Resources, States,
  None,           \* no predecessor, no neighbour, no latest finish
  StateOf,        \* operation.state_id
  EligibleFor,    \* operation.eligible_wc_ids, every machine when it is empty
  Duration,       \* duration_minutes_for(operation, work_center)
  SetupMinutes,   \* the setup matrix of each machine; 0 when it has no entry
  LatestFinish,   \* operation.latest_finish, or None
  HardWindow,     \* operation_has_hard_windows
  Needs,          \* quantity of each resource an operation holds, 0 for none
  PoolSize,       \* AuxiliaryResource.pool_size
  Calendar        \* the published shifts of each machine; none means always open

ASSUME DispatchTimelineAssumption ==
  /\ None \notin Ops
  /\ IsFiniteSet(Ops)
  /\ StateOf \in [Ops -> States]
  /\ EligibleFor \in [Ops -> (SUBSET Machines) \ {{}}]
  /\ Duration \in [Ops -> [Machines -> Nat \ {0}]]
  /\ SetupMinutes \in [Machines -> [States -> [States -> Nat]]]
  /\ None \notin Int
  /\ LatestFinish \in [Ops -> Int \cup {None}]
  /\ HardWindow \in [Ops -> BOOLEAN]
  /\ Needs \in [Ops -> [Resources -> Nat]]
  /\ PoolSize \in [Resources -> Nat]
  /\ Calendar \in [Machines -> SUBSET [open : Int, close : Int]]

Assignment == [wc : Machines, start : Int, end : Int, setup : Nat]

Larger(a, b) == IF a >= b THEN a ELSE b

SetupBetween(m, o1, o2) == SetupMinutes[m][StateOf[o1]][StateOf[o2]]

-----------------------------------------------------------------------------
(* The bucket of a machine, sorted by start: its operations, and the pairs *)
(* of neighbours between which a gap lies, None at either end.             *)

On(placed, m) == {o \in DOMAIN placed : placed[o].wc = m}

Follows(placed, m, p, f) ==
  /\ f \in On(placed, m)
  /\ \/ /\ p \in On(placed, m)
        /\ placed[p].start < placed[f].start
        /\ \A o \in On(placed, m) :
             placed[o].start <= placed[p].start \/ placed[f].start <= placed[o].start
     \/ /\ p = None
        /\ \A o \in On(placed, m) : placed[f].start <= placed[o].start

IsLast(placed, ops, p) ==
  \/ p \in ops /\ \A o \in ops : placed[o].start <= placed[p].start
  \/ p = None /\ ops = {}

Predecessor(placed, o) ==
  CHOOSE p \in On(placed, placed[o].wc) \cup {None} : Follows(placed, placed[o].wc, p, o)

SetupAfter(m, p, o) == IF p = None THEN 0 ELSE SetupBetween(m, p, o)

(* The setup an operation really needs in the present sequence. *)
ActualSetup(placed, o) == SetupAfter(placed[o].wc, Predecessor(placed, o), o)

-----------------------------------------------------------------------------
(* Occupancy of auxiliary resources, setup included. *)

Window(placed, o) ==
  [from |-> placed[o].start - ActualSetup(placed, o), to |-> placed[o].end]

RequiredBy(o) == {r \in Resources : Needs[o][r] > 0}

(* _resource_windows_by_resource over the whole timeline. *)
FreshWindows(placed, key) ==
  [o \in {p \in DOMAIN placed : RequiredBy(p) \cap key # {}} |-> Window(placed, o)]

Held(windows, r, t) ==
  LET holders == {o \in DOMAIN windows : windows[o].from <= t /\ t < windows[o].to}
  IN  MapThenSumSet(LAMBDA o : Needs[o][r], holders)

(* _resource_is_feasible: the sweep of resource_capacity_window_is_feasible. *)
ResourcesFit(windows, o, from, to) ==
  \A r \in RequiredBy(o), t \in from .. to - 1 :
    Held(windows, r, t) + Needs[o][r] <= PoolSize[r]

(* MachineIndex.get_resource_windows for a set of keys, then add(): the new *)
(* operation's window is appended, those of its neighbours are kept.        *)
CachedFor(placed, cache, keys) ==
  [k \in DOMAIN cache \cup (keys \ {{}}) |->
     IF k \in DOMAIN cache THEN cache[k] ELSE FreshWindows(placed, k)]

CacheAfterAdd(cache, placedAfter, o) ==
  [k \in DOMAIN cache |->
     IF RequiredBy(o) \cap k = {}
       THEN cache[k]
       ELSE [p \in DOMAIN cache[k] \cup {o} |->
               IF p = o THEN Window(placedAfter, o) ELSE cache[k][p]]]

WindowsSeenBy(cache, o) ==
  IF RequiredBy(o) \in DOMAIN cache
    THEN cache[RequiredBy(o)]
    ELSE [p \in {} |-> None]

-----------------------------------------------------------------------------
(* _evaluate_slot_gap. *)

(* delay_start_to_open_shift: no start, or the first one that fits a shift. *)
OpenStarts(m, start, length) ==
  IF Calendar[m] = {}
    THEN {start}
    ELSE {Larger(start, shift.open) : shift \in
            {s \in Calendar[m] : s.open < s.close
                                 /\ Larger(start, s.open) + length <= s.close}}

First(starts) == {t \in starts : \A u \in starts : t <= u}

(* A bug: the setup the next operation then needs is forgotten. *)
EndsBeforeNext(placed, o, m, f, start) ==
  /\ f # None => start + Duration[o][m] <= placed[f].start
  /\ LatestFinish[o] # None => start + Duration[o][m] <= LatestFinish[o]

(* _gap_latest_start, as the condition a start must meet. *)
EndsInTime(placed, o, m, f, start) ==
  /\ f # None =>
       start + Duration[o][m] + SetupBetween(m, o, f) <= placed[f].start
  /\ LatestFinish[o] # None => start + Duration[o][m] <= LatestFinish[o]

(* A bug: the calendar clips the processing without its setup. *)
GapStartsClippedLate(placed, o, m, earliest, p) ==
  LET setup == SetupAfter(m, p, o)
      previousEnd == IF p = None THEN 0 ELSE placed[p].end
  IN  First(OpenStarts(m, Larger(previousEnd + setup, earliest), Duration[o][m]))

GapStarts(placed, o, m, earliest, p) ==
  LET setup == SetupAfter(m, p, o)
      previousEnd == IF p = None THEN 0 ELSE placed[p].end
      occupancy == Larger(previousEnd, earliest - setup)
  IN  {t + setup : t \in First(OpenStarts(m, occupancy, Duration[o][m] + setup))}

(* _candidate_starts: the start of the gap and every later release of a    *)
(* resource the operation needs.                                           *)
CandidateStarts(windows, gapStart, setup) ==
  {gapStart} \cup
  {t \in {windows[x].to + setup : x \in DOMAIN windows} : gapStart <= t}

Slot(m, start, length, setup) ==
  [wc |-> m, start |-> start, end |-> start + length, setup |-> setup]

SlotsInGap(placed, windows, o, m, earliest, p, f) ==
  LET setup == SetupAfter(m, p, o)
      feasible == {t \in UNION {CandidateStarts(windows, g, setup) :
                                  g \in GapStarts(placed, o, m, earliest, p)} :
                     /\ EndsInTime(placed, o, m, f, t)
                     /\ ResourcesFit(windows, o, t - setup, t + Duration[o][m])}
  IN  {Slot(m, t, Duration[o][m], setup) : t \in First(feasible)}

-----------------------------------------------------------------------------
(* find_earliest_feasible_slot. *)

(* The gaps a scan looks at, as <<previous, following>> pairs. *)
AllGaps(placed, m) ==
  {g \in (On(placed, m) \cup {None}) \X (On(placed, m) \cup {None}) :
     IF g[2] = None THEN IsLast(placed, On(placed, m), g[1])
                    ELSE Follows(placed, m, g[1], g[2])}

AppendGap(placed, m) == {g \in AllGaps(placed, m) : g[2] = None}

(* _scan_gaps_overlapping_window: the operations that start within the     *)
(* window and one neighbour on each side.  What follows the last of them   *)
(* is not looked at, although the machine may hold more.                   *)
InSlice(placed, m, earliest, latest, o) ==
  /\ o \in On(placed, m)
  /\ \/ earliest <= placed[o].start
     \/ \A x \in On(placed, m) :
          placed[x].start < earliest => placed[x].start <= placed[o].start
  /\ \/ latest = None
     \/ placed[o].start <= latest
     \/ \A x \in On(placed, m) :
          latest < placed[x].start => placed[o].start <= placed[x].start

WindowGaps(placed, m, earliest, latest) ==
  LET slice == {o \in On(placed, m) : InSlice(placed, m, earliest, latest, o)}
  IN  {g \in (On(placed, m) \cup {None}) \X (slice \cup {None}) :
         IF g[2] = None THEN IsLast(placed, slice, g[1])
                        ELSE Follows(placed, m, g[1], g[2])}

GapsScanned(placed, scan, o, m, earliest) ==
  CASE scan = "all" -> AllGaps(placed, m)
    [] scan = "append" -> AppendGap(placed, m)
    [] scan = "window" -> WindowGaps(placed, m, earliest, LatestFinish[o])

(* gap_scan_for: large problems append, except under a hard window. *)
GapScanFor(large, o) ==
  IF ~ large THEN "all" ELSE IF HardWindow[o] THEN "window" ELSE "append"

(* The slot of the first scanned gap that has one: a set of one or none.   *)
EarliestSlots(placed, windows, scan, o, m, earliest) ==
  LET slots == UNION {SlotsInGap(placed, windows, o, m, earliest, g[1], g[2]) :
                        g \in GapsScanned(placed, scan, o, m, earliest)}
  IN  {s \in slots : \A t \in slots : s.start <= t.start}

PlaceAt(placed, o, slot) ==
  [x \in DOMAIN placed \cup {o} |-> IF x = o THEN slot ELSE placed[x]]

(* recompute_assignment_setups: the setups of the final sequences. *)
RecomputeSetups(placed) ==
  [o \in DOMAIN placed |-> [placed[o] EXCEPT !.setup = ActualSetup(placed, o)]]

-----------------------------------------------------------------------------
(* What a timeline must satisfy. *)

(* On a machine, an operation ends, and the setup towards its successor    *)
(* has time to run, before that successor starts.                          *)
Separated(placed) ==
  \A x, y \in DOMAIN placed :
    /\ x # y
    /\ placed[x].wc = placed[y].wc
    /\ placed[x].start <= placed[y].start
    => /\ placed[x].end <= placed[y].start
       /\ Follows(placed, placed[x].wc, x, y) =>
            placed[x].end + SetupBetween(placed[x].wc, x, y) <= placed[y].start

(* No pool is asked for more than it holds, setup windows included. *)
PoolsRespected(placed) ==
  \A r \in Resources :
    LET windows == FreshWindows(placed, {r})
    IN  \A o \in DOMAIN windows :
          \A t \in windows[o].from .. windows[o].to - 1 : Held(windows, r, t) <= PoolSize[r]

(* Setup and processing sit together in one published shift. *)
WithinShift(placed, o) ==
  \/ Calendar[placed[o].wc] = {}
  \/ \E shift \in Calendar[placed[o].wc] :
       /\ shift.open <= Window(placed, o).from
       /\ Window(placed, o).to <= shift.close
=============================================================================
