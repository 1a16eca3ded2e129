------------------------------ MODULE ListCover ------------------------------
(***************************************************************************)
(* The one-pass list schedule (place_operations_list_schedule in synaps/   *)
(* solvers/rhc/_cover.py) that covers large instances and seeds the ALNS   *)
(* search: a queue of ready operations appended to the machines, with      *)
(* insertion into idle gaps; then what recovers operations with a hard     *)
(* window that found no place, by two waves of retries and by ejection of  *)
(* an operation already placed.                                            *)
(*                                                                         *)
(* Operations that share a state and a night (a window that closes at the  *)
(* same time) are a family, and a family has one machine as its home.      *)
(* The kernel in Rust, tried first on 10 000 operations, is left out; the  *)
(* ATCS scores are choices; the eligible machines are listed by name.      *)
(***************************************************************************)
EXTENDS FeasibilityChecker

CONSTANTS
  OpenFrom,      \* operation.earliest_start, or None
  Earliest,      \* op_earliest
  SeqRank,       \* position by sequence in the order, then by name
  ListRank,      \* position in the list of operations
  StateRank, MachineRank,    \* positions of their names
  DayMinutes,
  Horizon,       \* horizon_minutes
  Rules,         \* cover_ready_rule: "fifo" or "atcs"
  FloorWindow, ExhaustWindow,
  MaxInserts,    \* 64 attempts to insert what has no window, none at 80 000 operations
  AppendScanMin, \* APPEND_GAP_SCAN_MIN_OPS
  MaxVictims     \* victims looked at for one ejection

ASSUME ListCoverAssumption ==
  /\ OpenFrom \in [Ops -> Nat \cup {None}] /\ Earliest \in [Ops -> Nat]
  /\ \A o \in Ops : HardWindow[o] = ({OpenFrom[o], LatestFinish[o]} # {None})
  /\ \A rank \in {SeqRank, ListRank} :
       rank \in [Ops -> Nat] /\ \A x, y \in Ops : rank[x] = rank[y] => x = y
  /\ StateRank \in [States -> Nat] /\ MachineRank \in [Machines -> Nat]
  /\ \A m, n \in Machines : MachineRank[m] = MachineRank[n] => m = n
  /\ {DayMinutes, MaxVictims} \subseteq Nat \ {0}
  /\ {Horizon, FloorWindow, ExhaustWindow, MaxInserts, AppendScanMin} \subseteq Nat
  /\ Rules \subseteq {"fifo", "atcs"}

VARIABLES
  rule,
  phase,      \* "loop", "reserve", "steal", "eject", "done"
  covered,    \* assignments; tails and aux_windows are functions of it
  ready,      \* the heap
  attempts,   \* gap_attempts
  index,      \* the resource windows of the machine index
  todo,       \* what this pass over the leftovers has not come to
  progress,   \* whether the pass placed anything
  inserted,   \* whether anything was inserted into a gap so far
  moved       \* operations that were ejected and placed again

coverVars == <<rule, phase, covered, ready, attempts, index, todo, progress, inserted, moved>>

NoWindows == [k \in {} |-> None]

-----------------------------------------------------------------------------
(* Nights, families and their homes. *)

(* _window_night_key *)
Night(o) ==
  IF OpenFrom[o] = None
    THEN None
    ELSE [close |-> LatestFinish[o],
          day |-> IF LatestFinish[o] = None THEN OpenFrom[o] \div DayMinutes ELSE 0]

Family(o) == <<Night(o), StateOf[o]>>
Families == {Family(o) : o \in {x \in Ops : Night(x) # None}}

(* _family_cover_on_machine *)
FamilyLoad(f, m) ==
  MapThenSumSet(LAMBDA o : Duration[o][m], {o \in Ops : Family(o) = f /\ m \in EligibleFor[o]})

(* The largest family of a night chooses first. *)
ChoosesBefore(f, g) ==
  LET peak(h) == Max({FamilyLoad(h, m) : m \in Machines})
  IN  /\ f[1] = g[1]
      /\ \/ peak(f) > peak(g)
         \/ peak(f) = peak(g) /\ StateRank[f[2]] < StateRank[g[2]]

(* _build_window_family_homes: the free machine that covers most of it. *)
Home[f \in Families] ==
  LET taken == {Home[g] : g \in {h \in Families : ChoosesBefore(h, f)}}
      open == {m \in Machines \ taken : FamilyLoad(f, m) > 0}
      better(m, n) == \/ FamilyLoad(f, m) > FamilyLoad(f, n)
                      \/ FamilyLoad(f, m) = FamilyLoad(f, n) /\ MachineRank[m] < MachineRank[n]
  IN  IF open = {} THEN None ELSE CHOOSE m \in open : \A n \in open \ {m} : better(m, n)

HomesOf(o) == IF Night(o) = None THEN {} ELSE {Home[Family(o)]} \ {None}

(* _foreign_homes_to_reserve: of families of the night with work to place. *)
ForeignHomes(at, o) ==
  {Home[f] : f \in {g \in Families : /\ g[1] = Night(o) /\ g[2] # StateOf[o]
                                     /\ \E x \in Ops \ DOMAIN at : Family(x) = g}}
  \ (HomesOf(o) \cup {None})

-----------------------------------------------------------------------------
(* A place at the tail of a machine, or in a gap. *)

(* _cover_placement_floor: a hard window replaces the propagated earliest  *)
(* start, and with it the release of the order.                            *)
CoverFloor(at, o) ==
  LET predEnd == IF PredecessorOf[o] \in DOMAIN at THEN at[PredecessorOf[o]].end ELSE 0
      opens == IF OpenFrom[o] = None THEN 0 ELSE OpenFrom[o]
  IN  Larger(predEnd, IF HardWindow[o] THEN opens ELSE Earliest[o])

LastOn(at, m) == CHOOSE o \in On(at, m) \cup {None} : IsLast(at, On(at, m), o)
EndOf(at, o) == IF o = None THEN 0 ELSE at[o].end

(* aux_windows: occupancy with the setups as they were stamped. *)
Holdings(at) ==
  [o \in {x \in DOMAIN at : RequiredBy(x) # {}} |-> [from |-> at[o].start - at[o].setup, to |-> at[o].end]]

(* _delay_start_for_aux: from release to release, while each is later than *)
(* the start.                                                              *)
DelayForAux(held, o, start, setup, length, cap) ==
  LET fits(r, t) == \A u \in t - setup .. t + length - 1 : Held(held, r, u) + Needs[o][r] <= PoolSize[r]
      releases(r, t) == {held[x].to : x \in {y \in DOMAIN held : /\ Needs[y][r] > 0
                                                                 /\ held[y].from <= t + length
                                                                 /\ t - setup <= held[y].to}}
      blocked(t) == {r \in RequiredBy(o) : ~ fits(r, t)}
      next(t) == Max({t} \cup {Min(releases(r, t)) : r \in {q \in blocked(t) : releases(q, t) # {}}})
      from[t \in Nat] == IF t + length > cap THEN None
                         ELSE IF blocked(t) = {} THEN t
                         ELSE IF next(t) = t THEN None
                         ELSE from[next(t)]
  IN  from[start]

Deadline(o) == IF LatestFinish[o] = None THEN Horizon ELSE -Larger(-Horizon, -LatestFinish[o])

(* A bug: the changeover from the last operation takes no time. *)
TailSlotsAtOnce(at, o, m, floor) ==
  LET start == Larger(floor, EndOf(at, LastOn(at, m)))
  IN  {Slot(m, t, Duration[o][m], 0) :
         t \in {DelayForAux(Holdings(at), o, start, 0, Duration[o][m], Deadline(o))} \ {None}}

(* Behind the last operation and its changeover, in a shift, and then      *)
(* delayed for the pools.                                                  *)
TailSlots(at, o, m, floor) ==
  LET setup == SetupAfter(m, LastOn(at, m), o)
      start == Larger(floor, EndOf(at, LastOn(at, m)) + setup)
      inShift == {t + setup : t \in First(OpenStarts(m, start - setup, Duration[o][m] + setup))}
      delayed == {DelayForAux(Holdings(at), o, t, setup, Duration[o][m], Deadline(o)) : t \in inShift}
  IN  {Slot(m, t, Duration[o][m], setup) : t \in delayed \ {None}}

GapSlots(at, seen, o, m, floor) ==
  LET scan == GapScanFor(Cardinality(DOMAIN at) >= AppendScanMin, o)
  IN  {s \in EarliestSlots(at, seen, scan, o, m, floor) : s.end <= Horizon}

(* _predecessor_on_machine *)
Before(at, slot) ==
  LET done == {x \in On(at, slot.wc) : at[x].end <= slot.start}
  IN  CHOOSE x \in done \cup {None} : IsLast(at, done, x)

(* _cover_slot_beats_best: a window prefers its home, then a machine that  *)
(* goes on with its state, then one that opens the night.                  *)
SlotKey(at, o, floor, gap, s) ==
  LET p == Before(at, s)
      late(preferred) == IF preferred THEN 0 ELSE 1
  IN  IF HardWindow[o]
        THEN <<late(s.wc \in HomesOf(o)), late(p # None /\ StateOf[p] = StateOf[o]),
               late(EndOf(at, p) <= floor), s.setup, s.end, MachineRank[s.wc]>>
        ELSE <<late(gap \/ ExhaustWindow = 0 \/ s.setup = 0), s.end, MachineRank[s.wc]>>

ComesFirst(a, b) ==
  \E i \in DOMAIN a : a[i] < b[i] /\ \A j \in 1 .. i - 1 : a[j] = b[j]

Best(key) == {s \in DOMAIN key : \A t \in DOMAIN key \ {s} : ComesFirst(key[s], key[t])}

(* _earlier_same_machine_gap: a gap when the tail fails; for a window also *)
(* an earlier one on the tail's machine.                                   *)
TailOrEarlierGap(tails, gaps, windowed) ==
  LET earlier == {g \in gaps : \A t \in tails : windowed /\ t.wc = g.wc /\ g.start < t.start}
  IN  {[slot |-> s, inGap |-> s \in earlier] : s \in IF earlier = {} THEN tails ELSE earlier}

(* _try_tail_or_gap_slot *)
TailOrGap(at, seen, o, floor, allowGap, machines) ==
  TailOrEarlierGap(
    Best([s \in UNION {TailSlots(at, o, m, floor) : m \in machines} |-> SlotKey(at, o, floor, FALSE, s)]),
    Best([s \in UNION {GapSlots(at, seen, o, m, floor) : m \in {n \in machines : allowGap}} |->
            SlotKey(at, o, floor, TRUE, s)]),
    HardWindow[o])

FirstNonEmpty(some, others) == IF some # {} THEN some ELSE others

(* _place_ready_list_operation: at home, or else wherever it is eligible   *)
(* and not reserved.                                                       *)
PlacesFor(at, seen, o, allowGap, reserved) ==
  FirstNonEmpty(TailOrGap(at, seen, o, CoverFloor(at, o), allowGap, EligibleFor[o] \cap HomesOf(o)),
                TailOrGap(at, seen, o, CoverFloor(at, o), allowGap, EligibleFor[o] \ reserved))

-----------------------------------------------------------------------------
(* Which ready operation is next. *)

(* _windowed_op_has_direct_tail: its home opens the night, or a machine    *)
(* goes on with its state tonight.                                         *)
HasDirectTail(o) ==
  LET opens == IF OpenFrom[o] = None THEN 0 ELSE OpenFrom[o]
  IN  \E m \in EligibleFor[o] :
        \/ /\ LastOn(covered, m) # None /\ StateOf[LastOn(covered, m)] = StateOf[o]
           /\ covered[LastOn(covered, m)].end > opens
        \/ m \in HomesOf(o) /\ EndOf(covered, LastOn(covered, m)) <= opens

FifoKey(o) ==
  <<IF LatestFinish[o] # None THEN LatestFinish[o] ELSE CoverFloor(covered, o),
    IF HardWindow[o] THEN StateRank[StateOf[o]] + 1 ELSE 0, SeqRank[o]>>

FirstReady(ops) == {o \in ops : \A p \in ops \ {o} : ComesFirst(FifoKey(o), FifoKey(p))}

(* _pop_fifo_cover_ready *)
FifoChoices ==
  LET tonight == {o \in ready : \A p \in FirstReady(ready) : Night(o) = Night(p)}
      direct == {o \in tonight : HasDirectTail(o)}
  IN  IF Families # {} /\ (\A o \in ready : HardWindow[o]) /\ direct # {}
        THEN FirstReady(direct)
        ELSE FirstReady(ready)

(* _atcs_window_indices: what needs no changeover before the rest, within  *)
(* a window on the floors.                                                 *)
AtcsChoices ==
  LET floor(o) == CoverFloor(covered, o)
      within(window) == {o \in ready : \A p \in ready : floor(o) <= floor(p) + window}
      goesOn(o) == \E m \in EligibleFor[o] : SetupAfter(m, LastOn(covered, m), o) = 0
      continuations == {o \in within(ExhaustWindow) : goesOn(o)}
  IN  IF ExhaustWindow > 0 /\ continuations # {} THEN continuations ELSE within(FloorWindow)

ReadyChoices == IF rule = "atcs" THEN AtcsChoices ELSE FifoChoices

-----------------------------------------------------------------------------
CoverInit ==
  /\ rule \in Rules
  /\ phase = "loop"
  /\ covered = [o \in {} |-> None]
  /\ ready = {o \in Ops : PredecessorOf[o] = None}
  /\ attempts = 0
  /\ index = NoWindows
  /\ todo = {} /\ progress = FALSE
  /\ inserted = FALSE /\ moved = {}

(* The index looks the windows up when it scans the gaps. *)
Looked(o, allowGap) == IF allowGap THEN CachedFor(covered, index, {RequiredBy(o)}) ELSE index

Commit(o, p, looked) ==
  /\ covered' = PlaceAt(covered, o, p.slot)
  /\ index' = CacheAfterAdd(looked, covered', o)
  /\ inserted' = (inserted \/ p.inGap)

(* A tail is enough for what has no window. *)
GapsAreScanned(o, allowGap) ==
  /\ allowGap
  /\ HardWindow[o] \/ PlacesFor(covered, NoWindows, o, FALSE, ForeignHomes(covered, o)) = {}

(* _place_cover_heap_item *)
PlaceNext ==
  /\ phase = "loop"
  /\ \E o \in ReadyChoices : \E allowGap \in {HardWindow[o] \/ attempts < MaxInserts} :
     \E looked \in {Looked(o, GapsAreScanned(o, allowGap))} :
     \E found \in {PlacesFor(covered, WindowsSeenBy(looked, o), o, allowGap, ForeignHomes(covered, o))} :
       \/ \E p \in found :
            /\ Commit(o, p, looked)
            /\ ready' = (ready \ {o}) \cup {s \in Ops : PredecessorOf[s] = o}
            /\ attempts' = attempts + (IF allowGap /\ p.inGap THEN 1 ELSE 0)
       \/ /\ found = {}
          /\ ready' = ready \ {o}
          /\ index' = looked
          /\ attempts' = attempts + (IF allowGap THEN 1 ELSE 0)
          /\ UNCHANGED <<covered, inserted>>
  /\ UNCHANGED <<rule, phase, todo, progress, moved>>

Leftovers == {o \in Ops \ DOMAIN covered : HardWindow[o]}

StartPass(p) == phase' = p /\ todo' = Leftovers /\ progress' = FALSE

(* The queue is empty, or the deadline has come: the leftovers are tried   *)
(* in any case, with an index of their own.                                *)
EndLoop ==
  /\ phase = "loop"
  /\ StartPass("reserve")
  /\ index' = NoWindows
  /\ UNCHANGED <<rule, covered, ready, attempts, inserted, moved>>

InTurn == {o \in todo : \A p \in todo : ListRank[o] <= ListRank[p]}
PredecessorIsPlaced(o) == PredecessorOf[o] \in {None} \cup DOMAIN covered

(* A bug: the second wave keeps off the homes as the first does. *)
ReservedAlways(wave, o) == ForeignHomes(covered, o)

(* The second wave may steal a home that still has work to come. *)
Reserved(wave, o) == IF wave = "reserve" THEN ForeignHomes(covered, o) ELSE {}

(* _retry_windowed_leftover_wave, an operation at a time. *)
Retry ==
  /\ phase \in {"reserve", "steal"}
  /\ \E o \in InTurn :
       /\ todo' = todo \ {o}
       /\ IF PredecessorIsPlaced(o)
            THEN \E looked \in {Looked(o, TRUE)} :
                 \E reserved \in {Reserved(phase, o)} :
                 \E found \in {PlacesFor(covered, WindowsSeenBy(looked, o), o, TRUE, reserved)} :
                   \/ \E p \in found : Commit(o, p, looked) /\ progress' = TRUE
                   \/ found = {} /\ index' = looked /\ UNCHANGED <<covered, progress, inserted>>
            ELSE UNCHANGED <<covered, index, progress, inserted>>
  /\ UNCHANGED <<rule, phase, ready, attempts, moved>>

(* Another pass after one that placed something, or the next wave. *)
NextPass ==
  /\ phase \in {"reserve", "steal"}
  /\ todo = {}
  /\ IF progress
       THEN StartPass(phase) /\ UNCHANGED index
       ELSE /\ IF phase = "reserve" THEN StartPass("steal") ELSE StartPass("eject")
            /\ index' = NoWindows
  /\ UNCHANGED <<rule, covered, ready, attempts, inserted, moved>>

(* _place_windowed_with_rebuild: tails, pools and index anew. *)
Rebuilt(at, o) ==
  {PlaceAt(at, o, p.slot) : p \in PlacesFor(at, FreshWindows(at, RequiredBy(o)), o, TRUE, {})}

(* The latest operations that start in the window, on machines it may use. *)
Victims(o) ==
  LET inWindow == {v \in DOMAIN covered : /\ covered[v].wc \in EligibleFor[o]
                                          /\ OpenFrom[o] <= covered[v].start
                                          /\ covered[v].start < LatestFinish[o]
                                          /\ v # PredecessorOf[o]}
  IN  IF None \in {OpenFrom[o], LatestFinish[o]}
        THEN {}
        ELSE {v \in inWindow :
                Cardinality({u \in inWindow : covered[u].start > covered[v].start}) < MaxVictims}

Without(v) == [x \in DOMAIN covered \ {v} |-> covered[x]]

(* A bug: the victim need not find another place. *)
SwapsOrDrops(o, v) == Rebuilt(Without(v), o)

Swaps(o, v) == UNION {Rebuilt(at, v) : at \in Rebuilt(Without(v), o)}

(* _eject_one_windowed_leftover: the first victim that both it and the     *)
(* leftover survive; any other is put back where it was.                   *)
Eject ==
  /\ phase = "eject"
  /\ \E o \in InTurn :
     \E swaps \in {[v \in {x \in Victims(o) : PredecessorIsPlaced(o)} |-> Swaps(o, v)]} :
     \E able \in {{v \in DOMAIN swaps : swaps[v] # {}}} :
       /\ todo' = todo \ {o}
       /\ \/ \E v \in able :
               /\ \A u \in able : covered[u].start <= covered[v].start
               /\ covered' \in swaps[v]
               /\ moved' = moved \cup {v}
          \/ able = {} /\ UNCHANGED <<covered, moved>>
       /\ inserted' = (inserted \/ able # {})
  /\ UNCHANGED <<rule, phase, ready, attempts, index, progress>>

EndEjection ==
  /\ phase = "eject"
  /\ todo = {}
  /\ phase' = "done"
  /\ UNCHANGED <<rule, covered, ready, attempts, index, todo, progress, inserted, moved>>

CoverNext == PlaceNext \/ EndLoop \/ Retry \/ NextPass \/ Eject \/ EndEjection

CoverSpec == CoverInit /\ [][CoverNext]_coverVars

-----------------------------------------------------------------------------
ChainsHold ==
  \A o \in DOMAIN covered : PredecessorOf[o] \in DOMAIN covered =>
    covered[PredecessorOf[o]].end <= covered[o].start

NoneOverlap(placed) ==
  \A x, y \in DOMAIN placed :
    x # y /\ placed[x].wc = placed[y].wc /\ placed[x].start <= placed[y].start =>
      placed[x].end <= placed[y].start

(* A changeover is never longer than one by way of another operation.      *)
(* Nothing in the code asks for it: the neighbours of an ejected operation *)
(* come together without a look at the changeover between them.            *)
ChangeoversAddUp ==
  \A m \in Machines, x, y, z \in Ops :
    SetupBetween(m, x, z) <= SetupBetween(m, x, y) + Duration[y][m] + SetupBetween(m, y, z)

(* At every step, insertions and ejections included, no two operations of  *)
(* a machine are processed at a time, and each sits on a machine it may    *)
(* use inside its window and the horizon.  Changeovers have their time and *)
(* chains hold until something is ejected, changeovers after it too where  *)
(* they add up; and pools, and the shifts of what needs none, hold until   *)
(* something is put into a gap.                                            *)
CoverIsSound ==
  /\ NoneOverlap(covered)
  /\ \A o \in DOMAIN covered :
       /\ covered[o].wc \in EligibleFor[o] /\ covered[o].end <= Deadline(o)
       /\ IF HardWindow[o] THEN OpenFrom[o] # None => OpenFrom[o] <= covered[o].start
                           ELSE Earliest[o] <= covered[o].start
  /\ moved = {} \/ ChangeoversAddUp => Separated(covered)
  /\ moved = {} => ChainsHold
  /\ ~ inserted =>
       /\ PoolsRespected(covered)
       /\ \A o \in DOMAIN covered : RequiredBy(o) = {} => WithinShift(covered, o)

(* Ejection gains an operation or changes nothing: whatever was placed     *)
(* stays placed, and at most one operation moves, when another comes in.   *)
LosesNothing ==
  LET changed == {o \in DOMAIN covered : covered'[o] # covered[o]}
  IN  /\ DOMAIN covered \subseteq DOMAIN covered'
      /\ Cardinality(changed) <= Cardinality(DOMAIN covered' \ DOMAIN covered)
      /\ Cardinality(DOMAIN covered' \ DOMAIN covered) <= 1

NothingIsLost == [][LosesNothing]_covered

Fitting(seen) ==
  {o \in Leftovers : PredecessorIsPlaced(o) /\ PlacesFor(covered, seen[o], o, TRUE, {}) # {}}

(* The retries give up only when no leftover whose predecessor is placed   *)
(* fits anywhere, also when it became ready during the retries: as the     *)
(* index of the wave sees the pools, and truly for what holds no resource, *)
(* or when no gap was filled.  (An insertion may shorten the changeover of *)
(* the operation behind it, which the index goes on counting.)             *)
LeftoversAreStuck ==
  /\ phase = "steal" /\ todo = {} /\ ~ progress =>
       Fitting([o \in Ops |-> WindowsSeenBy(index, o)]) = {}
  /\ phase = "eject" /\ moved = {} =>
       \A o \in Fitting([x \in Ops |-> FreshWindows(covered, RequiredBy(x))]) :
         inserted /\ RequiredBy(o) # {}

=============================================================================
