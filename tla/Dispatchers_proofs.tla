-------------------------- MODULE Dispatchers_proofs --------------------------
(***************************************************************************)
(* The greedy constructor, for every problem: its machines are never       *)
(* double-booked and its precedence, lags, releases and latest finishes    *)
(* hold, from the lemmas about the insertion kernel.  As long as nothing   *)
(* fills a gap its pools and shifts hold too: the occupancy it caches is   *)
(* then the true one (AppendInv, AppendsAreTrue).                          *)
(*                                                                         *)
(* Then the list schedule that covers large instances, with its retries    *)
(* and its ejections: it is sound (CoverInv, CoverStaysSound), it loses    *)
(* nothing (NoPlaceIsLost), and its retries leave only what is stuck       *)
(* (RetriesExhaust).                                                       *)
(***************************************************************************)
EXTENDS GreedyDispatch, ListCover, CpSatModel_proofs

(* The cache may hold stale windows (the runs show it does in gap mode);   *)
(* all that is needed of it is that what it holds are times.               *)
IInv ==
  /\ TypeOK
  /\ TimelinesSeparated
  /\ WindowsAndLagsHold
  /\ CachesTimes(cache)

LEMMA TypesMakeATimeline ==
  ASSUME TypeOK PROVE Timeline(placed)
<1>1. \A o \in DOMAIN placed : o \in Ops /\ placed[o] \in Assignment
  BY DEF TypeOK
<1> QED BY <1>1 DEF TypeOK, Timeline, Assignment

LEMMA ScanIsKnown ==
  ASSUME NEW l, NEW o PROVE GapScanFor(l, o) \in {"all", "append", "window"}
BY Zenon DEF GapScanFor

-----------------------------------------------------------------------------
(* The earliest start is the largest of the bounds the predecessors set.   *)
LEMMA EarliestStartBounds ==
  ASSUME TypeOK, NEW o \in Ops, Ready(o)
  PROVE  /\ EarliestStart(o) \in Int
         /\ Release[o] <= EarliestStart(o)
         /\ PredecessorOf[o] # None => placed[PredecessorOf[o]].end <= EarliestStart(o)
         /\ \A e \in Edges : e.dst = o => EdgeBound(o, e) <= EarliestStart(o)
<1> DEFINE incoming == {d \in Edges : d.dst = o}
           chain == IF PredecessorOf[o] = None THEN {} ELSE {placed[PredecessorOf[o]].end}
           lags == {EdgeBound(o, e) : e \in incoming}
           bounds == {Release[o]} \cup chain \cup lags
<1>1. \A x \in DOMAIN placed : placed[x].start \in Int /\ placed[x].end \in Int
  BY DEF TypeOK, Assignment
<1>2. Release[o] \in Int
  BY PrecedenceAssumption DEF PrecedenceAssumption
<1>3. chain \subseteq Int
  BY <1>1 DEF Ready
<1>4. lags \subseteq Int
  <2>1. ASSUME NEW e \in incoming PROVE EdgeBound(o, e) \in Int
    <3>1. e.src \in DOMAIN placed /\ e.min_lag \in Int /\ ShortestDuration[o] \in Int
      BY PrecedenceAssumption, GreedyDispatchAssumption
      DEF PrecedenceAssumption, GreedyDispatchAssumption, Ready
    <3>2. SourceAnchor(e) \in Int
      BY <1>1, <3>1 DEF SourceAnchor
    <3> QED BY <3>1, <3>2 DEF EdgeBound
  <2> QED BY <2>1
<1>5. IsFiniteSet(bounds)
  <2>1. IsFiniteSet(incoming)
    BY FS_Subset, PrecedenceAssumption DEF PrecedenceAssumption
  <2>2. IsFiniteSet(lags)
    <3> DEFINE bound == [e \in incoming |-> EdgeBound(o, e)]
    <3>1. bound \in Surjection(incoming, lags)
      BY DEF Surjection
    <3> HIDE DEF incoming, lags, bound
    <3> QED BY <2>1, <3>1, FS_Surjection
  <2>3. IsFiniteSet({Release[o]}) /\ IsFiniteSet(chain)
    BY FS_Singleton, FS_EmptySet
  <2> HIDE DEF chain, lags
  <2> QED BY <2>2, <2>3, FS_Union
<1>6. \E b \in bounds : \A c \in bounds : c <= b
  <2> DEFINE id == [b \in bounds |-> b]
  <2>1. id \in [bounds -> Int] /\ bounds # {}
    BY <1>2, <1>3, <1>4
  <2> HIDE DEF bounds
  <2>2. PICK b \in bounds : \A c \in bounds : id[c] <= id[b]
    BY <1>5, <2>1, LargestElement
  <2> QED BY <2>2
<1>7. EarliestStart(o) \in bounds /\ \A c \in bounds : c <= EarliestStart(o)
  <2>1. EarliestStart(o) = CHOOSE b \in bounds : \A c \in bounds : c <= b
    BY DEF EarliestStart
  <2> HIDE DEF bounds
  <2> QED BY <1>6, <2>1
<1>8. EarliestStart(o) \in Int
  BY <1>2, <1>3, <1>4, <1>7
<1>9. PredecessorOf[o] # None => placed[PredecessorOf[o]].end \in bounds
  OBVIOUS
<1>10. \A e \in Edges : e.dst = o => EdgeBound(o, e) \in bounds
  OBVIOUS
<1>11. Release[o] \in bounds
  OBVIOUS
<1> HIDE DEF bounds
<1> QED BY <1>7, <1>8, <1>9, <1>10, <1>11

(* A slot picked for a ready operation respects its bounds and keeps the   *)
(* machines separated.                                                     *)
LEMMA DispatchedSlot ==
  ASSUME IInv, NEW o \in Ops, Ready(o), NEW slot \in SlotsOf(o)
  PROVE  /\ Timeline(PlaceAt(placed, o, slot))
         /\ Separated(PlaceAt(placed, o, slot))
         /\ slot \in Assignment /\ slot.wc \in EligibleFor[o]
         /\ slot.end = slot.start + Duration[o][slot.wc]
         /\ EarliestStart(o) <= slot.start
         /\ LatestFinish[o] # None => slot.end <= LatestFinish[o]
<1>1. Timeline(placed) /\ Separated(placed)
  BY TypesMakeATimeline DEF IInv, TimelinesSeparated
<1>2. PICK m \in EligibleFor[o] :
        slot \in EarliestSlots(placed, WindowsSeenBy(SearchedCache, o), GapScanFor(large, o),
                               o, m, EarliestStart(o))
  BY DEF SlotsOf
<1>3. m \in Machines
  BY DispatchTimelineAssumption DEF DispatchTimelineAssumption
<1>4. EndsAreTimes(WindowsSeenBy(SearchedCache, o))
  BY <1>1, CachedForKeepsTimes, SeenWindowsAreTimes DEF IInv, SearchedCache
<1>5. EarliestStart(o) \in Int
  BY EarliestStartBounds DEF IInv
<1>6. o \in Ops \ DOMAIN placed
  BY DEF Ready
<1>7. /\ Timeline(PlaceAt(placed, o, slot))
      /\ Separated(PlaceAt(placed, o, slot))
      /\ \E p, f : SlotFits(placed, o, m, EarliestStart(o), p, f, slot)
  BY <1>1, <1>2, <1>3, <1>4, <1>5, <1>6, ScanIsKnown, EarliestSlotIsSound
<1> QED BY <1>7 DEF SlotFits

(* What holds of the bounds of an operation does not depend on operations  *)
(* placed later.                                                           *)
BoundsHold(o) ==
  /\ placed[o].start >= Release[o]
  /\ LatestFinish[o] # None => placed[o].end <= LatestFinish[o]
  /\ PredecessorOf[o] # None =>
       PredecessorOf[o] \in DOMAIN placed /\ placed[PredecessorOf[o]].end <= placed[o].start
  /\ \A e \in Edges :
       e.dst = o =>
         /\ e.src \in DOMAIN placed
         /\ SourceAnchor(e) + e.min_lag <=
              IF e.type \in {"FS", "SS"} THEN placed[o].start ELSE placed[o].end

LEMMA BoundsStay ==
  ASSUME NEW o \in DOMAIN placed, BoundsHold(o), DOMAIN placed \subseteq DOMAIN placed',
         \A x \in DOMAIN placed :
           placed'[x].start = placed[x].start /\ placed'[x].end = placed[x].end
  PROVE  BoundsHold(o)'
BY DEF BoundsHold, SourceAnchor

LEMMA DispatchMeetsBounds ==
  ASSUME IInv, NEW o \in Ops, Ready(o), NEW slot \in SlotsOf(o), placed' = PlaceAt(placed, o, slot)
  PROVE  BoundsHold(o)'
<1>1. /\ DOMAIN placed' = DOMAIN placed \cup {o} /\ placed'[o] = slot
      /\ \A x \in DOMAIN placed : placed'[x] = placed[x]
  BY DEF PlaceAt, Ready
<1>2. /\ slot.start \in Int /\ slot.end = slot.start + Duration[o][slot.wc]
      /\ slot.wc \in EligibleFor[o] /\ Duration[o][slot.wc] \in Int /\ Duration[o][slot.wc] > 0
      /\ EarliestStart(o) <= slot.start
      /\ LatestFinish[o] # None => slot.end <= LatestFinish[o]
  BY DispatchedSlot, ProblemFacts DEF Assignment
<1>3. /\ EarliestStart(o) \in Int
      /\ Release[o] <= EarliestStart(o)
      /\ PredecessorOf[o] # None => placed[PredecessorOf[o]].end <= EarliestStart(o)
      /\ \A e \in Edges : e.dst = o => EdgeBound(o, e) <= EarliestStart(o)
  BY EarliestStartBounds DEF IInv
<1>4. /\ Release[o] \in Int /\ ShortestDuration[o] \in Int
      /\ ShortestDuration[o] <= Duration[o][slot.wc]
  BY <1>2, PrecedenceAssumption, GreedyDispatchAssumption
  DEF PrecedenceAssumption, GreedyDispatchAssumption
<1>5. \A x \in DOMAIN placed : placed[x].start \in Int /\ placed[x].end \in Int
  BY DEF IInv, TypeOK, Assignment
<1>6. PredecessorOf[o] # None =>
        PredecessorOf[o] \in DOMAIN placed /\ placed[PredecessorOf[o]].end <= slot.start
  BY <1>2, <1>3, <1>5 DEF Ready
<1>7. ASSUME NEW e \in Edges, e.dst = o
      PROVE  /\ e.src \in DOMAIN placed
             /\ SourceAnchor(e) + e.min_lag <=
                  IF e.type \in {"FS", "SS"} THEN slot.start ELSE slot.end
  <2>1. e.src \in DOMAIN placed /\ e.min_lag \in Int /\ e.type \in {"FS", "SS", "FF", "SF"}
    BY <1>7, PrecedenceAssumption DEF PrecedenceAssumption, Ready
  <2>2. SourceAnchor(e) \in Int
    BY <1>5, <2>1 DEF SourceAnchor
  <2>3. EdgeBound(o, e) <= EarliestStart(o)
    BY <1>3, <1>7
  <2>4. CASE e.type \in {"FS", "SS"}
    <3>1. SourceAnchor(e) + e.min_lag <= EarliestStart(o)
      BY <2>1, <2>2, <2>3, <2>4 DEF EdgeBound
    <3> QED BY <1>2, <1>3, <2>1, <2>2, <2>4, <3>1
  <2>5. CASE e.type \in {"FF", "SF"}
    <3>1. SourceAnchor(e) + e.min_lag - ShortestDuration[o] <= EarliestStart(o)
      BY <2>3, <2>5 DEF EdgeBound
    <3>2. SourceAnchor(e) + e.min_lag <= slot.end
      BY <1>2, <1>3, <1>4, <2>1, <2>2, <3>1
    <3> QED BY <2>1, <2>5, <3>2
  <2> QED BY <2>1, <2>4, <2>5
<1>8. \A e \in Edges : e.dst = o => SourceAnchor(e)' = SourceAnchor(e)
  BY <1>1, <1>7 DEF SourceAnchor
<1>9. Release[o] <= slot.start
  BY <1>2, <1>3, <1>4
<1>10. PredecessorOf[o] # None =>
        PredecessorOf[o] \in DOMAIN placed' /\ placed'[PredecessorOf[o]].end <= placed'[o].start
  BY <1>1, <1>6
<1>11. \A e \in Edges :
        e.dst = o =>
          /\ e.src \in DOMAIN placed'
          /\ SourceAnchor(e)' + e.min_lag <=
               IF e.type \in {"FS", "SS"} THEN placed'[o].start ELSE placed'[o].end
  BY <1>1, <1>7, <1>8
<1> QED BY <1>1, <1>2, <1>4, <1>9, <1>10, <1>11 DEF BoundsHold

-----------------------------------------------------------------------------
LEMMA InitKeeps == ASSUME Init PROVE IInv
<1>1. DOMAIN placed = {} /\ DOMAIN cache = {} /\ placed \in [DOMAIN placed -> Assignment]
  BY DEF Init
<1>2. large \in LargeProblem /\ status = "running"
  BY DEF Init
<1>3. TypeOK
  BY <1>1, <1>2, Zenon DEF TypeOK
<1>4. TimelinesSeparated /\ WindowsAndLagsHold /\ CachesTimes(cache)
  BY <1>1 DEF TimelinesSeparated, Separated, WindowsAndLagsHold, CachesTimes
<1> QED BY <1>3, <1>4 DEF IInv

LEMMA SearchKeepsCache ==
  ASSUME IInv
  PROVE  DOMAIN SearchedCache \subseteq SUBSET Resources /\ CachesTimes(SearchedCache)
<1>1. Timeline(placed)
  BY TypesMakeATimeline DEF IInv
<1>2. CachesTimes(SearchedCache)
  BY <1>1, CachedForKeepsTimes DEF IInv, SearchedCache
<1>3. DOMAIN SearchedCache \subseteq SUBSET Resources
  BY DEF SearchedCache, CachedFor, RequiredBy, IInv, TypeOK
<1> QED BY <1>2, <1>3

LEMMA DispatchKeeps == ASSUME IInv, NEW o \in Ops, Dispatch(o) PROVE IInv'
<1>1. PICK slot \in SlotsOf(o) : /\ placed' = PlaceAt(placed, o, slot)
                                 /\ cache' = CacheAfterAdd(SearchedCache, placed', o)
  BY DEF Dispatch, Preferred
<1>2. Ready(o) /\ o \in Ops \ DOMAIN placed
  BY DEF Dispatch, Ready
<1>3. /\ Timeline(placed') /\ Separated(placed')
      /\ slot \in Assignment /\ slot.wc \in EligibleFor[o]
      /\ slot.end = slot.start + Duration[o][slot.wc]
  BY <1>1, <1>2, DispatchedSlot
<1>4. /\ DOMAIN placed' = DOMAIN placed \cup {o} /\ placed'[o] = slot
      /\ \A x \in DOMAIN placed : placed'[x] = placed[x]
  BY <1>1, <1>2 DEF PlaceAt
<1>5. /\ DOMAIN placed' \subseteq Ops
      /\ placed' \in [DOMAIN placed' -> Assignment]
      /\ \A x \in DOMAIN placed' :
           /\ placed'[x].wc \in EligibleFor[x]
           /\ placed'[x].end = placed'[x].start + Duration[x][placed'[x].wc]
  <2>1. /\ DOMAIN placed \subseteq Ops
        /\ \A x \in DOMAIN placed :
             /\ placed[x] \in Assignment /\ placed[x].wc \in EligibleFor[x]
             /\ placed[x].end = placed[x].start + Duration[x][placed[x].wc]
    BY DEF IInv, TypeOK
  <2>2. placed' \in [DOMAIN placed \cup {o} -> Assignment]
    BY <1>1, <1>3, <2>1 DEF PlaceAt
  <2> QED BY <1>3, <1>4, <2>1, <2>2
<1>6. DOMAIN cache' \subseteq SUBSET Resources
  BY <1>1, SearchKeepsCache DEF CacheAfterAdd
<1>7. CachesTimes(cache')
  BY <1>1, <1>3, <1>4, SearchKeepsCache, CacheAfterAddKeepsTimes
<1>8. large' \in LargeProblem /\ status' = "running"
  BY Zenon DEF Dispatch, IInv, TypeOK
<1>9. TypeOK'
  BY <1>5, <1>6, <1>8, Zenon DEF TypeOK
<1>10. \A x \in DOMAIN placed' : BoundsHold(x)'
  <2>1. BoundsHold(o)'
    BY <1>1, <1>2, DispatchMeetsBounds
  <2>2. ASSUME NEW x \in DOMAIN placed PROVE BoundsHold(x)'
    BY <1>4, BoundsStay DEF IInv, WindowsAndLagsHold, BoundsHold
  <2> QED BY <1>4, <2>1, <2>2
<1>11. WindowsAndLagsHold'
  BY <1>10 DEF WindowsAndLagsHold, BoundsHold
<1> QED BY <1>3, <1>7, <1>9, <1>11 DEF IInv, TimelinesSeparated

LEMMA StuckKeeps == ASSUME IInv, Stuck PROVE IInv'
<1>1. placed' = placed /\ cache' = SearchedCache
  BY DEF Stuck
<1>2. large' \in LargeProblem /\ status' = "error"
  BY Zenon DEF Stuck, IInv, TypeOK
<1>3. TypeOK'
  BY <1>1, <1>2, SearchKeepsCache, Zenon DEF IInv, TypeOK
<1>4. TimelinesSeparated' /\ WindowsAndLagsHold' /\ CachesTimes(cache')
  BY <1>1, SearchKeepsCache DEF IInv, TimelinesSeparated, WindowsAndLagsHold, SourceAnchor
<1> QED BY <1>3, <1>4 DEF IInv

LEMMA TimeLimitKeeps == ASSUME IInv, TimeLimit PROVE IInv'
<1>1. placed' = placed /\ cache' = cache
  BY DEF TimeLimit
<1>2. large' \in LargeProblem /\ status' = "timeout"
  BY Zenon DEF TimeLimit, IInv, TypeOK
<1>3. TypeOK'
  BY <1>1, <1>2, Zenon DEF IInv, TypeOK
<1>4. TimelinesSeparated' /\ WindowsAndLagsHold' /\ CachesTimes(cache')
  BY <1>1 DEF IInv, TimelinesSeparated, WindowsAndLagsHold, SourceAnchor
<1> QED BY <1>3, <1>4 DEF IInv

LEMMA FinishKeeps == ASSUME IInv, Finish PROVE IInv'
<1>1. placed' = RecomputeSetups(placed) /\ cache' = cache
  BY DEF Finish
<1>2. Timeline(placed) /\ Separated(placed) /\ \A o \in DOMAIN placed : placed[o] \in Assignment
  BY TypesMakeATimeline DEF IInv, TypeOK, TimelinesSeparated
<1>3. /\ DOMAIN placed' = DOMAIN placed
      /\ \A o \in DOMAIN placed : /\ placed'[o].wc = placed[o].wc
                                  /\ placed'[o].start = placed[o].start
                                  /\ placed'[o].end = placed[o].end
  BY <1>1, <1>2, RecomputeKeepsTimes
<1>4. Timeline(placed') /\ Separated(placed')
  BY <1>2, <1>3, SameTimesKeepSeparated
<1>5. placed' \in [DOMAIN placed' -> Assignment]
  <2>1. ASSUME NEW o \in DOMAIN placed PROVE ActualSetup(placed, o) \in Nat
    BY <1>2, ActualSetupIsNat
  <2> QED BY <1>1, <1>2, <2>1 DEF RecomputeSetups, Assignment
<1>6. large' \in LargeProblem /\ status' = "feasible"
  BY Zenon DEF Finish, IInv, TypeOK
<1>7. /\ DOMAIN placed' \subseteq Ops /\ DOMAIN cache' \subseteq SUBSET Resources
      /\ \A o \in DOMAIN placed' :
           /\ placed'[o].wc \in EligibleFor[o]
           /\ placed'[o].end = placed'[o].start + Duration[o][placed'[o].wc]
  BY <1>1, <1>3 DEF IInv, TypeOK
<1>8. TypeOK'
  BY <1>5, <1>6, <1>7, Zenon DEF TypeOK
<1>9. \A o \in DOMAIN placed' : BoundsHold(o)'
  BY <1>3, BoundsStay DEF IInv, WindowsAndLagsHold, BoundsHold
<1>10. WindowsAndLagsHold'
  BY <1>9 DEF WindowsAndLagsHold, BoundsHold
<1>11. CachesTimes(cache')
  BY <1>1 DEF IInv
<1> QED BY <1>4, <1>8, <1>10, <1>11 DEF IInv, TimelinesSeparated

LEMMA NextKeeps == ASSUME IInv, [Next]_vars PROVE IInv'
<1>1. CASE UNCHANGED vars
  <2>1. placed' = placed /\ cache' = cache /\ large' = large /\ status' = status
    BY <1>1 DEF vars
  <2>2. TypeOK'
    BY <2>1, Zenon DEF IInv, TypeOK
  <2>3. TimelinesSeparated' /\ WindowsAndLagsHold' /\ CachesTimes(cache')
    BY <2>1 DEF IInv, TimelinesSeparated, WindowsAndLagsHold, SourceAnchor
  <2> QED BY <2>2, <2>3 DEF IInv
<1> QED BY <1>1, DispatchKeeps, StuckKeeps, TimeLimitKeeps, FinishKeeps DEF Next

LEMMA IInvHolds == Spec => []IInv
BY InitKeeps, NextKeeps, PTL DEF Spec

(* Every variable has its type: in particular each operation is placed on  *)
(* a machine it is eligible for, for the time that machine needs.          *)
THEOREM GreedyTypes == Spec => []TypeOK
<1>1. IInv => TypeOK
  BY DEF IInv
<1> QED BY <1>1, IInvHolds, PTL

(* No machine is double-booked, whatever is picked, whichever gaps are     *)
(* scanned and however stale the cached occupancy is: between neighbours   *)
(* the setup always has time to run.                                       *)
THEOREM MachinesNeverOverlap == Spec => []TimelinesSeparated
<1>1. IInv => TimelinesSeparated
  BY DEF IInv
<1> QED BY <1>1, IInvHolds, PTL

(* Chain predecessors, the minimum lags of all four edge types, release    *)
(* dates and latest finishes hold of every partial schedule.               *)
THEOREM LagsAndWindowsHold == Spec => []WindowsAndLagsHold
<1>1. IInv => WindowsAndLagsHold
  BY DEF IInv
<1> QED BY <1>1, IInvHolds, PTL

-----------------------------------------------------------------------------
(* Pools and shifts, while nothing fills a gap.  The cache then holds what *)
(* the timeline says, so that a slot is admitted against the true          *)
(* occupancy; and what it says of an operation does not change any more,   *)
(* because nothing is ever put before it.                                  *)
AppendInv ==
  /\ IInv
  /\ {} \notin DOMAIN cache
  /\ AppendKeepsPoolsAndShifts

CacheIsTrue(at, windows) == \A k \in DOMAIN windows : windows[k] = FreshWindows(at, k)

(* An append gives the operation the last place of its machine.            *)
LEMMA AppendedSlot ==
  ASSUME IInv, AppendOnly, NEW o \in Ops, Ready(o), ~ HardWindow[o], NEW slot \in SlotsOf(o)
  PROVE  \E m \in Machines : \E p :
           /\ Neighbour(placed, m, p) /\ IsLast(placed, On(placed, m), p)
           /\ SlotFits(placed, o, m, EarliestStart(o), p, None, slot)
           /\ slot \in SlotsInGap(placed, WindowsSeenBy(SearchedCache, o), o, m, EarliestStart(o), p, None)
<1>1. Timeline(placed)
  BY TypesMakeATimeline DEF IInv
<1>2. GapScanFor(large, o) = "append"
  BY DEF AppendOnly, GapScanFor
<1>3. PICK m \in EligibleFor[o] :
        slot \in EarliestSlots(placed, WindowsSeenBy(SearchedCache, o), "append",
                               o, m, EarliestStart(o))
  BY <1>2 DEF SlotsOf
<1>4. m \in Machines
  BY DispatchTimelineAssumption DEF DispatchTimelineAssumption
<1>5. PICK g \in AppendGap(placed, m) :
        slot \in SlotsInGap(placed, WindowsSeenBy(SearchedCache, o), o, m, EarliestStart(o), g[1], g[2])
  BY <1>3 DEF EarliestSlots, GapsScanned
<1>6. g[2] = None /\ Neighbour(placed, m, g[1]) /\ IsLast(placed, On(placed, m), g[1])
  BY <1>5 DEF AppendGap, AllGaps, Neighbour
<1>7. EndsAreTimes(WindowsSeenBy(SearchedCache, o))
  BY <1>1, CachedForKeepsTimes, SeenWindowsAreTimes DEF IInv, SearchedCache
<1>8. EarliestStart(o) \in Int
  BY EarliestStartBounds DEF IInv
<1>9. Neighbour(placed, m, None)
  BY DEF Neighbour
<1>10. SlotFits(placed, o, m, EarliestStart(o), g[1], None, slot)
  BY <1>1, <1>4, <1>5, <1>6, <1>7, <1>8, <1>9, SlotInGapFits
<1> QED BY <1>4, <1>5, <1>6, <1>10

(* What a slot was checked against.  An operation that needs no resource   *)
(* takes the start of the gap, clipped to a shift with its setup.          *)
LEMMA SlotWasChecked ==
  ASSUME NEW at, NEW windows, NEW o, NEW m, NEW earliest, NEW p,
         NEW slot \in SlotsInGap(at, windows, o, m, earliest, p, None)
  PROVE  /\ ResourcesFit(windows, o, slot.start - SetupAfter(m, p, o), slot.end)
         /\ DOMAIN windows = {} => slot.start \in GapStarts(at, o, m, earliest, p)
         /\ slot.wc = m /\ slot.end = slot.start + Duration[o][m]
<1> DEFINE setup == SetupAfter(m, p, o)
<1>1. PICK t \in UNION {CandidateStarts(windows, g, setup) : g \in GapStarts(at, o, m, earliest, p)} :
        /\ ResourcesFit(windows, o, t - setup, t + Duration[o][m])
        /\ slot = Slot(m, t, Duration[o][m], setup)
  BY DEF SlotsInGap, First
<1>2. slot.start = t /\ slot.wc = m /\ slot.end = t + Duration[o][m]
  BY <1>1 DEF Slot
<1>3. ASSUME DOMAIN windows = {} PROVE t \in GapStarts(at, o, m, earliest, p)
  <2>1. PICK g \in GapStarts(at, o, m, earliest, p) : t \in CandidateStarts(windows, g, setup)
    BY <1>1
  <2>2. t = g
    BY <1>3, <2>1 DEF CandidateStarts
  <2> QED BY <2>1, <2>2
<1> HIDE DEF setup
<1> QED BY <1>1, <1>2, <1>3 DEF setup

LEMMA GapStartsKeepShifts ==
  ASSUME NEW at, Timeline(at), NEW o \in Ops, NEW m \in Machines, NEW earliest \in Int,
         NEW p, Neighbour(at, m, p), NEW t \in GapStarts(at, o, m, earliest, p)
  PROVE  \/ Calendar[m] = {}
         \/ \E shift \in Calendar[m] :
              shift.open <= t - SetupAfter(m, p, o) /\ t + Duration[o][m] <= shift.close
<1> DEFINE setup == SetupAfter(m, p, o)
           previousEnd == IF p = None THEN 0 ELSE at[p].end
           occupancy == Larger(previousEnd, earliest - setup)
           length == Duration[o][m] + setup
<1>1. SUFFICES ASSUME Calendar[m] # {}
               PROVE \E shift \in Calendar[m] : shift.open <= t - setup /\ t + Duration[o][m] <= shift.close
  OBVIOUS
<1>2. setup \in Nat /\ Duration[o][m] \in Int
  BY SetupAfterIsNat, ProblemFacts DEF Neighbour, On, Timeline
<1>3. previousEnd \in Int
  <2>1. p # None => /\ p \in Ops /\ at[p].start \in Int /\ at[p].wc \in Machines
                    /\ at[p].end = at[p].start + Duration[p][at[p].wc]
    BY DEF Neighbour, On, Timeline
  <2> QED BY <2>1, ProblemFacts
<1>4. occupancy \in Int
  BY <1>2, <1>3 DEF Larger
<1>5. PICK u \in First(OpenStarts(m, occupancy, length)) : t = u + setup
  BY DEF GapStarts
<1> HIDE DEF setup, previousEnd, occupancy
<1>6. PICK shift \in Calendar[m] :
        u = Larger(occupancy, shift.open) /\ Larger(occupancy, shift.open) + length <= shift.close
  BY <1>1, <1>5 DEF First, OpenStarts
<1>7. shift.open \in Int /\ shift.close \in Int
  BY DispatchTimelineAssumption DEF DispatchTimelineAssumption
<1>8. u \in Int /\ shift.open <= u
  BY <1>4, <1>6, <1>7 DEF Larger
<1> QED BY <1>2, <1>5, <1>6, <1>7, <1>8

(* The cache is filled with what the timeline says.                        *)
LEMMA SearchedIsTrue ==
  ASSUME CacheIsTrue(placed, cache)
  PROVE  CacheIsTrue(placed, SearchedCache)
BY DEF CacheIsTrue, SearchedCache, CachedFor

LEMMA SearchedHasKeys ==
  ASSUME {} \notin DOMAIN cache, NEW o \in Ops, Ready(o)
  PROVE  /\ {} \notin DOMAIN SearchedCache
         /\ RequiredBy(o) # {} => RequiredBy(o) \in DOMAIN SearchedCache
<1>1. o \in ReadyOps
  BY DEF ReadyOps
<1> QED BY <1>1 DEF SearchedCache, CachedFor

LEMMA AddKeepsCacheTrue ==
  ASSUME NEW at, NEW windows, CacheIsTrue(at, windows), NEW o, o \notin DOMAIN at,
         NEW new, DOMAIN new = DOMAIN at \cup {o},
         \A x \in DOMAIN at : Window(new, x) = Window(at, x)
  PROVE  CacheIsTrue(new, CacheAfterAdd(windows, new, o))
<1> DEFINE added == CacheAfterAdd(windows, new, o)
<1>1. SUFFICES ASSUME NEW k \in DOMAIN added PROVE added[k] = FreshWindows(new, k)
  BY DEF CacheIsTrue
<1>2. k \in DOMAIN windows /\ windows[k] = FreshWindows(at, k)
  BY DEF CacheIsTrue, CacheAfterAdd
<1> DEFINE before == {p \in DOMAIN at : RequiredBy(p) \cap k # {}}
           after == {p \in DOMAIN new : RequiredBy(p) \cap k # {}}
<1>3. windows[k] = [x \in before |-> Window(at, x)] /\ FreshWindows(new, k) = [x \in after |-> Window(new, x)]
  BY <1>2 DEF FreshWindows
<1>4. CASE RequiredBy(o) \cap k = {}
  <2>1. added[k] = windows[k]
    BY <1>2, <1>4 DEF CacheAfterAdd
  <2>2. after = before /\ \A x \in before : Window(at, x) = Window(new, x)
    BY <1>4
  <2> HIDE DEF before, after, added
  <2> QED BY <1>3, <2>1, <2>2
<1>5. CASE RequiredBy(o) \cap k # {}
  <2>1. added[k] = [x \in DOMAIN windows[k] \cup {o} |-> IF x = o THEN Window(new, o) ELSE windows[k][x]]
    BY <1>2, <1>5 DEF CacheAfterAdd
  <2>2. after = before \cup {o} /\ \A x \in before : Window(at, x) = Window(new, x)
    BY <1>5
  <2> HIDE DEF before, after, added
  <2> QED BY <1>3, <2>1, <2>2
<1> QED BY <1>4, <1>5

(* A pool that was respected stays so: behind the last operation of a      *)
(* machine the new one is the only change, and where it holds something it *)
(* was admitted against all the others.                                    *)
LEMMA AddKeepsPools ==
  ASSUME NEW at, Timeline(at), PoolsRespected(at), NEW o \in Ops \ DOMAIN at,
         NEW new, Timeline(new), DOMAIN new = DOMAIN at \cup {o},
         \A x \in DOMAIN at : Window(new, x) = Window(at, x),
         RequiredBy(o) # {} =>
           ResourcesFit(FreshWindows(at, RequiredBy(o)), o, Window(new, o).from, Window(new, o).to)
  PROVE  PoolsRespected(new)
<1>1. SUFFICES ASSUME NEW r \in Resources, NEW x \in DOMAIN FreshWindows(new, {r}),
                      NEW t \in FreshWindows(new, {r})[x].from .. FreshWindows(new, {r})[x].to - 1
               PROVE  Held(FreshWindows(new, {r}), r, t) <= PoolSize[r]
  BY DEF PoolsRespected
<1> DEFINE v == FreshWindows(at, {r})
           w == FreshWindows(new, {r})
           all == FreshWindows(at, RequiredBy(o))
<1>2. /\ DOMAIN v = {y \in DOMAIN at : r \in RequiredBy(y)}
      /\ DOMAIN w = {y \in DOMAIN new : r \in RequiredBy(y)}
      /\ DOMAIN all = {y \in DOMAIN at : RequiredBy(y) \cap RequiredBy(o) # {}}
      /\ \A y \in DOMAIN v : v[y] = Window(at, y)
      /\ \A y \in DOMAIN w : w[y] = Window(new, y)
      /\ \A y \in DOMAIN all : all[y] = Window(at, y)
  BY DEF FreshWindows
<1>3. DOMAIN v \subseteq Ops /\ DOMAIN w \subseteq Ops /\ DOMAIN all \subseteq Ops
  BY <1>2 DEF Timeline
<1>4. PoolSize[r] \in Nat /\ Needs[o][r] \in Nat
  BY DispatchTimelineAssumption DEF DispatchTimelineAssumption
<1>5. \A y \in DOMAIN v : \A n \in v[y].from .. v[y].to - 1 : Held(v, r, n) <= PoolSize[r]
  BY DEF PoolsRespected
<1>6. \A y \in DOMAIN w : y # o => y \in DOMAIN v /\ w[y] = v[y]
  BY <1>2
<1>7. \A y \in DOMAIN new : Window(new, y).from \in Int /\ Window(new, y).to \in Int
  <2>1. ASSUME NEW y \in DOMAIN new PROVE Window(new, y).from \in Int /\ Window(new, y).to \in Int
    <3>1. new[y].start \in Int /\ ActualSetup(new, y) \in Nat
      BY ActualSetupIsNat DEF Timeline
    <3> QED BY <3>1, WindowEndsAreTimes DEF Window
  <2> QED BY <2>1
<1>8. x \in DOMAIN w /\ x \in DOMAIN new /\ t \in w[x].from .. w[x].to - 1 /\ w[x] = Window(new, x)
  BY <1>1, <1>2
<1>9. t \in Int /\ w[x].from <= t /\ t < w[x].to
  BY <1>7, <1>8
<1> HIDE DEF v, w, all
<1>10. CASE o \in Holders(w, t)
  <2>1. o \in DOMAIN w /\ o \in DOMAIN new /\ w[o] = Window(new, o) /\ w[o].from <= t /\ t < w[o].to
    BY <1>2, <1>10 DEF Holders
  <2>2. r \in RequiredBy(o) /\ t \in Window(new, o).from .. Window(new, o).to - 1
    BY <1>2, <1>7, <1>9, <2>1
  <2>3. Held(all, r, t) + Needs[o][r] <= PoolSize[r]
    BY <2>2 DEF ResourcesFit, all
  <2>4. \A y \in DOMAIN w : y # o => y \in DOMAIN all /\ w[y] = all[y]
    BY <1>2, <2>2
  <2>5. Holders(w, t) \ {o} \subseteq Holders(all, t)
    BY <2>4 DEF Holders
  <2>6. Held(w, r, t) <= Held(all, r, t) + Needs[o][r]
    BY <1>3, <2>5, HeldWithOneMore
  <2>7. Held(w, r, t) \in Nat /\ Held(all, r, t) \in Nat
    BY <1>3, HeldIsNat
  <2> QED BY <1>4, <2>3, <2>6, <2>7 DEF w
<1>11. CASE o \notin Holders(w, t)
  <2>1. Holders(w, t) \ {o} \subseteq Holders(v, t)
    BY <1>6 DEF Holders
  <2>2. Held(w, r, t) <= Held(v, r, t)
    BY <1>3, <1>11, <2>1, HeldWithOneMore
  <2>3. x # o
    BY <1>8, <1>9, <1>11 DEF Holders
  <2>4. Held(v, r, t) <= PoolSize[r]
    BY <1>5, <1>6, <1>8, <2>3
  <2>5. Held(w, r, t) \in Nat /\ Held(v, r, t) \in Nat
    BY <1>3, HeldIsNat
  <2> QED BY <1>4, <2>2, <2>4, <2>5 DEF w
<1> QED BY <1>10, <1>11

LEMMA DispatchKeepsAppend ==
  ASSUME AppendInv, NEW o \in Ops, Dispatch(o), IInv'
  PROVE  AppendInv'
<1>1. PICK slot \in SlotsOf(o) : /\ placed' = PlaceAt(placed, o, slot)
                                 /\ cache' = CacheAfterAdd(SearchedCache, placed', o)
  BY DEF Dispatch, Preferred
<1>2. Ready(o) /\ o \in Ops \ DOMAIN placed /\ large' = large
  BY DEF Dispatch, Ready
<1>3. IInv /\ {} \notin DOMAIN cache /\ AppendKeepsPoolsAndShifts
  BY DEF AppendInv
<1>4. /\ DOMAIN placed' = DOMAIN placed \cup {o} /\ placed'[o] = slot
      /\ \A x \in DOMAIN placed : placed'[x] = placed[x]
  BY <1>1, <1>2 DEF PlaceAt
<1>5. {} \notin DOMAIN cache'
  BY <1>1, <1>2, <1>3, SearchedHasKeys DEF CacheAfterAdd
<1>6. ASSUME AppendOnly' PROVE /\ CachedWindowsAreTrue' /\ PoolsRespected(placed')
                               /\ \A x \in DOMAIN placed' : RequiredBy(x) = {} => WithinShift(placed', x)
  <2>1. AppendOnly /\ ~ HardWindow[o]
    BY <1>2, <1>4, <1>6 DEF AppendOnly
  <2>2. /\ CacheIsTrue(placed, cache) /\ PoolsRespected(placed)
        /\ \A x \in DOMAIN placed : RequiredBy(x) = {} => WithinShift(placed, x)
    BY <1>3, <2>1 DEF AppendKeepsPoolsAndShifts, CachedWindowsAreTrue, CacheIsTrue
  <2> DEFINE seen == WindowsSeenBy(SearchedCache, o)
             earliest == EarliestStart(o)
  <2>0. PICK m \in Machines : \E p :
           /\ Neighbour(placed, m, p) /\ IsLast(placed, On(placed, m), p)
           /\ SlotFits(placed, o, m, earliest, p, None, slot)
           /\ slot \in SlotsInGap(placed, seen, o, m, earliest, p, None)
    BY <1>2, <1>3, <2>1, AppendedSlot
  <2>3. PICK p :
           /\ Neighbour(placed, m, p) /\ IsLast(placed, On(placed, m), p)
           /\ SlotFits(placed, o, m, earliest, p, None, slot)
           /\ slot \in SlotsInGap(placed, seen, o, m, earliest, p, None)
    BY <2>0
  <2>4. Timeline(placed) /\ Separated(placed)
    BY <1>3, TypesMakeATimeline DEF IInv, TimelinesSeparated
  <2>5. earliest \in Int
    BY <1>2, <1>3, EarliestStartBounds DEF IInv
  <2> HIDE DEF earliest
  <2>6. /\ Timeline(placed') /\ Separated(placed')
        /\ \A x \in DOMAIN placed : ActualSetup(placed', x) = ActualSetup(placed, x)
        /\ ActualSetup(placed', o) = SetupAfter(m, p, o)
    BY <1>1, <1>2, <2>3, <2>4, <2>5, AppendKeepsSetups
  <2>7. \A x \in DOMAIN placed : Window(placed', x) = Window(placed, x)
    BY <1>4, <2>6 DEF Window
  <2>8. Window(placed', o) = [from |-> slot.start - SetupAfter(m, p, o), to |-> slot.end]
    BY <1>4, <2>6 DEF Window
  <2>9. CacheIsTrue(placed, SearchedCache)
    BY <2>2, SearchedIsTrue
  <2>10. CacheIsTrue(placed', cache')
    BY <1>1, <1>2, <1>4, <2>7, <2>9, AddKeepsCacheTrue
  <2>11. RequiredBy(o) # {} =>
           ResourcesFit(FreshWindows(placed, RequiredBy(o)), o, Window(placed', o).from, Window(placed', o).to)
    <3>1. RequiredBy(o) # {} => seen = FreshWindows(placed, RequiredBy(o))
      BY <1>2, <1>3, <2>9, SearchedHasKeys DEF WindowsSeenBy, CacheIsTrue
    <3>2. ResourcesFit(seen, o, slot.start - SetupAfter(m, p, o), slot.end)
      BY <2>3, SlotWasChecked
    <3> QED BY <2>8, <3>1, <3>2
  <2>12. PoolsRespected(placed')
    BY <1>2, <1>4, <2>2, <2>4, <2>6, <2>7, <2>11, AddKeepsPools
  <2>13. RequiredBy(o) = {} => WithinShift(placed', o)
    <3>1. RequiredBy(o) = {} => DOMAIN seen = {}
      BY <1>2, <1>3, SearchedHasKeys DEF WindowsSeenBy
    <3>2. /\ RequiredBy(o) = {} => slot.start \in GapStarts(placed, o, m, earliest, p)
          /\ slot.wc = m /\ slot.end = slot.start + Duration[o][m]
      BY <2>3, <3>1, SlotWasChecked
    <3>3. RequiredBy(o) = {} =>
            \/ Calendar[m] = {}
            \/ \E shift \in Calendar[m] :
                 shift.open <= slot.start - SetupAfter(m, p, o) /\ slot.start + Duration[o][m] <= shift.close
      BY <1>2, <2>3, <2>4, <2>5, <3>2, GapStartsKeepShifts
    <3> QED BY <1>4, <2>8, <3>2, <3>3 DEF WithinShift
  <2>14. \A x \in DOMAIN placed : WithinShift(placed, x) => WithinShift(placed', x)
    BY <1>4, <2>7 DEF WithinShift
  <2> QED BY <1>4, <2>2, <2>10, <2>12, <2>13, <2>14 DEF CachedWindowsAreTrue, CacheIsTrue
<1> QED BY <1>5, <1>6 DEF AppendInv, AppendKeepsPoolsAndShifts

(* Nothing in a step that places no operation changes what is held.        *)
LEMMA SameWindowsKeepAppend ==
  ASSUME AppendInv, IInv', DOMAIN placed' = DOMAIN placed, large' = large,
         cache' = cache \/ cache' = SearchedCache,
         \A x \in DOMAIN placed :
           placed'[x].wc = placed[x].wc /\ Window(placed', x) = Window(placed, x)
  PROVE  AppendInv'
<1>1. IInv /\ {} \notin DOMAIN cache /\ AppendKeepsPoolsAndShifts
  BY DEF AppendInv
<1>2. {} \notin DOMAIN cache'
  BY <1>1 DEF SearchedCache, CachedFor
<1>3. AppendOnly' <=> AppendOnly
  BY DEF AppendOnly
<1>4. ASSUME NEW k PROVE FreshWindows(placed', k) = FreshWindows(placed, k)
  <2> DEFINE users == {p \in DOMAIN placed : RequiredBy(p) \cap k # {}}
  <2>1. /\ FreshWindows(placed, k) = [x \in users |-> Window(placed, x)]
        /\ FreshWindows(placed', k) = [x \in users |-> Window(placed', x)]
    BY DEF FreshWindows
  <2>2. \A x \in users : Window(placed', x) = Window(placed, x)
    OBVIOUS
  <2> HIDE DEF users
  <2> QED BY <2>1, <2>2
<1>5. CachedWindowsAreTrue => CachedWindowsAreTrue'
  <2>1. CachedWindowsAreTrue => CacheIsTrue(placed, cache) /\ CacheIsTrue(placed, SearchedCache)
    BY SearchedIsTrue DEF CachedWindowsAreTrue, CacheIsTrue
  <2>2. CachedWindowsAreTrue => CacheIsTrue(placed, cache')
    BY <2>1
  <2> QED BY <1>4, <2>2 DEF CachedWindowsAreTrue, CacheIsTrue
<1>6. PoolsRespected(placed) => PoolsRespected(placed')
  <2>1. \A r : FreshWindows(placed', {r}) = FreshWindows(placed, {r})
    BY <1>4
  <2> QED BY <2>1, SameOccupancyKeepsPools
<1>7. \A x \in DOMAIN placed : WithinShift(placed, x) => WithinShift(placed', x)
  BY DEF WithinShift
<1> QED BY <1>1, <1>2, <1>3, <1>5, <1>6, <1>7 DEF AppendInv, AppendKeepsPoolsAndShifts

LEMMA FinishKeepsAppend ==
  ASSUME AppendInv, Finish, IInv'
  PROVE  AppendInv'
<1>1. placed' = RecomputeSetups(placed) /\ cache' = cache /\ large' = large
  BY DEF Finish
<1>2. /\ Timeline(placed) /\ Separated(placed)
      /\ \A o \in DOMAIN placed : placed[o] \in Assignment
  BY TypesMakeATimeline DEF AppendInv, IInv, TypeOK, TimelinesSeparated
<1>3. /\ DOMAIN placed' = DOMAIN placed
      /\ \A o \in DOMAIN placed : /\ placed'[o].wc = placed[o].wc
                                  /\ placed'[o].start = placed[o].start
                                  /\ placed'[o].end = placed[o].end
  BY <1>1, <1>2, RecomputeKeepsTimes
<1>4. ASSUME NEW x \in DOMAIN placed PROVE Window(placed', x) = Window(placed, x)
  <2>1. ActualSetup(placed', x) = ActualSetup(placed, x)
    BY <1>2, <1>3, SameTimesKeepSetups
  <2> QED BY <1>3, <2>1 DEF Window
<1> QED BY <1>1, <1>3, <1>4, SameWindowsKeepAppend

LEMMA NextKeepsAppend == ASSUME AppendInv, [Next]_vars PROVE AppendInv'
<1>1. IInv'
  BY NextKeeps DEF AppendInv
<1>2. ASSUME placed' = placed, large' = large, cache' = cache \/ cache' = SearchedCache PROVE AppendInv'
  BY <1>1, <1>2, SameWindowsKeepAppend
<1>3. CASE UNCHANGED vars
  BY <1>2, <1>3 DEF vars
<1>4. CASE Stuck
  BY <1>2, <1>4 DEF Stuck
<1>5. CASE TimeLimit
  BY <1>2, <1>5 DEF TimeLimit
<1> QED BY <1>1, <1>3, <1>4, <1>5, DispatchKeepsAppend, FinishKeepsAppend DEF Next

LEMMA InitKeepsAppend == ASSUME Init PROVE AppendInv
<1>1. DOMAIN placed = {} /\ DOMAIN cache = {}
  BY DEF Init
<1>2. PoolsRespected(placed)
  BY <1>1 DEF PoolsRespected, FreshWindows
<1>3. AppendKeepsPoolsAndShifts
  BY <1>1, <1>2 DEF AppendKeepsPoolsAndShifts, CachedWindowsAreTrue
<1> QED BY <1>1, <1>3, InitKeeps DEF AppendInv

(* As long as nothing fills a gap, the cached occupancy is the true one,   *)
(* no pool is asked for more than it holds, setups included, and work that *)
(* holds no resource lies in one shift with its setup: in any order and    *)
(* for any problem.                                                        *)
THEOREM AppendsAreTrue == Spec => []AppendKeepsPoolsAndShifts
<1>1. AppendInv => AppendKeepsPoolsAndShifts
  BY DEF AppendInv
<1> QED BY <1>1, InitKeepsAppend, NextKeepsAppend, PTL DEF Spec

-----------------------------------------------------------------------------
(* The list schedule.  First the delay of a start from release to release, *)
(* which is a recursive function on the minutes.                           *)

Climbs(last, value, next, f) ==
  f = [t \in Nat |-> IF t \in last THEN value[t] ELSE f[next[t]]]

(* From every minute the climb goes up until it stops.                     *)
Upwards(last, next, top) ==
  /\ \A t \in Nat : next[t] \in Nat
  /\ \A t \in Nat \ last : t < next[t]
  /\ \A t \in Nat : top <= t => t \in last

LEMMA ClimbExists ==
  ASSUME NEW last, NEW value, NEW next, NEW top \in Nat, Upwards(last, next, top)
  PROVE  \E f : Climbs(last, value, next, f)
<1> DEFINE Correct(f, n) ==
             /\ f = [t \in Nat |-> f[t]]
             /\ \A t \in Nat : top <= t + n => f[t] = IF t \in last THEN value[t] ELSE f[next[t]]
           Bad == {n \in Nat : ~ \E f : Correct(f, n)}
<1>1. ASSUME NEW n \in Nat, NEW f, Correct(f, n) PROVE \E g : Correct(g, n + 1)
  <2> DEFINE g == [t \in Nat |-> IF t \in last THEN value[t] ELSE f[next[t]]]
  <2>1. g = [t \in Nat |-> g[t]]
    OBVIOUS
  <2>2. ASSUME NEW t \in Nat, top <= t + (n + 1)
        PROVE  g[t] = IF t \in last THEN value[t] ELSE g[next[t]]
    <3>1. CASE t \in last
      BY <3>1
    <3>2. CASE t \notin last
      <4>1. next[t] \in Nat /\ t < next[t]
        BY <3>2 DEF Upwards
      <4>2. top <= next[t] + n
        BY <2>2, <4>1
      <4>3. f[next[t]] = IF next[t] \in last THEN value[next[t]] ELSE f[next[next[t]]]
        BY <1>1, <4>1, <4>2
      <4>4. g[next[t]] = f[next[t]]
        BY <4>1, <4>3
      <4> QED BY <3>2, <4>4
    <3> QED BY <3>1, <3>2
  <2> HIDE DEF g
  <2>3. Correct(g, n + 1)
    BY <2>1, <2>2
  <2> HIDE DEF Correct
  <2> QED BY <2>3
<1>2. \E f : Correct(f, 0)
  <2> DEFINE f == [t \in Nat |-> value[t]]
  <2>1. f = [t \in Nat |-> f[t]]
    OBVIOUS
  <2>2. \A t \in Nat : top <= t + 0 => f[t] = IF t \in last THEN value[t] ELSE f[next[t]]
    BY DEF Upwards
  <2> HIDE DEF f
  <2> QED BY <2>1, <2>2
<1> HIDE DEF Correct
<1>3. Bad = {}
  <2>1. SUFFICES ASSUME Bad # {} PROVE FALSE
    OBVIOUS
  <2>2. Bad \in SUBSET Nat
    OBVIOUS
  <2> HIDE DEF Bad
  <2>3. PICK n \in Bad : \A k \in Bad : n <= k
    BY <2>1, <2>2, LeastNatural
  <2>4. n \in Nat /\ ~ \E f : Correct(f, n)
    BY <2>2, <2>3 DEF Bad
  <2>5. n # 0
    BY <1>2, <2>4
  <2>6. n - 1 \in Nat /\ n - 1 \notin Bad
    BY <2>3, <2>4, <2>5
  <2>7. PICK f : Correct(f, n - 1)
    BY <2>6 DEF Bad
  <2>8. \E g : Correct(g, (n - 1) + 1)
    BY <1>1, <2>6, <2>7
  <2>9. (n - 1) + 1 = n
    BY <2>4
  <2> QED BY <2>4, <2>8, <2>9
<1>4. PICK f : Correct(f, top)
  BY <1>3
<1>5. /\ f = [t \in Nat |-> f[t]]
      /\ \A t \in Nat : f[t] = IF t \in last THEN value[t] ELSE f[next[t]]
  BY <1>4 DEF Correct
<1>6. f = [t \in Nat |-> IF t \in last THEN value[t] ELSE f[next[t]]]
  BY <1>5
<1> QED BY <1>6 DEF Climbs

(* What it returns is the value where it stops.                            *)
LEMMA ClimbStops ==
  ASSUME NEW last, NEW value, NEW next, NEW top \in Nat, Upwards(last, next, top),
         NEW f, Climbs(last, value, next, f), NEW start \in Nat
  PROVE  /\ \E t \in last : t \in Nat /\ start <= t /\ f[start] = value[t]
         /\ start \in last => f[start] = value[start]
<1> DEFINE Stops(t) == \E u \in last : u \in Nat /\ t <= u /\ f[t] = value[u]
           Bad == {n \in Nat : \E t \in Nat : top <= t + n /\ ~ Stops(t)}
<1>1. \A t \in Nat : f[t] = IF t \in last THEN value[t] ELSE f[next[t]]
  BY DEF Climbs
<1>2. Bad = {}
  <2>1. SUFFICES ASSUME Bad # {} PROVE FALSE
    OBVIOUS
  <2>2. Bad \in SUBSET Nat
    OBVIOUS
  <2> HIDE DEF Bad
  <2>3. PICK n \in Bad : \A k \in Bad : n <= k
    BY <2>1, <2>2, LeastNatural
  <2>4. n \in Nat
    BY <2>2, <2>3
  <2>5. PICK t \in Nat : top <= t + n /\ ~ Stops(t)
    BY <2>3 DEF Bad
  <2>6. t \notin last
    BY <1>1, <2>5
  <2>7. next[t] \in Nat /\ t < next[t] /\ t < top
    BY <2>6 DEF Upwards
  <2>8. n # 0 /\ n - 1 \in Nat
    BY <2>4, <2>5, <2>7
  <2>9. n - 1 \notin Bad
    BY <2>3, <2>4, <2>8
  <2>10. top <= next[t] + (n - 1)
    BY <2>4, <2>5, <2>7
  <2>11. Stops(next[t])
    BY <2>7, <2>8, <2>9, <2>10 DEF Bad
  <2>12. PICK u \in last : u \in Nat /\ next[t] <= u /\ f[next[t]] = value[u]
    BY <2>11
  <2>13. f[t] = value[u] /\ t <= u
    BY <1>1, <2>6, <2>7, <2>12
  <2> QED BY <2>5, <2>12, <2>13
<1>3. Stops(start)
  <2>1. top <= start + top
    OBVIOUS
  <2> HIDE DEF Stops
  <2> QED BY <1>2, <2>1
<1> QED BY <1>1, <1>3

-----------------------------------------------------------------------------
(* _delay_start_for_aux. *)

BlockedPools(held, o, setup, length, t) ==
  {r \in RequiredBy(o) :
     ~ \A u \in t - setup .. t + length - 1 : Held(held, r, u) + Needs[o][r] <= PoolSize[r]}

Releases(held, setup, length, r, t) ==
  {held[x].to : x \in {y \in DOMAIN held : /\ Needs[y][r] > 0
                                           /\ held[y].from <= t + length
                                           /\ t - setup <= held[y].to}}

NextStart(held, o, setup, length, t) ==
  Max({t} \cup {Min(Releases(held, setup, length, r, t)) :
                  r \in {q \in BlockedPools(held, o, setup, length, t) :
                           Releases(held, setup, length, q, t) # {}}})

Delays(held, o, setup, length, cap, f) ==
  f = [t \in Nat |-> IF t + length > cap THEN None
                     ELSE IF BlockedPools(held, o, setup, length, t) = {} THEN t
                     ELSE IF NextStart(held, o, setup, length, t) = t THEN None
                     ELSE f[NextStart(held, o, setup, length, t)]]

LEMMA DelayEquation ==
  ASSUME NEW held, NEW o, NEW start, NEW setup, NEW length, NEW cap
  PROVE  DelayForAux(held, o, start, setup, length, cap)
           = (CHOOSE f : Delays(held, o, setup, length, cap, f))[start]
BY DEF DelayForAux, Delays, NextStart, Releases, BlockedPools

HeldTimes(held) ==
  DOMAIN held \subseteq Ops /\ \A x \in DOMAIN held : held[x].to \in Int

(* The largest and the smallest of finitely many minutes.                  *)
LEMMA ExtremesOf ==
  ASSUME NEW S \in SUBSET Int, S # {}, IsFiniteSet(S)
  PROVE  /\ Max(S) \in S /\ \A y \in S : y <= Max(S)
         /\ Min(S) \in S
<1> DEFINE f == [x \in S |-> x]
<1>1. f \in [S -> Int]
  OBVIOUS
<1>2. PICK x \in S : \A y \in S : f[y] <= f[x]
  BY <1>1, LargestElement
<1>3. PICK z \in S : \A y \in S : f[z] <= f[y]
  BY <1>1, SmallestElement
<1>4. x \in Int /\ \A y \in S : x >= y
  BY <1>2
<1>5. \A y \in S : z <= y
  BY <1>3
<1>6. Max(S) \in S /\ \A y \in S : Max(S) >= y
  BY <1>4 DEF Max
<1>7. Min(S) \in S
  BY <1>5 DEF Min
<1> QED BY <1>6, <1>7

LEMMA NextStartIsLater ==
  ASSUME NEW held, HeldTimes(held), NEW o, NEW setup, NEW length, NEW t \in Nat
  PROVE  NextStart(held, o, setup, length, t) \in Nat /\ t <= NextStart(held, o, setup, length, t)
<1> DEFINE able == {q \in BlockedPools(held, o, setup, length, t) : Releases(held, setup, length, q, t) # {}}
           ends == {held[x].to : x \in DOMAIN held}
           found == {Min(Releases(held, setup, length, r, t)) : r \in able}
           all == {t} \cup found
<1>1. IsFiniteSet(ends) /\ ends \subseteq Int
  <2>1. IsFiniteSet(DOMAIN held)
    BY FS_Subset, DispatchTimelineAssumption DEF DispatchTimelineAssumption, HeldTimes
  <2> DEFINE end == [x \in DOMAIN held |-> held[x].to]
  <2>2. IsFiniteSet({end[x] : x \in DOMAIN held})
    <3> HIDE DEF end
    <3> QED BY <2>1, ImageIsFinite
  <2>3. ends = {end[x] : x \in DOMAIN held}
    OBVIOUS
  <2> QED BY <2>2, <2>3 DEF HeldTimes
<1>2. ASSUME NEW r \in able PROVE Min(Releases(held, setup, length, r, t)) \in ends
  <2>1. Releases(held, setup, length, r, t) # {} /\ Releases(held, setup, length, r, t) \subseteq ends
    BY DEF Releases
  <2> HIDE DEF ends
  <2>2. IsFiniteSet(Releases(held, setup, length, r, t))
    BY <1>1, <2>1, FS_Subset
  <2> QED BY <1>1, <2>1, <2>2, ExtremesOf
<1> HIDE DEF able, ends
<1>3. found \subseteq ends
  BY <1>2
<1> HIDE DEF found
<1>4. IsFiniteSet(found)
  BY <1>1, <1>3, FS_Subset
<1>5. IsFiniteSet(all)
  BY <1>4, FS_AddElement
<1>6. all \in SUBSET Int /\ t \in all
  BY <1>1, <1>3
<1>7. NextStart(held, o, setup, length, t) = Max(all)
  BY DEF NextStart, all, found, able
<1> HIDE DEF all
<1>8. t <= Max(all) /\ Max(all) \in Int
  BY <1>5, <1>6, ExtremesOf
<1> QED BY <1>7, <1>8

Delayed(held, o, start, setup, length, cap, t) ==
  /\ t \in Nat /\ start <= t /\ t + length <= cap
  /\ BlockedPools(held, o, setup, length, t) = {}
  /\ RequiredBy(o) = {} => t = start

(* A delayed start is not before the first one, leaves the operation done  *)
(* by the cap, and finds room in every pool it needs; what needs no pool   *)
(* is not delayed.                                                         *)
LEMMA DelayFacts ==
  ASSUME NEW held, HeldTimes(held), NEW o, NEW start \in Nat, NEW setup \in Nat, NEW length \in Nat,
         NEW cap \in Int, NEW t, t = DelayForAux(held, o, start, setup, length, cap), t # None
  PROVE  Delayed(held, o, start, setup, length, cap, t)
<1> DEFINE blocked(u) == BlockedPools(held, o, setup, length, u)
           next == [u \in Nat |-> NextStart(held, o, setup, length, u)]
           last == {u \in Nat : u + length > cap \/ blocked(u) = {} \/ next[u] = u}
           value == [u \in Nat |-> IF u + length <= cap /\ blocked(u) = {} THEN u ELSE None]
           top == IF cap >= 0 THEN cap + 1 ELSE 0
<1>1. top \in Nat /\ cap < top
  OBVIOUS
<1>2. \A u \in Nat : next[u] \in Nat /\ u <= next[u]
  BY NextStartIsLater
<1>3. Upwards(last, next, top)
  <2>1. \A u \in Nat \ last : u < next[u]
    <3>1. \A u \in Nat \ last : next[u] # u
      OBVIOUS
    <3> HIDE DEF next, last
    <3> QED BY <1>2, <3>1
  <2>2. \A u \in Nat : top <= u => u \in last
    BY <1>1
  <2> HIDE DEF next, last, top
  <2> QED BY <1>2, <2>1, <2>2 DEF Upwards
<1>4. ASSUME NEW f PROVE Delays(held, o, setup, length, cap, f) <=> Climbs(last, value, next, f)
  <2> DEFINE D(u) == IF u + length > cap THEN None
                     ELSE IF blocked(u) = {} THEN u
                     ELSE IF next[u] = u THEN None
                     ELSE f[next[u]]
             C(u) == IF u \in last THEN value[u] ELSE f[next[u]]
  <2>1. ASSUME NEW u \in Nat PROVE D(u) = C(u)
    <3>1. u \in last <=> (u + length > cap \/ blocked(u) = {} \/ next[u] = u)
      OBVIOUS
    <3>2. value[u] = IF u + length <= cap /\ blocked(u) = {} THEN u ELSE None
      OBVIOUS
    <3> HIDE DEF last, value, next, blocked
    <3>3. u + length > cap <=> ~ (u + length <= cap)
      OBVIOUS
    <3> QED BY <3>1, <3>2, <3>3
  <2>2. [u \in Nat |-> D(u)] = [u \in Nat |-> C(u)]
    BY <2>1
  <2>3. Climbs(last, value, next, f) <=> f = [u \in Nat |-> C(u)]
    BY DEF Climbs
  <2>4. Delays(held, o, setup, length, cap, f) <=> f = [u \in Nat |-> D(u)]
    <3>1. \A u \in Nat : next[u] = NextStart(held, o, setup, length, u)
      OBVIOUS
    <3> HIDE DEF next
    <3> QED BY <3>1 DEF Delays
  <2> HIDE DEF C, D, last, value, next
  <2> QED BY <2>2, <2>3, <2>4
<1> HIDE DEF next, last, value, top, blocked
<1>5. \E f : Climbs(last, value, next, f)
  BY <1>1, <1>3, ClimbExists
<1> DEFINE g == CHOOSE f : Delays(held, o, setup, length, cap, f)
<1>6. Delays(held, o, setup, length, cap, g)
  BY <1>4, <1>5
<1>7. t = g[start]
  BY DelayEquation
<1>8. Climbs(last, value, next, g)
  BY <1>4, <1>6
<1> HIDE DEF g
<1>9. /\ \E u \in last : u \in Nat /\ start <= u /\ g[start] = value[u]
      /\ start \in last => g[start] = value[start]
  BY <1>1, <1>3, <1>8, ClimbStops
<1>10. PICK u \in last : u \in Nat /\ start <= u /\ t = value[u]
  BY <1>7, <1>9
<1>11. t = u /\ u + length <= cap /\ blocked(u) = {}
  BY <1>10 DEF value
<1>12. ASSUME RequiredBy(o) = {} PROVE t = start
  <2>1. blocked(start) = {}
    BY <1>12 DEF blocked, BlockedPools
  <2>2. start \in last
    BY <2>1 DEF last
  <2>3. t = value[start]
    BY <1>7, <1>9, <2>2
  <2> QED BY <2>3 DEF value
<1> QED BY <1>10, <1>11, <1>12 DEF blocked, Delayed

-----------------------------------------------------------------------------
(* Places at the tail of a machine and in its gaps. *)

LEMMA LastOnIsLast ==
  ASSUME NEW at, Timeline(at), NEW m
  PROVE  /\ IsLast(at, On(at, m), LastOn(at, m))
         /\ Neighbour(at, m, LastOn(at, m))
<1>1. \E p \in On(at, m) \cup {None} : IsLast(at, On(at, m), p)
  <2>1. CASE On(at, m) = {}
    BY <2>1 DEF IsLast
  <2>2. CASE On(at, m) # {}
    <3>1. PICK x \in On(at, m) : \A y \in On(at, m) : at[y].start <= at[x].start
      BY <2>2, LastOf
    <3> QED BY <3>1 DEF IsLast
  <2> QED BY <2>1, <2>2
<1> QED BY <1>1 DEF LastOn, Neighbour

LEMMA CoverFloorFacts ==
  ASSUME NEW at, Timeline(at), NEW o \in Ops
  PROVE  /\ CoverFloor(at, o) \in Nat
         /\ PredecessorOf[o] \in DOMAIN at => at[PredecessorOf[o]].end <= CoverFloor(at, o)
         /\ HardWindow[o] /\ OpenFrom[o] # None => OpenFrom[o] <= CoverFloor(at, o)
         /\ ~ HardWindow[o] => Earliest[o] <= CoverFloor(at, o)
<1> DEFINE predEnd == IF PredecessorOf[o] \in DOMAIN at THEN at[PredecessorOf[o]].end ELSE 0
           opens == IF OpenFrom[o] = None THEN 0 ELSE OpenFrom[o]
           low == IF HardWindow[o] THEN opens ELSE Earliest[o]
<1>1. predEnd \in Int
  <2>1. ASSUME NEW p \in DOMAIN at PROVE at[p].end \in Int
    BY ProblemFacts DEF Timeline
  <2> QED BY <2>1
<1>2. opens \in Nat /\ Earliest[o] \in Nat
  BY ListCoverAssumption DEF ListCoverAssumption
<1>3. low \in Nat
  BY <1>2
<1>4. CoverFloor(at, o) = Larger(predEnd, low)
  BY DEF CoverFloor
<1> HIDE DEF predEnd, low
<1>5. CoverFloor(at, o) \in Nat /\ predEnd <= CoverFloor(at, o) /\ low <= CoverFloor(at, o)
  BY <1>1, <1>3, <1>4 DEF Larger
<1> QED BY <1>5 DEF predEnd, low

LEMMA DeadlineFacts ==
  ASSUME NEW o \in Ops
  PROVE  /\ Deadline(o) \in Int
         /\ \A e \in Int : e <= Deadline(o) <=> (e <= Horizon /\ (LatestFinish[o] # None => e <= LatestFinish[o]))
<1>1. Horizon \in Nat /\ LatestFinish[o] \in Int \cup {None}
  BY ListCoverAssumption, ProblemFacts DEF ListCoverAssumption
<1>2. CASE LatestFinish[o] = None
  BY <1>1, <1>2 DEF Deadline
<1>3. CASE LatestFinish[o] # None
  <2>1. LatestFinish[o] \in Int /\ Deadline(o) = -Larger(-Horizon, -LatestFinish[o])
    BY <1>1, <1>3 DEF Deadline
  <2>2. Deadline(o) = IF Horizon <= LatestFinish[o] THEN Horizon ELSE LatestFinish[o]
    BY <1>1, <2>1 DEF Larger
  <2> QED BY <1>1, <1>3, <2>1, <2>2
<1> QED BY <1>2, <1>3

LEMMA HoldingsAreTimes ==
  ASSUME NEW at, Typed(at)
  PROVE  HeldTimes(Holdings(at))
BY TypedFacts DEF HeldTimes, Holdings

(* A start in a shift leaves the changeover and the operation in it.       *)
LEMMA OpenStartsKeepShifts ==
  ASSUME NEW m \in Machines, NEW start \in Int, NEW length \in Nat,
         NEW t \in First(OpenStarts(m, start, length))
  PROVE  \/ Calendar[m] = {}
         \/ \E shift \in Calendar[m] : shift.open <= t /\ t + length <= shift.close
<1>1. t \in OpenStarts(m, start, length)
  BY DEF First
<1>2. ASSUME Calendar[m] # {}
      PROVE  \E shift \in Calendar[m] : shift.open <= t /\ t + length <= shift.close
  <2>1. PICK shift \in Calendar[m] : t = Larger(start, shift.open) /\ Larger(start, shift.open) + length <= shift.close
    BY <1>1, <1>2 DEF OpenStarts
  <2>2. shift.open \in Int
    BY DispatchTimelineAssumption DEF DispatchTimelineAssumption
  <2> QED BY <2>1, <2>2 DEF Larger
<1> QED BY <1>2

InShift(m, o, slot) ==
  \/ Calendar[m] = {}
  \/ \E shift \in Calendar[m] : shift.open <= slot.start - slot.setup /\ slot.end <= shift.close

(* _best_list_schedule_slot: behind the last operation and its changeover, *)
(* done by the deadline, with room in the pools, and in a shift unless it  *)
(* was delayed for a pool.                                                 *)
LEMMA TailSlotFits ==
  ASSUME NEW at, Typed(at), NEW o \in Ops, NEW m \in Machines, NEW floor \in Nat,
         NEW slot \in TailSlots(at, o, m, floor)
  PROVE  /\ SlotFits(at, o, m, floor, LastOn(at, m), None, slot)
         /\ slot.end <= Deadline(o)
         /\ slot.setup = SetupAfter(m, LastOn(at, m), o)
         /\ BlockedPools(Holdings(at), o, slot.setup, Duration[o][m], slot.start) = {}
         /\ RequiredBy(o) = {} => InShift(m, o, slot)
<1> DEFINE p == LastOn(at, m)
           setup == SetupAfter(m, p, o)
           start == Larger(floor, EndOf(at, p) + setup)
           length == Duration[o][m]
<1>1. PICK u \in First(OpenStarts(m, start - setup, length + setup)) :
        \E t : /\ t = DelayForAux(Holdings(at), o, u + setup, setup, length, Deadline(o))
               /\ t # None /\ slot = Slot(m, t, length, setup)
  BY DEF TailSlots
<1>2. PICK t : /\ t = DelayForAux(Holdings(at), o, u + setup, setup, length, Deadline(o))
               /\ t # None /\ slot = Slot(m, t, length, setup)
  BY <1>1
<1>3. Timeline(at) /\ (p = None \/ p \in DOMAIN at)
  BY LastOnIsLast DEF Typed, Neighbour, On
<1>4. setup \in Nat /\ length \in Nat
  <2>1. p \in Ops \cup {None}
    BY <1>3 DEF Timeline
  <2> QED BY <2>1, SetupAfterIsNat, ProblemFacts
<1>5. EndOf(at, p) \in Int
  BY <1>3, TypedFacts DEF EndOf
<1> HIDE DEF p, setup, length
<1>6. start \in Int /\ floor <= start /\ EndOf(at, p) + setup <= start
  BY <1>4, <1>5 DEF Larger
<1> HIDE DEF start
<1>7. u \in Int /\ start - setup <= u
  <2>1. start - setup \in Int
    BY <1>4, <1>6
  <2> QED BY <1>1, <2>1, OpenStartsFacts
<1>8. u + setup \in Nat /\ start <= u + setup
  BY <1>4, <1>6, <1>7
<1>9. Deadline(o) \in Int
  BY DeadlineFacts
<1>10. /\ t \in Nat /\ u + setup <= t /\ t + length <= Deadline(o)
       /\ BlockedPools(Holdings(at), o, setup, length, t) = {}
       /\ RequiredBy(o) = {} => t = u + setup
  <2> DEFINE held == Holdings(at)
             first == u + setup
             cap == Deadline(o)
  <2>1. HeldTimes(held) /\ first \in Nat /\ cap \in Int /\ t = DelayForAux(held, o, first, setup, length, cap)
    BY <1>2, <1>8, <1>9, HoldingsAreTimes
  <2> HIDE DEF held, first, cap
  <2>2. t # None
    BY <1>2
  <2>3. Delayed(held, o, first, setup, length, cap, t)
    BY <1>4, <2>1, <2>2, DelayFacts
  <2> QED BY <2>3 DEF Delayed, held, first, cap
<1>11. slot.wc = m /\ slot.start = t /\ slot.end = t + length /\ slot.setup = setup /\ slot \in Assignment
  BY <1>2, <1>4, <1>10 DEF Slot, Assignment
<1>12. p # None => at[p].end + SetupBetween(m, p, o) <= slot.start
  <2>1. p # None => EndOf(at, p) = at[p].end /\ setup = SetupBetween(m, p, o)
    BY DEF EndOf, SetupAfter, setup
  <2>2. EndOf(at, p) + setup <= t
    BY <1>4, <1>5, <1>6, <1>8, <1>10
  <2> QED BY <1>11, <2>1, <2>2
<1>13. LatestFinish[o] # None => slot.end <= LatestFinish[o]
  <2>1. slot.end \in Int /\ slot.end <= Deadline(o)
    BY <1>4, <1>10, <1>11
  <2> QED BY <2>1, DeadlineFacts
<1>14. floor <= slot.start
  BY <1>6, <1>8, <1>10, <1>11
<1>15. SlotFits(at, o, m, floor, p, None, slot)
  BY <1>4, <1>10, <1>11, <1>12, <1>13, <1>14 DEF SlotFits, length
<1>16. ASSUME RequiredBy(o) = {} PROVE InShift(m, o, slot)
  <2>1. length + setup \in Nat /\ start - setup \in Int
    BY <1>4, <1>6
  <2>2. \/ Calendar[m] = {}
        \/ \E shift \in Calendar[m] : shift.open <= u /\ u + (length + setup) <= shift.close
    BY <1>1, <2>1, OpenStartsKeepShifts
  <2>3. u = slot.start - slot.setup /\ u + (length + setup) = slot.end
    BY <1>4, <1>7, <1>10, <1>11, <1>16
  <2> QED BY <2>2, <2>3 DEF InShift
<1> QED BY <1>10, <1>11, <1>15, <1>16 DEF p, setup, length

(* _unconstrained_earliest_gap: a slot of the kernel, done by the horizon. *)
LEMMA GapSlotFits ==
  ASSUME NEW at, Typed(at), NEW o \in Ops, NEW m \in Machines, NEW floor \in Int,
         NEW seen, EndsAreTimes(seen), NEW slot \in GapSlots(at, seen, o, m, floor)
  PROVE  \E p, f : /\ Neighbour(at, m, p) /\ Neighbour(at, m, f) /\ Splits(at, m, p, f)
                   /\ SlotFits(at, o, m, floor, p, f, slot)
                   /\ slot.end <= Deadline(o)
<1> DEFINE scan == GapScanFor(Cardinality(DOMAIN at) >= AppendScanMin, o)
<1>1. slot \in EarliestSlots(at, seen, scan, o, m, floor) /\ slot.end <= Horizon
  BY DEF GapSlots
<1>2. scan \in {"all", "append", "window"}
  BY ScanIsKnown
<1> HIDE DEF scan
<1>3. PICK g \in GapsScanned(at, scan, o, m, floor) : slot \in SlotsInGap(at, seen, o, m, floor, g[1], g[2])
  BY <1>1 DEF EarliestSlots
<1>4. Timeline(at)
  BY DEF Typed
<1>5. Neighbour(at, m, g[1]) /\ Neighbour(at, m, g[2])
  BY <1>2, <1>3, ScannedGapIsBounded
<1>6. SlotFits(at, o, m, floor, g[1], g[2], slot)
  BY <1>3, <1>4, <1>5, SlotInGapFits
<1>7. Splits(at, m, g[1], g[2])
  BY <1>2, <1>3, <1>4, <1>6, ScannedGapSplits
<1>8. slot.end \in Int /\ (LatestFinish[o] # None => slot.end <= LatestFinish[o])
  BY <1>6 DEF SlotFits, Assignment
<1>9. slot.end <= Deadline(o)
  BY <1>1, <1>8, DeadlineFacts
<1> QED BY <1>5, <1>6, <1>7, <1>9

(* What the search for a place guarantees, tail or gap. *)
PlaceFits(at, o, slot) ==
  /\ slot.wc \in EligibleFor[o] /\ slot.wc \in Machines /\ slot.end <= Deadline(o)
  /\ \E p, f : /\ Neighbour(at, slot.wc, p) /\ Neighbour(at, slot.wc, f) /\ Splits(at, slot.wc, p, f)
               /\ SlotFits(at, o, slot.wc, CoverFloor(at, o), p, f, slot)

IsPlace(at, o, q) ==
  /\ PlaceFits(at, o, q.slot)
  /\ ~ q.inGap => q.slot \in TailSlots(at, o, q.slot.wc, CoverFloor(at, o))

LEMMA TailPlaceFits ==
  ASSUME NEW at, Typed(at), NEW o \in Ops, NEW m \in EligibleFor[o],
         NEW slot \in TailSlots(at, o, m, CoverFloor(at, o))
  PROVE  PlaceFits(at, o, slot) /\ slot.wc = m
<1> DEFINE floor == CoverFloor(at, o)
           p == LastOn(at, m)
<1>1. m \in Machines
  BY DispatchTimelineAssumption DEF DispatchTimelineAssumption
<1>2. Timeline(at)
  BY DEF Typed
<1>3. floor \in Nat
  BY <1>2, CoverFloorFacts
<1> HIDE DEF floor
<1>4. slot \in TailSlots(at, o, m, floor)
  BY DEF floor
<1>5. SlotFits(at, o, m, floor, p, None, slot) /\ slot.end <= Deadline(o)
  BY <1>1, <1>3, <1>4, TailSlotFits
<1>6. IsLast(at, On(at, m), p) /\ Neighbour(at, m, p)
  BY <1>2, LastOnIsLast
<1> HIDE DEF p
<1>7. Splits(at, m, p, None) /\ Neighbour(at, m, None)
  BY <1>2, <1>6, LastSplits DEF Neighbour
<1>8. slot.wc = m
  BY <1>5 DEF SlotFits
<1> QED BY <1>1, <1>5, <1>6, <1>7, <1>8 DEF PlaceFits, floor

LEMMA GapPlaceFits ==
  ASSUME NEW at, Typed(at), NEW o \in Ops, NEW m \in EligibleFor[o], NEW seen, EndsAreTimes(seen),
         NEW slot \in GapSlots(at, seen, o, m, CoverFloor(at, o))
  PROVE  PlaceFits(at, o, slot)
<1> DEFINE floor == CoverFloor(at, o)
<1>1. m \in Machines
  BY DispatchTimelineAssumption DEF DispatchTimelineAssumption
<1>2. floor \in Int
  BY CoverFloorFacts DEF Typed
<1> HIDE DEF floor
<1>3. slot \in GapSlots(at, seen, o, m, floor)
  BY DEF floor
<1>4. \E p, f : /\ Neighbour(at, m, p) /\ Neighbour(at, m, f) /\ Splits(at, m, p, f)
                /\ SlotFits(at, o, m, floor, p, f, slot)
                /\ slot.end <= Deadline(o)
  BY <1>1, <1>2, <1>3, GapSlotFits
<1>5. slot.wc = m
  BY <1>4 DEF SlotFits
<1> QED BY <1>1, <1>4, <1>5 DEF PlaceFits, floor

LEMMA TailOrGapPlaces ==
  ASSUME NEW at, Typed(at), NEW o \in Ops, NEW seen, EndsAreTimes(seen), NEW allowGap,
         NEW machines \in SUBSET EligibleFor[o],
         NEW q \in TailOrGap(at, seen, o, CoverFloor(at, o), allowGap, machines)
  PROVE  IsPlace(at, o, q)
<1> DEFINE floor == CoverFloor(at, o)
           tailSlots == UNION {TailSlots(at, o, m, floor) : m \in machines}
           gapSlots == UNION {GapSlots(at, seen, o, m, floor) : m \in {n \in machines : allowGap}}
           tails == Best([s \in tailSlots |-> SlotKey(at, o, floor, FALSE, s)])
           gaps == Best([s \in gapSlots |-> SlotKey(at, o, floor, TRUE, s)])
           earlier == {g \in gaps : \A t \in tails : HardWindow[o] /\ t.wc = g.wc /\ g.start < t.start}
<1>1. tails \subseteq tailSlots /\ gaps \subseteq gapSlots
  BY DEF Best
<1>2. PICK s \in (IF earlier = {} THEN tails ELSE earlier) : q = [slot |-> s, inGap |-> s \in earlier]
  BY DEF TailOrGap, TailOrEarlierGap
<1>3. q.slot = s /\ (q.inGap <=> s \in earlier)
  BY <1>2
<1>4. earlier \subseteq gaps
  OBVIOUS
<1>5. s \in tails \/ s \in gaps
  BY <1>2, <1>4
<1>6. ~ q.inGap => s \in tails
  BY <1>2, <1>3
<1> HIDE DEF tails, gaps, earlier
<1>7. ASSUME s \in tails PROVE PlaceFits(at, o, s) /\ s \in TailSlots(at, o, s.wc, floor)
  <2>1. PICK m \in machines : s \in TailSlots(at, o, m, floor)
    BY <1>1, <1>7
  <2>2. m \in EligibleFor[o]
    OBVIOUS
  <2> QED BY <2>1, <2>2, TailPlaceFits
<1>8. ASSUME s \in gaps PROVE PlaceFits(at, o, s)
  <2>1. PICK m \in machines : s \in GapSlots(at, seen, o, m, floor)
    BY <1>1, <1>8
  <2>2. m \in EligibleFor[o]
    OBVIOUS
  <2> QED BY <2>1, <2>2, GapPlaceFits
<1> HIDE DEF tailSlots, gapSlots
<1> QED BY <1>3, <1>5, <1>6, <1>7, <1>8 DEF IsPlace

(* _place_ready_list_operation: at home or elsewhere.                      *)
LEMMA PlacesAreFound ==
  ASSUME NEW at, Typed(at), NEW o \in Ops, NEW seen, EndsAreTimes(seen), NEW allowGap, NEW reserved,
         NEW q \in PlacesFor(at, seen, o, allowGap, reserved)
  PROVE  IsPlace(at, o, q)
<1> DEFINE home == EligibleFor[o] \cap HomesOf(o)
           away == EligibleFor[o] \ reserved
<1>1. \/ q \in TailOrGap(at, seen, o, CoverFloor(at, o), allowGap, home)
      \/ q \in TailOrGap(at, seen, o, CoverFloor(at, o), allowGap, away)
  BY DEF PlacesFor, FirstNonEmpty
<1>2. home \in SUBSET EligibleFor[o] /\ away \in SUBSET EligibleFor[o]
  OBVIOUS
<1> HIDE DEF home, away
<1> QED BY <1>1, <1>2, TailOrGapPlaces

(* What fits between two neighbours overlaps nothing.                      *)
LEMMA InsertionKeepsApart ==
  ASSUME NEW at, Typed(at), NoneOverlap(at), NEW o \in Ops \ DOMAIN at, NEW m \in Machines,
         NEW floor \in Int, NEW p, Neighbour(at, m, p), NEW f, Neighbour(at, m, f),
         Splits(at, m, p, f), NEW slot, SlotFits(at, o, m, floor, p, f, slot)
  PROVE  NoneOverlap(PlaceAt(at, o, slot))
<1> DEFINE new == PlaceAt(at, o, slot)
<1>1. /\ DOMAIN new = DOMAIN at \cup {o} /\ new[o] = slot
      /\ \A x \in DOMAIN at : new[x] = at[x]
  BY DEF PlaceAt
<1>2. /\ slot.wc = m /\ slot.start \in Int /\ slot.end \in Int /\ slot.start < slot.end
  BY ProblemFacts DEF SlotFits
<1>3. \A x \in DOMAIN at : /\ x \in Ops /\ x # o
                          /\ at[x].start \in Int /\ at[x].end \in Int /\ at[x].start < at[x].end
  BY TypedFacts
<1>4. p # None => p \in DOMAIN at /\ at[p].wc = m /\ at[p].end <= slot.start
  <2>1. ASSUME p # None PROVE p \in DOMAIN at /\ at[p].wc = m /\ SetupBetween(m, p, o) \in Nat
    BY <1>3, <2>1, ProblemFacts DEF Neighbour, On
  <2>2. p # None => at[p].end + SetupBetween(m, p, o) <= slot.start
    BY DEF SlotFits
  <2> QED BY <1>2, <1>3, <2>1, <2>2
<1>5. f # None => f \in DOMAIN at /\ at[f].wc = m /\ slot.end <= at[f].start
  <2>1. ASSUME f # None PROVE f \in DOMAIN at /\ at[f].wc = m /\ SetupBetween(m, o, f) \in Nat
    BY <1>3, <2>1, ProblemFacts DEF Neighbour, On
  <2>2. f # None => slot.end + SetupBetween(m, o, f) <= at[f].start
    BY DEF SlotFits
  <2> QED BY <1>2, <1>3, <2>1, <2>2
<1>6. ASSUME NEW x \in DOMAIN at, at[x].wc = m
      PROVE  at[x].end <= slot.start \/ slot.end <= at[x].start
  <2>1. CASE p # None /\ at[x].start <= at[p].start
    <3>1. x = p \/ at[x].end <= at[p].start
      BY <1>4, <1>6, <2>1 DEF NoneOverlap
    <3> QED BY <1>2, <1>3, <1>4, <2>1, <3>1
  <2>2. CASE f # None /\ at[f].start <= at[x].start
    BY <1>2, <1>3, <1>5, <2>2
  <2> QED BY <1>6, <2>1, <2>2 DEF Splits, On
<1> HIDE DEF new
<1>7. ASSUME NEW x \in DOMAIN new, NEW y \in DOMAIN new, x # y,
             new[x].wc = new[y].wc, new[x].start <= new[y].start
      PROVE  new[x].end <= new[y].start
  <2>1. CASE x # o /\ y # o
    BY <1>1, <1>7, <2>1 DEF NoneOverlap
  <2>2. CASE x = o
    BY <1>1, <1>2, <1>3, <1>6, <1>7, <2>2
  <2>3. CASE y = o
    BY <1>1, <1>2, <1>3, <1>6, <1>7, <2>3
  <2> QED BY <2>1, <2>2, <2>3
<1> QED BY <1>7 DEF NoneOverlap, new

(* Placed there, it leaves a timeline as separated as it was.              *)
LEMMA PlacingKeepsTimeline ==
  ASSUME NEW at, Typed(at), NEW o \in Ops \ DOMAIN at, NEW slot, PlaceFits(at, o, slot)
  PROVE  /\ Typed(PlaceAt(at, o, slot))
         /\ NoneOverlap(at) => NoneOverlap(PlaceAt(at, o, slot))
         /\ Separated(at) => Separated(PlaceAt(at, o, slot))
<1> DEFINE m == slot.wc
           floor == CoverFloor(at, o)
           new == PlaceAt(at, o, slot)
<1>1. PICK p, f : /\ Neighbour(at, m, p) /\ Neighbour(at, m, f) /\ Splits(at, m, p, f)
                  /\ SlotFits(at, o, m, floor, p, f, slot)
  BY DEF PlaceFits
<1>2. m \in Machines /\ Timeline(at)
  BY DEF PlaceFits, Typed
<1>3. floor \in Int
  BY <1>2, CoverFloorFacts
<1> HIDE DEF m, floor
<1>4. Timeline(new)
  BY <1>1, <1>2, PlaceAtIsTimeline
<1>5. Separated(at) => Separated(new)
  BY <1>1, <1>2, <1>3, InsertionKeepsSeparated
<1>6. slot \in Assignment
  BY <1>1 DEF SlotFits
<1>7. /\ DOMAIN new = DOMAIN at \cup {o} /\ new[o] = slot
      /\ \A x \in DOMAIN at : new[x] = at[x]
  BY DEF PlaceAt
<1>8. NoneOverlap(at) => NoneOverlap(new)
  BY <1>1, <1>2, <1>3, InsertionKeepsApart
<1> HIDE DEF new
<1>9. \A x \in DOMAIN new : new[x] \in Assignment
  BY <1>6, <1>7 DEF Typed
<1> QED BY <1>4, <1>5, <1>8, <1>9 DEF Typed, new

(* What holds while nothing has been put into a gap: the stamps are the    *)
(* changeovers of the present sequences, no pool is asked for too much,    *)
(* and what needs none sits in a shift.                                    *)
StampsAreTrue(at) == \A x \in DOMAIN at : at[x].setup = ActualSetup(at, x)

PoolsAndShiftsHold(at) ==
  PoolsRespected(at) /\ \A x \in DOMAIN at : RequiredBy(x) = {} => WithinShift(at, x)

LEMMA StampedHoldings ==
  ASSUME NEW at, Typed(at), StampsAreTrue(at), NEW o \in Ops \ DOMAIN at, NEW r \in Resources, NEW t
  PROVE  Held(FreshWindows(at, RequiredBy(o)), r, t) <= Held(Holdings(at), r, t)
<1> DEFINE v == Holdings(at)
           w == FreshWindows(at, RequiredBy(o))
<1>1. ASSUME NEW x \in DOMAIN w PROVE x \in DOMAIN v /\ v[x].from = w[x].from /\ v[x].to = w[x].to
  <2>1. x \in DOMAIN at /\ RequiredBy(x) # {} /\ w[x] = Window(at, x)
    BY DEF FreshWindows
  <2>2. x \in DOMAIN v /\ v[x] = [from |-> at[x].start - at[x].setup, to |-> at[x].end]
    BY <2>1 DEF Holdings
  <2>3. w[x].from = at[x].start - at[x].setup /\ w[x].to = at[x].end
    BY <2>1 DEF Window, StampsAreTrue
  <2> HIDE DEF v, w
  <2> QED BY <2>2, <2>3
<1>2. DOMAIN v \subseteq Ops /\ DOMAIN w \subseteq Ops /\ o \notin DOMAIN w
  <2>1. DOMAIN v \subseteq DOMAIN at /\ DOMAIN w \subseteq DOMAIN at
    BY DEF Holdings, FreshWindows
  <2> HIDE DEF v, w
  <2> QED BY <2>1 DEF Typed, Timeline
<1> HIDE DEF v, w
<1>3. Holders(w, t) \ {o} \subseteq Holders(v, t) /\ o \notin Holders(w, t)
  BY <1>1, <1>2 DEF Holders
<1>4. Held(w, r, t) <= Held(v, r, t)
  BY <1>2, <1>3, HeldWithOneMore
<1> QED BY <1>4 DEF v, w

LEMMA UnblockedPools ==
  ASSUME NEW held, NEW o, NEW setup, NEW length, NEW t, BlockedPools(held, o, setup, length, t) = {},
         NEW r \in RequiredBy(o), NEW u \in t - setup .. t + length - 1
  PROVE  Held(held, r, u) + Needs[o][r] <= PoolSize[r]
<1>1. r \notin BlockedPools(held, o, setup, length, t)
  OBVIOUS
<1> QED BY <1>1, Zenon DEF BlockedPools

LEMMA TailKeepsPoolsAndShifts ==
  ASSUME NEW at, Typed(at), Separated(at), StampsAreTrue(at), PoolsAndShiftsHold(at),
         NEW o \in Ops \ DOMAIN at, NEW m \in EligibleFor[o],
         NEW slot \in TailSlots(at, o, m, CoverFloor(at, o)),
         NEW new, new = PlaceAt(at, o, slot)
  PROVE  /\ StampsAreTrue(new) /\ PoolsAndShiftsHold(new)
         /\ \A x \in DOMAIN at : Window(new, x) = Window(at, x)
<1> DEFINE floor == CoverFloor(at, o)
           p == LastOn(at, m)
           setup == SetupAfter(m, p, o)
           length == Duration[o][m]
<1>1. m \in Machines /\ Timeline(at)
  BY DispatchTimelineAssumption DEF DispatchTimelineAssumption, Typed
<1>2. floor \in Nat
  BY <1>1, CoverFloorFacts
<1>3. slot \in TailSlots(at, o, m, floor)
  OBVIOUS
<1>4. Neighbour(at, m, p) /\ IsLast(at, On(at, m), p)
  BY <1>1, LastOnIsLast
<1> HIDE DEF floor
<1>5. /\ SlotFits(at, o, m, floor, p, None, slot)
      /\ slot.setup = setup
      /\ BlockedPools(Holdings(at), o, slot.setup, length, slot.start) = {}
      /\ RequiredBy(o) = {} => InShift(m, o, slot)
  BY <1>1, <1>2, <1>3, TailSlotFits
<1> HIDE DEF p
<1>6. floor \in Int
  BY <1>2
<1>7. /\ Timeline(new) /\ Separated(new)
      /\ \A x \in DOMAIN at : ActualSetup(new, x) = ActualSetup(at, x)
      /\ ActualSetup(new, o) = setup
  BY <1>1, <1>4, <1>5, <1>6, AppendKeepsSetups
<1>8. /\ DOMAIN new = DOMAIN at \cup {o} /\ new[o] = slot
      /\ \A x \in DOMAIN at : new[x] = at[x]
  BY DEF PlaceAt
<1>9. StampsAreTrue(new)
  BY <1>5, <1>7, <1>8 DEF StampsAreTrue
<1>10. \A x \in DOMAIN at : Window(new, x) = Window(at, x)
  BY <1>7, <1>8 DEF Window
<1>11. Window(new, o) = [from |-> slot.start - setup, to |-> slot.end]
  BY <1>7, <1>8 DEF Window
<1>12. slot.wc = m /\ slot.start \in Int /\ slot.end = slot.start + length
  BY <1>5 DEF SlotFits
<1> DEFINE fresh == FreshWindows(at, RequiredBy(o))
<1>13. ResourcesFit(fresh, o, Window(new, o).from, Window(new, o).to)
  <2>1. SUFFICES ASSUME NEW r \in RequiredBy(o), NEW t \in slot.start - setup .. slot.end - 1
                 PROVE Held(fresh, r, t) + Needs[o][r] <= PoolSize[r]
    BY <1>11 DEF ResourcesFit
  <2>2. r \in Resources
    BY DEF RequiredBy
  <2>3. Held(Holdings(at), r, t) + Needs[o][r] <= PoolSize[r]
    <3> DEFINE held == Holdings(at)
    <3>1. BlockedPools(held, o, slot.setup, length, slot.start) = {}
      BY <1>5
    <3>2. slot.setup = setup /\ setup \in Nat /\ length \in Nat
      BY <1>1, <1>5, ProblemFacts DEF SlotFits
    <3> HIDE DEF held, length, setup
    <3>3. t \in slot.start - slot.setup .. slot.start + length - 1
      BY <1>12, <3>2
    <3>4. Held(held, r, t) + Needs[o][r] <= PoolSize[r]
      BY <3>1, <3>3, UnblockedPools
    <3> QED BY <3>4 DEF held
  <2>4. Held(fresh, r, t) <= Held(Holdings(at), r, t)
    BY <2>2, StampedHoldings
  <2>5. Held(fresh, r, t) \in Nat /\ Held(Holdings(at), r, t) \in Nat
    <3>1. DOMAIN fresh \subseteq Ops /\ DOMAIN Holdings(at) \subseteq Ops
      BY <1>1 DEF FreshWindows, Holdings, Timeline
    <3> HIDE DEF fresh
    <3> QED BY <2>2, <3>1, HeldIsNat
  <2>6. Needs[o][r] \in Nat /\ PoolSize[r] \in Nat
    BY <2>2, DispatchTimelineAssumption DEF DispatchTimelineAssumption
  <2> HIDE DEF fresh
  <2> QED BY <2>3, <2>4, <2>5, <2>6
<1>14. PoolsRespected(new)
  BY <1>1, <1>7, <1>8, <1>10, <1>13, AddKeepsPools DEF PoolsAndShiftsHold
<1>15. RequiredBy(o) = {} => WithinShift(new, o)
  BY <1>5, <1>8, <1>11, <1>12 DEF InShift, WithinShift
<1>16. \A x \in DOMAIN at : WithinShift(at, x) => WithinShift(new, x)
  BY <1>8, <1>10 DEF WithinShift
<1>17. PoolsAndShiftsHold(new)
  BY <1>8, <1>14, <1>15, <1>16 DEF PoolsAndShiftsHold
<1> QED BY <1>9, <1>10, <1>17

-----------------------------------------------------------------------------
(* What a placed operation keeps: a machine it may use, its deadline, and  *)
(* the floor of its window or of the data.                                 *)
SitsWell(at, o) ==
  /\ at[o].wc \in EligibleFor[o] /\ at[o].end <= Deadline(o)
  /\ IF HardWindow[o] THEN OpenFrom[o] # None => OpenFrom[o] <= at[o].start
                      ELSE Earliest[o] <= at[o].start

AllSitWell(at) == Typed(at) /\ NoneOverlap(at) /\ \A o \in DOMAIN at : SitsWell(at, o)

(* One operation more, and behind its predecessor.                         *)
Gains(at, o, new) ==
  /\ AllSitWell(new)
  /\ DOMAIN new = DOMAIN at \cup {o}
  /\ \A x \in DOMAIN at : new[x] = at[x]
  /\ PredecessorOf[o] \in DOMAIN at => at[PredecessorOf[o]].end <= new[o].start
  /\ Separated(at) => Separated(new)

LEMMA PlaceGains ==
  ASSUME NEW at, AllSitWell(at), NEW o \in Ops \ DOMAIN at, NEW slot, PlaceFits(at, o, slot)
  PROVE  Gains(at, o, PlaceAt(at, o, slot))
<1> DEFINE new == PlaceAt(at, o, slot)
<1>1. Typed(at) /\ Timeline(at) /\ NoneOverlap(at)
  BY DEF AllSitWell, Typed
<1>2. Typed(new) /\ NoneOverlap(new) /\ (Separated(at) => Separated(new))
  BY <1>1, PlacingKeepsTimeline
<1>3. /\ DOMAIN new = DOMAIN at \cup {o} /\ new[o] = slot
      /\ \A x \in DOMAIN at : new[x] = at[x]
  BY DEF PlaceAt
<1> HIDE DEF new
<1> DEFINE floor == CoverFloor(at, o)
<1>4. floor <= slot.start /\ slot.start \in Int
  BY DEF PlaceFits, SlotFits
<1>5. /\ floor \in Nat
      /\ PredecessorOf[o] \in DOMAIN at => at[PredecessorOf[o]].end <= floor
      /\ HardWindow[o] /\ OpenFrom[o] # None => OpenFrom[o] <= floor
      /\ ~ HardWindow[o] => Earliest[o] <= floor
  BY <1>1, CoverFloorFacts
<1> HIDE DEF floor
<1>6. PredecessorOf[o] \in DOMAIN at => at[PredecessorOf[o]].end <= new[o].start
  <2>1. ASSUME NEW x \in DOMAIN at PROVE at[x].end \in Int
    BY <1>1, TypedFacts
  <2> QED BY <1>3, <1>4, <1>5, <2>1
<1>7. OpenFrom[o] \in Nat \cup {None} /\ Earliest[o] \in Nat
  BY ListCoverAssumption DEF ListCoverAssumption
<1>8. SitsWell(new, o)
  <2>1. slot.wc \in EligibleFor[o] /\ slot.end <= Deadline(o)
    BY DEF PlaceFits
  <2> QED BY <1>3, <1>4, <1>5, <1>7, <2>1 DEF SitsWell
<1>9. \A x \in DOMAIN at : SitsWell(new, x)
  BY <1>3 DEF SitsWell, AllSitWell
<1> QED BY <1>2, <1>3, <1>6, <1>8, <1>9 DEF Gains, AllSitWell, new

LEMMA RebuiltGains ==
  ASSUME NEW at, AllSitWell(at), NEW o \in Ops \ DOMAIN at, NEW new \in Rebuilt(at, o)
  PROVE  Gains(at, o, new)
<1> DEFINE fresh == FreshWindows(at, RequiredBy(o))
<1>1. PICK q \in PlacesFor(at, fresh, o, TRUE, {}) : new = PlaceAt(at, o, q.slot)
  BY DEF Rebuilt
<1>2. EndsAreTimes(fresh)
  BY WindowEndsAreTimes DEF EndsAreTimes, FreshWindows, AllSitWell, Typed
<1> HIDE DEF fresh
<1>3. PlaceFits(at, o, q.slot)
  BY <1>1, <1>2, PlacesAreFound DEF AllSitWell, IsPlace
<1> QED BY <1>1, <1>3, PlaceGains

(* With a victim taken out, put in elsewhere after the leftover.           *)
LEMMA WithoutSitsWell ==
  ASSUME AllSitWell(covered), NEW v \in DOMAIN covered
  PROVE  /\ AllSitWell(Without(v)) /\ DOMAIN Without(v) = DOMAIN covered \ {v}
         /\ \A x \in DOMAIN covered \ {v} : Without(v)[x] = covered[x]
<1> DEFINE at == Without(v)
<1>1. /\ DOMAIN at = DOMAIN covered \ {v}
      /\ \A x \in DOMAIN covered \ {v} : at[x] = covered[x]
  BY DEF Without
<1> HIDE DEF at
<1>2. Typed(at)
  BY <1>1 DEF AllSitWell, Typed, Timeline
<1>3. \A x \in DOMAIN at : SitsWell(at, x)
  BY <1>1 DEF AllSitWell, SitsWell
<1>4. NoneOverlap(at)
  BY <1>1 DEF AllSitWell, NoneOverlap
<1> QED BY <1>1, <1>2, <1>3, <1>4 DEF AllSitWell, at

Swapped(o, v, new) ==
  /\ AllSitWell(new)
  /\ DOMAIN new = DOMAIN covered \cup {o}
  /\ \A x \in DOMAIN covered \ {v} : new[x] = covered[x]
  /\ Separated(Without(v)) => Separated(new)

LEMMA SwapsKeepTheRest ==
  ASSUME AllSitWell(covered), NEW v \in DOMAIN covered, NEW o \in Ops \ DOMAIN covered,
         NEW new \in Swaps(o, v)
  PROVE  Swapped(o, v, new)
<1>1. /\ AllSitWell(Without(v)) /\ DOMAIN Without(v) = DOMAIN covered \ {v}
      /\ \A x \in DOMAIN covered \ {v} : Without(v)[x] = covered[x]
  BY WithoutSitsWell
<1>2. v \in Ops /\ v # o
  BY DEF AllSitWell, Typed, Timeline
<1>3. PICK mid \in Rebuilt(Without(v), o) : new \in Rebuilt(mid, v)
  BY DEF Swaps
<1> DEFINE at == Without(v)
<1>4. Gains(at, o, mid)
  <2>1. o \in Ops \ DOMAIN at
    BY <1>1
  <2> QED BY <1>1, <1>3, <2>1, RebuiltGains
<1>5. Gains(mid, v, new)
  <2>1. AllSitWell(mid) /\ v \in Ops \ DOMAIN mid
    BY <1>1, <1>2, <1>4 DEF Gains
  <2> QED BY <1>3, <2>1, RebuiltGains
<1> QED BY <1>1, <1>4, <1>5 DEF Gains, Swapped

-----------------------------------------------------------------------------
(* Taking an operation out brings its neighbours together: they stay far   *)
(* enough apart where changeovers add up.                                  *)
LEMMA RemovalKeepsSeparated ==
  ASSUME ChangeoversAddUp, NEW at, Typed(at), Separated(at), NEW v \in DOMAIN at,
         NEW new, DOMAIN new = DOMAIN at \ {v}, \A x \in DOMAIN at \ {v} : new[x] = at[x]
  PROVE  Separated(new)
<1>1. SUFFICES ASSUME NEW x \in DOMAIN new, NEW y \in DOMAIN new, x # y,
                      new[x].wc = new[y].wc, new[x].start <= new[y].start
               PROVE  /\ new[x].end <= new[y].start
                      /\ Follows(new, new[x].wc, x, y) =>
                           new[x].end + SetupBetween(new[x].wc, x, y) <= new[y].start
  BY DEF Separated
<1> DEFINE m == at[x].wc
<1>2. /\ x \in DOMAIN at /\ y \in DOMAIN at /\ x # v /\ y # v
      /\ new[x] = at[x] /\ new[y] = at[y]
  OBVIOUS
<1>3. at[x].end <= at[y].start
  BY <1>1, <1>2 DEF Separated
<1>4. ASSUME Follows(new, m, x, y) PROVE at[x].end + SetupBetween(m, x, y) <= at[y].start
  <2>1. CASE Follows(at, m, x, y)
    BY <1>1, <1>2, <2>1 DEF Separated
  <2>2. CASE ~ Follows(at, m, x, y)
    <3>1. x # None /\ \A z \in DOMAIN at : at[z].start \in Int /\ z \in Ops
      BY <1>2, TypedFacts
    <3>2. /\ x \in On(new, m) /\ y \in On(new, m) /\ new[x].start < new[y].start
          /\ \A z \in On(new, m) : new[z].start <= new[x].start \/ new[y].start <= new[z].start
      BY <1>4, <3>1 DEF Follows
    <3>3. x \in On(at, m) /\ y \in On(at, m) /\ at[x].start < at[y].start
      BY <1>1, <1>2, <3>2 DEF On
    <3>4. PICK z \in On(at, m) : ~ (at[z].start <= at[x].start \/ at[y].start <= at[z].start)
      BY <2>2, <3>3 DEF Follows
    <3>5. z = v
      <4>1. z \in DOMAIN at /\ at[z].wc = m
        BY DEF On
      <4>2. ASSUME z # v PROVE z \in On(new, m) /\ new[z] = at[z]
        BY <4>1, <4>2 DEF On
      <4> QED BY <1>2, <3>2, <3>4, <4>2
    <3>6. at[x].start < at[v].start /\ at[v].start < at[y].start /\ at[v].wc = m /\ at[y].wc = m
      BY <1>1, <1>2, <3>1, <3>4, <3>5 DEF On
    <3>7. ASSUME NEW u \in On(at, m) \ {v} PROVE at[u].start <= at[x].start \/ at[y].start <= at[u].start
      <4>1. u \in DOMAIN at /\ at[u].wc = m
        BY DEF On
      <4>2. u \in On(new, m) /\ new[u] = at[u]
        BY <4>1 DEF On
      <4> QED BY <1>2, <3>2, <4>2
    <3>8. Follows(at, m, x, v) /\ Follows(at, m, v, y)
      <4>1. v \in On(at, m)
        BY <3>6 DEF On
      <4>2. ASSUME NEW u \in On(at, m)
            PROVE  /\ at[u].start <= at[x].start \/ at[v].start <= at[u].start
                   /\ at[u].start <= at[v].start \/ at[y].start <= at[u].start
        <5>1. at[u].start \in Int /\ at[x].start \in Int /\ at[y].start \in Int /\ at[v].start \in Int
          BY <1>2, <3>1 DEF On
        <5> QED BY <3>6, <3>7, <5>1
      <4> QED BY <3>3, <3>6, <4>1, <4>2 DEF Follows
    <3>9. at[x].end + SetupBetween(m, x, v) <= at[v].start
      BY <1>2, <3>1, <3>6, <3>8 DEF Separated
    <3>10. at[v].end + SetupBetween(m, v, y) <= at[y].start
      BY <1>2, <3>1, <3>6, <3>8 DEF Separated
    <3>11. at[v].end = at[v].start + Duration[v][m]
      BY <3>6 DEF Typed, Timeline
    <3>12. m \in Machines /\ x \in Ops /\ v \in Ops /\ y \in Ops
      BY <1>2, TypedFacts
    <3>13. SetupBetween(m, x, y) <= SetupBetween(m, x, v) + Duration[v][m] + SetupBetween(m, v, y)
      BY <3>12 DEF ChangeoversAddUp
    <3>14. /\ SetupBetween(m, x, y) \in Int /\ SetupBetween(m, x, v) \in Int
           /\ SetupBetween(m, v, y) \in Int /\ Duration[v][m] \in Int
      BY <3>12, ProblemFacts
    <3>15. at[x].end \in Int /\ at[v].start \in Int /\ at[y].start \in Int
      BY <1>2, TypedFacts
    <3> HIDE DEF m
    <3> QED BY <3>9, <3>10, <3>11, <3>13, <3>14, <3>15
  <2> QED BY <2>1, <2>2
<1> QED BY <1>2, <1>3, <1>4

-----------------------------------------------------------------------------
(* The invariant of the list schedule. *)

InOrder ==
  /\ Separated(covered) /\ ChainsHold
  /\ \A x \in DOMAIN covered : PredecessorIsPlaced(x)

AppendsOnly ==
  /\ moved = {} /\ StampsAreTrue(covered) /\ PoolsAndShiftsHold(covered)
  /\ CacheIsTrue(covered, index)

CoverCore ==
  /\ AllSitWell(covered) /\ CachesTimes(index) /\ {} \notin DOMAIN index
  /\ moved = {} => InOrder
  /\ ChangeoversAddUp => Separated(covered)
  /\ ~ inserted => AppendsOnly

(* What is in the queue waits for nothing any more; what is in a pass has  *)
(* no place yet.                                                           *)
QueueIsReady ==
  /\ phase = "loop" =>
       /\ todo = {} /\ ready \subseteq Ops \ DOMAIN covered
       /\ \A o \in ready : PredecessorIsPlaced(o)
  /\ todo \subseteq Ops \ DOMAIN covered
  /\ moved # {} => phase \in {"eject", "done"}

(* A pass of the last wave that has placed nothing leaves behind it only   *)
(* what finds no place as the index sees the pools, and the index goes on  *)
(* seeing them so.                                                         *)
StuckSoFar ==
  phase = "steal" /\ ~ progress =>
    \A o \in Leftovers \ todo : PredecessorIsPlaced(o) =>
      /\ RequiredBy(o) # {} => RequiredBy(o) \in DOMAIN index
      /\ PlacesFor(covered, WindowsSeenBy(index, o), o, TRUE, {}) = {}

StuckAtLast ==
  phase = "eject" /\ moved = {} =>
    \A o \in Fitting([x \in Ops |-> FreshWindows(covered, RequiredBy(x))]) :
      inserted /\ RequiredBy(o) # {}

CoverInv == CoverCore /\ QueueIsReady /\ StuckSoFar /\ StuckAtLast

LEMMA LookedKeeps ==
  ASSUME AllSitWell(covered), CachesTimes(index), {} \notin DOMAIN index,
         NEW o, NEW scan, NEW looked, looked = Looked(o, scan)
  PROVE  /\ CachesTimes(looked) /\ {} \notin DOMAIN looked
         /\ CacheIsTrue(covered, index) => CacheIsTrue(covered, looked)
         /\ \A k \in DOMAIN index : k \in DOMAIN looked /\ looked[k] = index[k]
         /\ scan /\ RequiredBy(o) # {} => RequiredBy(o) \in DOMAIN looked
<1>1. CASE scan
  <2>1. looked = CachedFor(covered, index, {RequiredBy(o)})
    BY <1>1 DEF Looked
  <2>2. CachesTimes(looked)
    BY <2>1, CachedForKeepsTimes DEF AllSitWell, Typed
  <2>3. /\ DOMAIN looked = DOMAIN index \cup ({RequiredBy(o)} \ {{}})
        /\ \A k \in DOMAIN looked : looked[k] = IF k \in DOMAIN index THEN index[k] ELSE FreshWindows(covered, k)
    BY <2>1 DEF CachedFor
  <2> QED BY <2>2, <2>3 DEF CacheIsTrue
<1>2. CASE ~ scan
  BY <1>2 DEF Looked
<1> QED BY <1>1, <1>2

LEMMA CommitKeeps ==
  ASSUME CoverCore, NEW o \in Ops \ DOMAIN covered, PredecessorIsPlaced(o),
         NEW scan, NEW looked, looked = Looked(o, scan), NEW allowGap, NEW reserved,
         NEW q \in PlacesFor(covered, WindowsSeenBy(looked, o), o, allowGap, reserved),
         Commit(o, q, looked), moved = {}, moved' = moved
  PROVE  CoverCore' /\ Gains(covered, o, covered')
<1> DEFINE new == PlaceAt(covered, o, q.slot)
<1>1. /\ covered' = new /\ index' = CacheAfterAdd(looked, covered', o)
      /\ inserted' = (inserted \/ q.inGap)
  BY DEF Commit
<1>2. /\ CachesTimes(looked) /\ {} \notin DOMAIN looked
      /\ CacheIsTrue(covered, index) => CacheIsTrue(covered, looked)
  BY LookedKeeps DEF CoverCore
<1>3. Typed(covered) /\ AllSitWell(covered)
  BY DEF CoverCore, AllSitWell
<1>4. IsPlace(covered, o, q)
  <2> DEFINE seen == WindowsSeenBy(looked, o)
  <2>1. EndsAreTimes(seen)
    BY <1>2, SeenWindowsAreTimes
  <2> HIDE DEF seen
  <2>2. q \in PlacesFor(covered, seen, o, allowGap, reserved)
    BY DEF seen
  <2> QED BY <1>3, <2>1, <2>2, PlacesAreFound
<1>5. Gains(covered, o, new)
  BY <1>3, <1>4, PlaceGains DEF IsPlace
<1> HIDE DEF new
<1>6. Gains(covered, o, covered')
  BY <1>1, <1>5
<1>7. CachesTimes(index') /\ {} \notin DOMAIN index'
  <2>1. Timeline(covered') /\ o \in DOMAIN covered'
    BY <1>6 DEF Gains, AllSitWell, Typed
  <2>2. CachesTimes(index')
    BY <1>1, <1>2, <2>1, CacheAfterAddKeepsTimes
  <2> QED BY <1>1, <1>2, <2>2 DEF CacheAfterAdd
<1>8. /\ DOMAIN covered' = DOMAIN covered \cup {o}
      /\ \A x \in DOMAIN covered : covered'[x] = covered[x]
      /\ AllSitWell(covered') /\ (Separated(covered) => Separated(covered'))
      /\ PredecessorOf[o] \in DOMAIN covered => covered[PredecessorOf[o]].end <= covered'[o].start
  BY <1>6 DEF Gains
<1>9. InOrder
  BY DEF CoverCore
<1>10. InOrder'
  <2>1. o # None /\ \A x \in DOMAIN covered : x # None /\ PredecessorOf[x] \in {None} \cup DOMAIN covered
    BY <1>3, <1>9, TypedFacts, ProblemFacts DEF InOrder, PredecessorIsPlaced
  <2>2. PredecessorOf[o] \in {None} \cup DOMAIN covered
    BY DEF PredecessorIsPlaced
  <2>3. ChainsHold'
    BY <1>8, <1>9, <2>1, <2>2 DEF InOrder, ChainsHold
  <2>4. \A x \in DOMAIN covered' : PredecessorOf[x] \in {None} \cup DOMAIN covered'
    BY <1>8, <2>1, <2>2
  <2> QED BY <1>8, <1>9, <2>3, <2>4 DEF InOrder, PredecessorIsPlaced
<1>11. ASSUME ~ inserted' PROVE AppendsOnly'
  <2>1. ~ inserted /\ ~ q.inGap
    BY <1>1, <1>11
  <2>2. AppendsOnly
    BY <2>1 DEF CoverCore
  <2> DEFINE slot == q.slot
             m == slot.wc
  <2>3. slot \in TailSlots(covered, o, m, CoverFloor(covered, o)) /\ m \in EligibleFor[o]
    BY <1>4, <2>1 DEF IsPlace, PlaceFits
  <2>4. covered' = PlaceAt(covered, o, slot)
    BY <1>1 DEF new
  <2> HIDE DEF slot, m
  <2>5. /\ StampsAreTrue(covered') /\ PoolsAndShiftsHold(covered')
        /\ \A x \in DOMAIN covered : Window(covered', x) = Window(covered, x)
    BY <1>3, <1>9, <2>2, <2>3, <2>4, TailKeepsPoolsAndShifts DEF InOrder, AppendsOnly
  <2>6. CacheIsTrue(covered', index')
    BY <1>1, <1>2, <1>8, <2>2, <2>5, AddKeepsCacheTrue DEF AppendsOnly
  <2> QED BY <2>5, <2>6 DEF AppendsOnly
<1> QED BY <1>6, <1>7, <1>8, <1>10, <1>11 DEF CoverCore

LEMMA CoverInitKeeps == ASSUME CoverInit PROVE CoverInv
<1> USE DEF CoverInit
<1>1. DOMAIN covered = {} /\ DOMAIN index = {}
  BY DEF NoWindows
<1>2. AllSitWell(covered) /\ CachesTimes(index)
  BY <1>1 DEF AllSitWell, NoneOverlap, Typed, Timeline, CachesTimes
<1>3. InOrder
  BY <1>1 DEF InOrder, ChainsHold, Separated
<1>4. AppendsOnly
  <2>1. PoolsRespected(covered)
    BY <1>1 DEF PoolsRespected, FreshWindows
  <2> QED BY <1>1, <2>1 DEF AppendsOnly, StampsAreTrue, PoolsAndShiftsHold, CacheIsTrue
<1>5. QueueIsReady
  BY <1>1 DEF QueueIsReady, PredecessorIsPlaced
<1> QED BY <1>1, <1>2, <1>3, <1>4, <1>5 DEF CoverInv, CoverCore, InOrder, StuckSoFar, StuckAtLast

(* What is looked up only adds to the index.                               *)
LEMMA LookingKeepsCore ==
  ASSUME CoverCore, NEW o, NEW scan, index' = Looked(o, scan),
         UNCHANGED <<covered, inserted, moved>>
  PROVE  CoverCore'
<1>1. /\ CachesTimes(index') /\ {} \notin DOMAIN index'
      /\ CacheIsTrue(covered, index) => CacheIsTrue(covered, index')
  BY LookedKeeps DEF CoverCore
<1>2. InOrder => InOrder'
  BY DEF InOrder, ChainsHold, PredecessorIsPlaced
<1>3. AppendsOnly => AppendsOnly'
  BY <1>1 DEF AppendsOnly
<1> QED BY <1>1, <1>2, <1>3 DEF CoverCore

LEMMA FreshIndexKeepsCore ==
  ASSUME CoverCore, index' \in {index, NoWindows}, UNCHANGED <<covered, inserted, moved>>
  PROVE  CoverCore'
<1>1. DOMAIN NoWindows = {}
  BY DEF NoWindows
<1>2. CachesTimes(index') /\ {} \notin DOMAIN index' /\ (CacheIsTrue(covered, index) => CacheIsTrue(covered, index'))
  BY <1>1 DEF CoverCore, CachesTimes, CacheIsTrue
<1>3. InOrder => InOrder'
  BY DEF InOrder, ChainsHold, PredecessorIsPlaced
<1>4. AppendsOnly => AppendsOnly'
  BY <1>2 DEF AppendsOnly
<1> QED BY <1>2, <1>3, <1>4 DEF CoverCore

-----------------------------------------------------------------------------
(* What a step does to the schedule. *)
Advances ==
  /\ \/ covered' = covered
     \/ \E o \in Ops \ DOMAIN covered, v \in Ops :
          /\ DOMAIN covered' = DOMAIN covered \cup {o}
          /\ \A x \in DOMAIN covered \ {v} : covered'[x] = covered[x]
  /\ ChangeoversAddUp /\ Separated(covered) => Separated(covered')

LEMMA GainAdvances ==
  ASSUME NEW o \in Ops \ DOMAIN covered, Gains(covered, o, covered')
  PROVE  Advances
<1>1. /\ DOMAIN covered' = DOMAIN covered \cup {o}
      /\ \A x \in DOMAIN covered \ {o} : covered'[x] = covered[x]
  BY DEF Gains
<1> QED BY <1>1 DEF Gains, Advances

LEMMA ReadyChoicesAreReady == ReadyChoices \subseteq ready
<1>1. \A ops : FirstReady(ops) \subseteq ops
  BY DEF FirstReady
<1>2. FifoChoices \subseteq ready
  <2> DEFINE tonight == {o \in ready : \A p \in FirstReady(ready) : Night(o) = Night(p)}
             direct == {o \in tonight : HasDirectTail(o)}
  <2>1. FifoChoices = FirstReady(direct) \/ FifoChoices = FirstReady(ready)
    BY DEF FifoChoices
  <2>2. direct \subseteq ready
    OBVIOUS
  <2> HIDE DEF direct
  <2> QED BY <1>1, <2>1, <2>2
<1>3. AtcsChoices \subseteq ready
  BY DEF AtcsChoices
<1> QED BY <1>2, <1>3 DEF ReadyChoices

LEMMA PlaceNextKeeps == ASSUME CoverInv, PlaceNext PROVE CoverInv' /\ Advances
<1>1. phase = "loop" /\ phase' = "loop" /\ UNCHANGED <<todo, progress, moved>>
  BY DEF PlaceNext
<1>2. CoverCore /\ QueueIsReady /\ moved = {}
  BY <1>1 DEF CoverInv, QueueIsReady
<1>3. PICK o \in ReadyChoices : \E allowGap \in {HardWindow[o] \/ attempts < MaxInserts} :
        \E looked \in {Looked(o, GapsAreScanned(o, allowGap))} :
        \E found \in {PlacesFor(covered, WindowsSeenBy(looked, o), o, allowGap, ForeignHomes(covered, o))} :
          \/ \E p \in found :
               /\ Commit(o, p, looked)
               /\ ready' = (ready \ {o}) \cup {s \in Ops : PredecessorOf[s] = o}
          \/ /\ found = {}
             /\ ready' = ready \ {o} /\ index' = looked
             /\ UNCHANGED <<covered, inserted>>
  BY DEF PlaceNext
<1>9. PICK allowGap \in {HardWindow[o] \/ attempts < MaxInserts} :
        \E looked \in {Looked(o, GapsAreScanned(o, allowGap))} :
        \E found \in {PlacesFor(covered, WindowsSeenBy(looked, o), o, allowGap, ForeignHomes(covered, o))} :
          \/ \E p \in found :
               /\ Commit(o, p, looked)
               /\ ready' = (ready \ {o}) \cup {s \in Ops : PredecessorOf[s] = o}
          \/ /\ found = {}
             /\ ready' = ready \ {o} /\ index' = looked
             /\ UNCHANGED <<covered, inserted>>
  BY <1>3
<1> DEFINE scan == GapsAreScanned(o, allowGap)
           looked == Looked(o, scan)
           reserved == ForeignHomes(covered, o)
           found == PlacesFor(covered, WindowsSeenBy(looked, o), o, allowGap, reserved)
<1>4. \/ \E p \in found :
           /\ Commit(o, p, looked)
           /\ ready' = (ready \ {o}) \cup {s \in Ops : PredecessorOf[s] = o}
      \/ /\ ready' = ready \ {o} /\ index' = looked
         /\ UNCHANGED <<covered, inserted>>
  BY <1>9
<1>5. o \in ready /\ o \in Ops \ DOMAIN covered /\ PredecessorIsPlaced(o)
  BY <1>1, <1>2, ReadyChoicesAreReady DEF QueueIsReady
<1> HIDE DEF scan, reserved
<1>6. ASSUME NEW p \in found, Commit(o, p, looked),
             ready' = (ready \ {o}) \cup {s \in Ops : PredecessorOf[s] = o}
      PROVE  CoverCore' /\ QueueIsReady' /\ Advances
  <2>1. CoverCore' /\ Gains(covered, o, covered')
    BY <1>1, <1>2, <1>5, <1>6, CommitKeeps
  <2>2. Advances
    BY <1>5, <2>1, GainAdvances
  <2>3. DOMAIN covered' = DOMAIN covered \cup {o}
    BY <2>1 DEF Gains
  <2>4. \A x \in DOMAIN covered : PredecessorIsPlaced(x) /\ x # None /\ x \in Ops
    BY <1>2, TypedFacts DEF CoverCore, InOrder, AllSitWell
  <2>5. ready' \subseteq Ops \ DOMAIN covered'
    <3>1. ASSUME NEW s \in Ops, PredecessorOf[s] = o PROVE s \notin DOMAIN covered'
      BY <1>5, <2>3, <2>4, <3>1, ProblemFacts DEF PredecessorIsPlaced
    <3>2. ready \subseteq Ops \ DOMAIN covered
      BY <1>1, <1>2 DEF QueueIsReady
    <3> QED BY <1>6, <2>3, <3>1, <3>2
  <2>6. \A s \in ready' : PredecessorOf[s] \in {None} \cup DOMAIN covered'
    BY <1>1, <1>2, <1>6, <2>3 DEF QueueIsReady, PredecessorIsPlaced
  <2>7. todo' = {}
    BY <1>1, <1>2 DEF QueueIsReady
  <2> QED BY <1>1, <1>2, <2>1, <2>2, <2>5, <2>6, <2>7 DEF QueueIsReady, PredecessorIsPlaced
<1>7. ASSUME ready' = ready \ {o}, index' = looked, UNCHANGED <<covered, inserted>>
      PROVE  CoverCore' /\ QueueIsReady' /\ Advances
  <2>1. CoverCore'
    BY <1>1, <1>2, <1>7, LookingKeepsCore
  <2> QED BY <1>1, <1>2, <1>7, <2>1 DEF QueueIsReady, PredecessorIsPlaced, Advances
<1> HIDE DEF looked, found
<1>8. CoverCore' /\ QueueIsReady' /\ Advances
  BY <1>4, <1>6, <1>7
<1> QED BY <1>1, <1>8 DEF CoverInv, StuckSoFar, StuckAtLast

LEMMA EndLoopKeeps == ASSUME CoverInv, EndLoop PROVE CoverInv' /\ Advances
<1>1. /\ phase = "loop" /\ phase' = "reserve" /\ todo' = Leftovers
      /\ index' = NoWindows /\ UNCHANGED <<covered, ready, inserted, moved>>
  BY DEF EndLoop, StartPass
<1>2. CoverCore'
  BY <1>1, FreshIndexKeepsCore DEF CoverInv
<1>3. QueueIsReady'
  BY <1>1 DEF CoverInv, QueueIsReady, Leftovers
<1> QED BY <1>1, <1>2, <1>3 DEF CoverInv, StuckSoFar, StuckAtLast, Advances

(* A retry places an operation behind its predecessor, or leaves the       *)
(* schedule and what the index says as they are.                           *)
LEMMA RetryKeeps == ASSUME CoverInv, Retry PROVE CoverInv' /\ Advances
<1>1. /\ phase \in {"reserve", "steal"} /\ phase' = phase /\ UNCHANGED <<ready, moved>>
  BY DEF Retry
<1>2. CoverCore /\ QueueIsReady /\ moved = {} /\ phase # "loop" /\ phase # "eject" /\ StuckSoFar
  BY <1>1 DEF CoverInv, QueueIsReady
<1>3. PICK o \in InTurn :
        /\ todo' = todo \ {o}
        /\ IF PredecessorIsPlaced(o)
             THEN \E looked \in {Looked(o, TRUE)} :
                  \E reserved \in {Reserved(phase, o)} :
                  \E found \in {PlacesFor(covered, WindowsSeenBy(looked, o), o, TRUE, reserved)} :
                    \/ \E p \in found : Commit(o, p, looked) /\ progress' = TRUE
                    \/ found = {} /\ index' = looked /\ UNCHANGED <<covered, progress, inserted>>
             ELSE UNCHANGED <<covered, index, progress, inserted>>
  BY DEF Retry
<1> DEFINE looked == Looked(o, TRUE)
           reserved == Reserved(phase, o)
           found == PlacesFor(covered, WindowsSeenBy(looked, o), o, TRUE, reserved)
<1>4. o \in todo /\ o \in Ops \ DOMAIN covered /\ todo' = todo \ {o}
  BY <1>2, <1>3 DEF InTurn, QueueIsReady
<1>5. \/ /\ PredecessorIsPlaced(o)
         /\ \E p \in found : Commit(o, p, looked) /\ progress' = TRUE
      \/ /\ PredecessorIsPlaced(o) /\ found = {} /\ index' = looked
         /\ UNCHANGED <<covered, progress, inserted>>
      \/ ~ PredecessorIsPlaced(o) /\ UNCHANGED <<covered, index, progress, inserted>>
  BY <1>3
<1> HIDE DEF reserved
<1>9. /\ {} \notin DOMAIN index /\ {} \notin DOMAIN looked
      /\ \A k \in DOMAIN index : k \in DOMAIN looked /\ looked[k] = index[k]
  <2>1. AllSitWell(covered) /\ CachesTimes(index) /\ {} \notin DOMAIN index
    BY <1>2 DEF CoverCore
  <2> QED BY <2>1, LookedKeeps
<1>6. ASSUME PredecessorIsPlaced(o), NEW p \in found, Commit(o, p, looked), progress' = TRUE
      PROVE  CoverCore' /\ QueueIsReady' /\ StuckSoFar' /\ Advances
  <2>1. CoverCore' /\ Gains(covered, o, covered')
    BY <1>1, <1>2, <1>4, <1>6, CommitKeeps
  <2>2. Advances
    BY <1>4, <2>1, GainAdvances
  <2>3. DOMAIN covered' = DOMAIN covered \cup {o}
    BY <2>1 DEF Gains
  <2>4. QueueIsReady'
    BY <1>1, <1>2, <1>4, <2>3 DEF QueueIsReady
  <2> QED BY <1>6, <2>1, <2>2, <2>4 DEF StuckSoFar
<1>7. ASSUME UNCHANGED <<covered, progress, inserted>>,
             \/ /\ PredecessorIsPlaced(o) /\ found = {} /\ index' = looked
             \/ ~ PredecessorIsPlaced(o) /\ index' = index
      PROVE  CoverCore' /\ QueueIsReady' /\ StuckSoFar' /\ Advances
  <2>1. CoverCore'
    <3>1. CASE index' = index
      BY <1>1, <1>2, <1>7, <3>1, FreshIndexKeepsCore
    <3>2. CASE index' = looked
      BY <1>1, <1>2, <1>7, <3>2, LookingKeepsCore
    <3> QED BY <1>7, <3>1, <3>2
  <2>2. QueueIsReady'
    BY <1>1, <1>2, <1>4, <1>7 DEF QueueIsReady
  <2>3. ASSUME phase' = "steal", ~ progress', NEW x \in Ops \ DOMAIN covered, HardWindow[x], x \notin todo',
               PredecessorIsPlaced(x)
        PROVE  /\ RequiredBy(x) # {} => RequiredBy(x) \in DOMAIN index'
               /\ PlacesFor(covered, WindowsSeenBy(index', x), x, TRUE, {}) = {}
    <3>1. CASE x = o
      <4>1. found = {} /\ index' = looked
        BY <1>7, <2>3, <3>1
      <4>2. reserved = {}
        BY <1>1, <2>3 DEF Reserved, reserved
      <4>3. RequiredBy(o) # {} => RequiredBy(o) \in DOMAIN looked
        BY <1>2, LookedKeeps DEF CoverCore
      <4> HIDE DEF looked
      <4> QED BY <3>1, <4>1, <4>2, <4>3
    <3>2. CASE x # o
      <4>1. phase = "steal" /\ ~ progress /\ x \in Leftovers \ todo
        BY <1>1, <1>4, <1>7, <2>3, <3>2 DEF Leftovers
      <4>2. /\ RequiredBy(x) # {} => RequiredBy(x) \in DOMAIN index
            /\ PlacesFor(covered, WindowsSeenBy(index, x), x, TRUE, {}) = {}
        BY <1>2, <2>3, <4>1 DEF StuckSoFar
      <4>3. /\ {} \notin DOMAIN index /\ {} \notin DOMAIN index'
            /\ \A k \in DOMAIN index : k \in DOMAIN index' /\ index'[k] = index[k]
        <5> HIDE DEF looked
        <5> QED BY <1>7, <1>9
      <4>4. WindowsSeenBy(index', x) = WindowsSeenBy(index, x)
        BY <4>2, <4>3 DEF WindowsSeenBy
      <4> QED BY <4>2, <4>3, <4>4
    <3> QED BY <3>1, <3>2
  <2>4. StuckSoFar'
    BY <1>7, <2>3 DEF StuckSoFar, Leftovers, PredecessorIsPlaced
  <2> QED BY <1>7, <2>1, <2>2, <2>4 DEF Advances
<1> HIDE DEF looked, found
<1>8. CoverCore' /\ QueueIsReady' /\ StuckSoFar' /\ Advances
  BY <1>5, <1>6, <1>7
<1> QED BY <1>1, <1>8 DEF CoverInv, StuckAtLast

(* What needs no resource sees nothing, and there is nothing for it to see. *)
LEMMA NothingIsSeen ==
  ASSUME {} \notin DOMAIN index, NEW o, RequiredBy(o) = {}
  PROVE  WindowsSeenBy(index, o) = FreshWindows(covered, RequiredBy(o))
<1>1. {p \in DOMAIN covered : RequiredBy(p) \cap RequiredBy(o) # {}} = {}
  OBVIOUS
<1>2. FreshWindows(covered, RequiredBy(o)) = [p \in {} |-> Window(covered, p)]
  BY <1>1 DEF FreshWindows
<1>3. WindowsSeenBy(index, o) = [p \in {} |-> None]
  BY DEF WindowsSeenBy
<1>4. [p \in {} |-> None] = [p \in {} |-> Window(covered, p)]
  OBVIOUS
<1> QED BY <1>2, <1>3, <1>4

(* Where the index is true, what it shows is what there is.                *)
LEMMA TrueIndexIsFresh ==
  ASSUME CacheIsTrue(covered, index), {} \notin DOMAIN index, NEW o,
         RequiredBy(o) # {} => RequiredBy(o) \in DOMAIN index
  PROVE  WindowsSeenBy(index, o) = FreshWindows(covered, RequiredBy(o))
<1>1. CASE RequiredBy(o) # {}
  BY <1>1 DEF CacheIsTrue, WindowsSeenBy
<1>2. CASE RequiredBy(o) = {}
  BY <1>2, NothingIsSeen
<1> QED BY <1>1, <1>2

(* Without progress the last wave hands over to the ejection.              *)
LEMMA NextPassKeeps == ASSUME CoverInv, NextPass PROVE CoverInv' /\ Advances
<1>1. /\ phase \in {"reserve", "steal"} /\ todo = {} /\ UNCHANGED <<covered, ready, inserted, moved>>
      /\ \/ progress /\ StartPass(phase) /\ UNCHANGED index
         \/ ~ progress /\ phase = "reserve" /\ StartPass("steal") /\ index' = NoWindows
         \/ ~ progress /\ phase = "steal" /\ StartPass("eject") /\ index' = NoWindows
  BY DEF NextPass
<1>2. todo' = Leftovers /\ phase' \in {"reserve", "steal", "eject"} /\ index' \in {index, NoWindows}
  BY <1>1 DEF StartPass
<1>3. CoverCore /\ QueueIsReady /\ moved = {} /\ moved' = {}
  BY <1>1 DEF CoverInv, QueueIsReady
<1>4. CoverCore'
  BY <1>1, <1>2, <1>3, FreshIndexKeepsCore
<1>5. QueueIsReady'
  BY <1>1, <1>2, <1>3 DEF QueueIsReady, Leftovers
<1>6. StuckSoFar'
  BY <1>1, <1>2 DEF StuckSoFar, Leftovers
<1>7. ASSUME phase' = "eject", NEW o \in Ops, o \in Leftovers, PredecessorIsPlaced(o),
             PlacesFor(covered, FreshWindows(covered, RequiredBy(o)), o, TRUE, {}) # {}
      PROVE  inserted /\ RequiredBy(o) # {}
  <2>1. ~ progress /\ phase = "steal"
    BY <1>1, <1>7 DEF StartPass
  <2>2. /\ RequiredBy(o) # {} => RequiredBy(o) \in DOMAIN index
        /\ PlacesFor(covered, WindowsSeenBy(index, o), o, TRUE, {}) = {}
    BY <1>1, <1>7, <2>1 DEF CoverInv, StuckSoFar
  <2>3. {} \notin DOMAIN index
    BY <1>3 DEF CoverCore
  <2>4. CASE ~ inserted
    <3>1. CacheIsTrue(covered, index)
      BY <1>3, <2>4 DEF CoverCore, AppendsOnly
    <3>2. WindowsSeenBy(index, o) = FreshWindows(covered, RequiredBy(o))
      BY <2>2, <2>3, <3>1, TrueIndexIsFresh
    <3> QED BY <1>7, <2>2, <3>2
  <2>5. CASE RequiredBy(o) = {}
    BY <1>7, <2>2, <2>3, <2>5, NothingIsSeen
  <2> QED BY <2>4, <2>5
<1>8. StuckAtLast'
  BY <1>1, <1>7 DEF StuckAtLast, Fitting, Leftovers, PredecessorIsPlaced
<1> QED BY <1>1, <1>4, <1>5, <1>6, <1>8 DEF CoverInv, Advances

(* An ejection gives the leftover a place and the victim another.          *)
LEMMA EjectCases ==
  ASSUME Eject
  PROVE  /\ phase = "eject" /\ phase' = "eject" /\ index' = index
         /\ \E o \in todo :
              /\ todo' = todo \ {o}
              /\ \/ /\ \E v \in Victims(o) : covered' \in Swaps(o, v) /\ moved' = moved \cup {v}
                    /\ inserted'
                 \/ UNCHANGED <<covered, moved>> /\ (inserted' <=> inserted)
<1>1. PICK o \in InTurn :
     \E swaps \in {[v \in {x \in Victims(o) : PredecessorIsPlaced(o)} |-> Swaps(o, v)]} :
     \E able \in {{v \in DOMAIN swaps : swaps[v] # {}}} :
       /\ todo' = todo \ {o}
       /\ \/ \E v \in able :
               /\ \A u \in able : covered[u].start <= covered[v].start
               /\ covered' \in swaps[v]
               /\ moved' = moved \cup {v}
          \/ able = {} /\ UNCHANGED <<covered, moved>>
       /\ inserted' = (inserted \/ able # {})
  BY DEF Eject
<1> DEFINE swaps == [v \in {x \in Victims(o) : PredecessorIsPlaced(o)} |-> Swaps(o, v)]
           able == {v \in DOMAIN swaps : swaps[v] # {}}
<1>2. /\ todo' = todo \ {o}
      /\ \/ \E v \in able : covered' \in swaps[v] /\ moved' = moved \cup {v}
         \/ able = {} /\ UNCHANGED <<covered, moved>>
      /\ inserted' = (inserted \/ able # {})
  BY <1>1
<1>3. \A v \in able : v \in Victims(o) /\ swaps[v] = Swaps(o, v)
  OBVIOUS
<1>4. o \in todo
  BY DEF InTurn
<1> HIDE DEF swaps, able
<1>5. phase = "eject" /\ phase' = "eject" /\ index' = index
  BY DEF Eject
<1> QED BY <1>2, <1>3, <1>4, <1>5

LEMMA EjectKeeps == ASSUME CoverInv, Eject PROVE CoverInv' /\ Advances
<1>1. /\ phase = "eject" /\ phase' = "eject" /\ index' = index
      /\ \E o \in todo :
           /\ todo' = todo \ {o}
           /\ \/ /\ \E v \in Victims(o) : covered' \in Swaps(o, v) /\ moved' = moved \cup {v}
                 /\ inserted'
              \/ UNCHANGED <<covered, moved>> /\ (inserted' <=> inserted)
  BY EjectCases
<1>2. CoverCore /\ QueueIsReady
  BY DEF CoverInv
<1>3. PICK o \in todo :
        /\ todo' = todo \ {o}
        /\ \/ /\ \E v \in Victims(o) : covered' \in Swaps(o, v) /\ moved' = moved \cup {v}
              /\ inserted'
           \/ UNCHANGED <<covered, moved>> /\ (inserted' <=> inserted)
  BY <1>1
<1>4. o \in Ops \ DOMAIN covered /\ todo' \subseteq (Ops \ DOMAIN covered) \ {o}
  BY <1>2, <1>3 DEF QueueIsReady
<1>5. CASE UNCHANGED <<covered, moved>> /\ (inserted' <=> inserted)
  <2>1. InOrder => InOrder'
    BY <1>5 DEF InOrder, ChainsHold, PredecessorIsPlaced
  <2>2. AppendsOnly => AppendsOnly'
    BY <1>1, <1>5 DEF AppendsOnly
  <2>3. CoverCore'
    BY <1>1, <1>2, <1>5, <2>1, <2>2 DEF CoverCore
  <2>4. QueueIsReady'
    BY <1>1, <1>4, <1>5 DEF QueueIsReady
  <2>5. StuckAtLast'
    BY <1>1, <1>5 DEF CoverInv, StuckAtLast, Fitting, Leftovers, PredecessorIsPlaced
  <2> QED BY <1>1, <1>5, <2>3, <2>4, <2>5 DEF CoverInv, StuckSoFar, Advances
<1>6. ASSUME NEW v \in Victims(o), covered' \in Swaps(o, v), moved' = moved \cup {v}, inserted'
      PROVE  CoverInv' /\ Advances
  <2>1. v \in DOMAIN covered
    BY DEF Victims
  <2>2. AllSitWell(covered) /\ v \in Ops
    BY <1>2, <2>1, TypedFacts DEF CoverCore, AllSitWell
  <2>3. Swapped(o, v, covered')
    BY <1>4, <1>6, <2>1, <2>2, SwapsKeepTheRest
  <2>4. /\ AllSitWell(covered') /\ DOMAIN covered' = DOMAIN covered \cup {o}
        /\ \A x \in DOMAIN covered \ {v} : covered'[x] = covered[x]
        /\ Separated(Without(v)) => Separated(covered')
    BY <2>3 DEF Swapped
  <2>5. ChangeoversAddUp /\ Separated(covered) => Separated(covered')
    <3>1. /\ DOMAIN Without(v) = DOMAIN covered \ {v}
          /\ \A x \in DOMAIN covered \ {v} : Without(v)[x] = covered[x]
      BY <2>1, <2>2, WithoutSitsWell
    <3> QED BY <2>1, <2>2, <2>4, <3>1, RemovalKeepsSeparated DEF AllSitWell
  <2>6. Advances
    BY <1>4, <2>2, <2>4, <2>5 DEF Advances
  <2>7. (moved' # {}) /\ (ChangeoversAddUp => Separated(covered'))
    BY <1>2, <1>6, <2>5 DEF CoverCore
  <2>8. CoverCore'
    BY <1>1, <1>2, <1>6, <2>4, <2>7 DEF CoverCore
  <2>9. QueueIsReady'
    BY <1>1, <1>4, <2>4 DEF QueueIsReady
  <2> QED BY <1>1, <2>6, <2>7, <2>8, <2>9 DEF CoverInv, StuckSoFar, StuckAtLast
<1> QED BY <1>3, <1>5, <1>6

LEMMA RestKeeps ==
  ASSUME CoverInv, EndEjection \/ UNCHANGED coverVars
  PROVE  CoverInv' /\ Advances
<1>1. CASE EndEjection
  <2>1. phase = "eject" /\ phase' = "done"
        /\ UNCHANGED <<covered, ready, index, todo, progress, inserted, moved>>
    BY <1>1 DEF EndEjection
  <2>2. CoverCore'
    BY <2>1, FreshIndexKeepsCore DEF CoverInv
  <2>3. QueueIsReady'
    BY <2>1 DEF CoverInv, QueueIsReady
  <2> QED BY <2>1, <2>2, <2>3 DEF CoverInv, StuckSoFar, StuckAtLast, Advances
<1>2. CASE UNCHANGED coverVars
  <2>1. UNCHANGED <<rule, phase, covered, ready, attempts, index, todo, progress, inserted, moved>>
    BY <1>2 DEF coverVars
  <2>2. CoverCore'
    BY <2>1, FreshIndexKeepsCore DEF CoverInv
  <2>3. QueueIsReady' /\ StuckSoFar' /\ StuckAtLast'
    BY <2>1 DEF CoverInv, QueueIsReady, StuckSoFar, StuckAtLast, Fitting, Leftovers, PredecessorIsPlaced
  <2> QED BY <2>1, <2>2, <2>3 DEF CoverInv, Advances
<1> QED BY <1>1, <1>2

LEMMA CoverNextKeeps == ASSUME CoverInv, [CoverNext]_coverVars PROVE CoverInv' /\ Advances
<1>1. CASE PlaceNext
  BY <1>1, PlaceNextKeeps
<1>2. CASE EndLoop
  BY <1>2, EndLoopKeeps
<1>3. CASE Retry
  BY <1>3, RetryKeeps
<1>4. CASE NextPass
  BY <1>4, NextPassKeeps
<1>5. CASE Eject
  BY <1>5, EjectKeeps
<1>6. CASE EndEjection \/ UNCHANGED coverVars
  BY <1>6, RestKeeps
<1> QED BY <1>1, <1>2, <1>3, <1>4, <1>5, <1>6 DEF CoverNext

LEMMA CoverInvHolds == CoverSpec => []CoverInv
<1>1. CoverInit => CoverInv
  BY CoverInitKeeps
<1>2. CoverInv /\ [CoverNext]_coverVars => CoverInv'
  BY CoverNextKeeps
<1> QED BY <1>1, <1>2, PTL DEF CoverSpec

-----------------------------------------------------------------------------
(* In every state, for every problem and whatever its changeovers are: no  *)
(* two operations of a machine are processed at a time, each sits where    *)
(* and when it may, changeovers and chains hold until an ejection, pools   *)
(* and shifts until a gap is filled (place_operations_list_schedule); and  *)
(* changeovers that add up hold through ejections as well.                 *)
THEOREM CoverStaysSound == CoverSpec => []CoverIsSound
<1>1. CoverInv => CoverIsSound
  <2> SUFFICES ASSUME CoverInv PROVE CoverIsSound
    OBVIOUS
  <2>1. CoverCore
    BY DEF CoverInv
  <2>2. (moved = {} => Separated(covered) /\ ChainsHold) /\ (ChangeoversAddUp => Separated(covered))
    BY <2>1 DEF CoverCore, InOrder
  <2>3. ~ inserted => PoolsAndShiftsHold(covered)
    BY <2>1 DEF CoverCore, AppendsOnly
  <2>4. NoneOverlap(covered) /\ \A o \in DOMAIN covered : SitsWell(covered, o)
    BY <2>1 DEF CoverCore, AllSitWell
  <2> QED BY <2>2, <2>3, <2>4 DEF CoverIsSound, SitsWell, PoolsAndShiftsHold
<1> QED BY <1>1, CoverInvHolds, PTL

(* The waves of retries leave no operation with a hard window behind that  *)
(* would fit, as far as the index of the wave can tell; and when they are  *)
(* over, none that really fits unless it holds a resource and some gap was *)
(* filled (_retry_windowed_leftovers).                                     *)
THEOREM RetriesExhaust == CoverSpec => []LeftoversAreStuck
<1>1. CoverInv => LeftoversAreStuck
  <2>1. SUFFICES ASSUME CoverInv PROVE LeftoversAreStuck
    OBVIOUS
  <2>2. ASSUME phase = "steal", todo = {}, ~ progress
        PROVE  Fitting([o \in Ops |-> WindowsSeenBy(index, o)]) = {}
    BY <2>1, <2>2 DEF CoverInv, StuckSoFar, Fitting, Leftovers
  <2> QED BY <2>1, <2>2 DEF CoverInv, StuckAtLast, LeftoversAreStuck
<1> QED BY <1>1, CoverInvHolds, PTL

(* A step places at most one operation more, and at most one other moves,  *)
(* when it does; none is ever lost (_eject_one_windowed_leftover puts a    *)
(* victim back unless both find a place).                                  *)
LEMMA AdvancesLoseNothing ==
  ASSUME Typed(covered), Advances
  PROVE  LosesNothing
<1> DEFINE changed == {o \in DOMAIN covered : covered'[o] # covered[o]}
           gained == DOMAIN covered' \ DOMAIN covered
<1>1. Cardinality({}) = 0
  BY FS_EmptySet
<1>2. CASE covered' = covered
  <2>1. changed = {} /\ gained = {} /\ DOMAIN covered \subseteq DOMAIN covered'
    BY <1>2
  <2> HIDE DEF changed, gained
  <2>2. Cardinality(changed) <= Cardinality(gained) /\ Cardinality(gained) <= 1
    BY <1>1, <2>1
  <2> QED BY <2>1, <2>2 DEF LosesNothing, changed, gained
<1>3. ASSUME NEW o \in Ops \ DOMAIN covered, NEW v \in Ops,
             DOMAIN covered' = DOMAIN covered \cup {o},
             \A x \in DOMAIN covered \ {v} : covered'[x] = covered[x]
      PROVE  LosesNothing
  <2>1. gained = {o} /\ (changed = {} \/ changed = {v}) /\ DOMAIN covered \subseteq DOMAIN covered'
    BY <1>3
  <2> HIDE DEF changed, gained
  <2>2. Cardinality({o}) = 1 /\ Cardinality({v}) = 1
    BY FS_Singleton
  <2>3. Cardinality(changed) <= Cardinality(gained) /\ Cardinality(gained) <= 1
    BY <1>1, <2>1, <2>2
  <2> QED BY <2>1, <2>3 DEF LosesNothing, changed, gained
<1> QED BY <1>2, <1>3 DEF Advances

THEOREM NoPlaceIsLost == CoverSpec => NothingIsLost
<1>1. CoverInv /\ [CoverNext]_coverVars => [LosesNothing]_covered
  <2>1. SUFFICES ASSUME CoverInv, [CoverNext]_coverVars PROVE LosesNothing
    OBVIOUS
  <2>2. Typed(covered)
    BY <2>1 DEF CoverInv, CoverCore, AllSitWell
  <2>3. Advances
    BY <2>1, CoverNextKeeps
  <2> QED BY <2>2, <2>3, AdvancesLoseNothing
<1> QED BY <1>1, CoverInvHolds, PTL DEF CoverSpec, NothingIsLost
=============================================================================
