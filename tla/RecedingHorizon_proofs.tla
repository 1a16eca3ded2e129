----------------------- MODULE RecedingHorizon_proofs -----------------------
(***************************************************************************)
(* The rolling-horizon solver, for every problem, every inner solver and   *)
(* every setting of its windows: what is committed is typed, holds the     *)
(* predecessors of its operations and keeps the chains in order under the  *)
(* gate (CommitmentStaysOrdered); what is sealed is not moved              *)
(* (SealedStays); a claim is true (ClaimsAreTrue).                         *)
(***************************************************************************)
EXTENDS RecedingHorizon, CpSatModel_proofs

(* What the assumptions say, for the provers to cite.                       *)
LEMMA RecedingFacts ==
  /\ None \notin Ops /\ None \notin Int /\ None \notin {"feasible", "error"}
  /\ IsFiniteSet(Ops)
  /\ PredecessorOf \in [Ops -> Ops \cup {None}]
  /\ Earliest \in [Ops -> Nat] /\ OpenFrom \in [Ops -> Nat] /\ SeqRank \in [Ops -> Nat]
  /\ \A o \in Ops : EligibleFor[o] \subseteq Machines
  /\ Horizon \in Int /\ HorizonEnd \in Int
  /\ Incumbents \subseteq [Ops -> Assignment]
  /\ \A i \in Incumbents, o \in Ops : i[o].end = i[o].start + Duration[o][i[o].wc]
  /\ \A o \in Ops : PredecessorOf[o] # None => SeqRank[PredecessorOf[o]] < SeqRank[o]
<1>1. \A o \in Ops : EligibleFor[o] \subseteq Machines
  BY DispatchTimelineAssumption DEF DispatchTimelineAssumption
<1>6. None \notin Ops /\ None \notin Int
  BY ProblemFacts
<1>7. IsFiniteSet(Ops)
  BY DispatchTimelineAssumption DEF DispatchTimelineAssumption
<1>2. PredecessorOf \in [Ops -> Ops \cup {None}] /\ HorizonEnd \in Int
  BY PrecedenceAssumption, FeasibilityCheckerAssumption
     DEF PrecedenceAssumption, FeasibilityCheckerAssumption
<1>3. Earliest \in [Ops -> Nat] /\ OpenFrom \in [Ops -> Nat]
  BY RecedingHorizonAssumption DEF RecedingHorizonAssumption
<1>4. SeqRank \in [Ops -> Nat]
  BY RecedingHorizonAssumption DEF RecedingHorizonAssumption
<1>5. /\ Horizon \in Int /\ None \notin {"feasible", "error"}
      /\ Incumbents \subseteq [Ops -> Assignment]
      /\ \A i \in Incumbents, o \in Ops : i[o].end = i[o].start + Duration[o][i[o].wc]
      /\ \A o \in Ops : PredecessorOf[o] # None => SeqRank[PredecessorOf[o]] < SeqRank[o]
  BY RecedingHorizonAssumption DEF RecedingHorizonAssumption
<1> QED BY <1>1, <1>2, <1>3, <1>4, <1>5, <1>6, <1>7

-----------------------------------------------------------------------------
(* Sets of operations. *)

(* What is closed is part of what was asked, and holds its predecessors.   *)
LEMMA ClosedFacts ==
  ASSUME NEW ops, NEW resolved
  PROVE  Closed(ops, resolved) \subseteq ops /\ HoldsPredecessors(Closed(ops, resolved), resolved)
<1>1. ASSUME NEW o \in Closed(ops, resolved)
      PROVE  o \in ops /\ PredecessorOf[o] \in {None} \cup resolved \cup Closed(ops, resolved)
  <2>1. PICK s \in SUBSET ops : HoldsPredecessors(s, resolved) /\ o \in s
    BY DEF Closed
  <2>2. s \subseteq Closed(ops, resolved)
    BY <2>1 DEF Closed
  <2> QED BY <2>1, <2>2 DEF HoldsPredecessors
<1> QED BY <1>1 DEF HoldsPredecessors

(* Expanding with predecessors takes nothing that is resolved.             *)
LEMMA ExpansionStaysOpen ==
  ASSUME NEW resolved, NEW ops \in SUBSET (Ops \ resolved)
  PROVE  WithPredecessors(ops, resolved) \subseteq Ops \ resolved
<1> DEFINE all == Ops \ resolved
<1>1. all \in SUBSET Ops /\ ops \subseteq all /\ HoldsPredecessors(all, resolved)
  BY RecedingFacts DEF HoldsPredecessors
<1> QED BY <1>1 DEF WithPredecessors

(* The first of a set belong to the set.                                    *)
LEMMA FirstByIsPart ==
  ASSUME NEW rank, NEW ops, NEW n PROVE FirstBy(rank, ops, n) \subseteq ops
BY DEF FirstBy

(* What is ready is a candidate.                                            *)
LEMMA ReadyIsPart ==
  ASSUME NEW ops, NEW end, NEW resolved PROVE Ready(ops, end, resolved) \subseteq ops
BY ClosedFacts DEF Ready

(* Only what is not committed becomes a candidate of a window.             *)
LEMMA CandidatesAreOpen ==
  ASSUME NEW end, frontier \subseteq Ops, tail \subseteq Ops
  PROVE  CandidatesOf(end) \subseteq Uncommitted
<1>1. FrontierUpTo(reach, frontier, end) \subseteq Uncommitted
  BY DEF FrontierUpTo, Uncommitted
<1>2. Recovered(end) \subseteq Uncommitted
  <2>1. FirstBy(EarliestRank, {o \in Uncommitted : Earliest[o] < end}, PoolLimit) \subseteq Uncommitted
    BY FirstByIsPart
  <2> QED BY <2>1 DEF Recovered, Uncommitted
<1>3. RawCandidates(end) \subseteq Uncommitted
  BY <1>1, <1>2, ReadyIsPart DEF RawCandidates
<1>4. ASSUME NEW raw \in SUBSET Uncommitted
      PROVE  PastAdmission(raw, end) \subseteq Uncommitted
  BY DEF PastAdmission, PastGate, AdmittedBy
<1>5. ASSUME NEW ops \in SUBSET Uncommitted
      PROVE  Scanned(ops, end, Resolved) \subseteq Uncommitted
  <2> DEFINE more == FirstBy(EarliestRank, Uncommitted \ ops, Larger(1, PoolLimit - Cardinality(ops)))
             found == Ready(ops \cup more, end, Resolved)
  <2>1. more \subseteq Uncommitted
    BY FirstByIsPart
  <2>2. found \subseteq Uncommitted
    <3> HIDE DEF more
    <3> QED BY <2>1, ReadyIsPart
  <2>3. Scanned(ops, end, Resolved) \in {ops, found}
    BY DEF Scanned, FullScan
  <2> HIDE DEF found
  <2> QED BY <2>2, <2>3
<1>6. ASSUME NEW ops \in SUBSET Uncommitted
      PROVE  Clamped(ops) \subseteq Uncommitted
  BY DEF Clamped
<1>7. CandidatesOf(end) = Clamped(Scanned(PastAdmission(RawCandidates(end), end), end, Resolved))
  BY DEF CandidatesOf
<1> QED BY <1>3, <1>4, <1>5, <1>6, <1>7

-----------------------------------------------------------------------------
(* Placing a list of operations. *)

(* What an attempt to place some operations on a timeline keeps at each    *)
(* step: the timeline as it was, more of the operations, and each of these *)
(* behind its predecessor.                                                 *)
Attempt(placed, ops, sofar) ==
  /\ DOMAIN sofar = {"plan", "cache", "log", "todo"}
  /\ Typed(sofar.plan) /\ CachesTimes(sofar.cache) /\ sofar.todo \subseteq ops
  /\ DOMAIN placed \subseteq DOMAIN sofar.plan /\ DOMAIN sofar.plan \subseteq DOMAIN placed \cup ops
  /\ \A o \in DOMAIN placed : sofar.plan[o] = placed[o]
  /\ \A o \in DOMAIN sofar.plan \ DOMAIN placed :
       PredecessorOf[o] # None =>
         /\ PredecessorOf[o] \in DOMAIN sofar.plan
         /\ sofar.plan[PredecessorOf[o]].end <= sofar.plan[o].start

(* The floor of an operation is behind its predecessor. *)
LEMMA FloorIsBound ==
  ASSUME NEW caller, NEW placed, Typed(placed), NEW o \in Ops,
         PredecessorOf[o] \in {None} \cup DOMAIN placed
  PROVE  /\ FloorIn(caller, placed, o) \in Int
         /\ PredecessorOf[o] # None => placed[PredecessorOf[o]].end <= FloorIn(caller, placed, o)
<1> DEFINE ended == IF PredecessorOf[o] = None THEN 0 ELSE placed[PredecessorOf[o]].end
<1>1. ended \in Int
  BY TypedFacts
<1>2. Earliest[o] \in Int /\ OpenFrom[o] \in Int
  BY RecedingFacts
<1>3. FloorIn(caller, placed, o) \in {Larger(Earliest[o], ended), Larger(OpenFrom[o], ended)}
  BY DEF FloorIn, CoverFloor, ChainFloor
<1> HIDE DEF ended
<1>4. FloorIn(caller, placed, o) \in Int /\ ended <= FloorIn(caller, placed, o)
  BY <1>1, <1>2, <1>3 DEF Larger
<1> QED BY <1>4 DEF ended

(* Whatever slot is found is on one of the machines, for the duration of   *)
(* the operation there and not before the floor.                           *)
LEMMA BestSlotsFit ==
  ASSUME NEW placed, Timeline(placed), NEW seen, EndsAreTimes(seen), NEW o \in Ops,
         NEW machines \in SUBSET Machines, NEW floor \in Int, NEW limit,
         NEW slot \in BestSlots(placed, seen, o, machines, floor, limit)
  PROVE  /\ slot \in Assignment
         /\ slot.wc \in Machines /\ slot.start \in Int
         /\ slot.end = slot.start + Duration[o][slot.wc]
         /\ floor <= slot.start
<1>1. PICK m \in machines : slot \in EarliestSlots(placed, seen, "all", o, m, floor)
  BY DEF BestSlots
<1>2. PICK g \in GapsScanned(placed, "all", o, m, floor) :
        slot \in SlotsInGap(placed, seen, o, m, floor, g[1], g[2])
  BY <1>1 DEF EarliestSlots
<1>3. Neighbour(placed, m, g[1]) /\ Neighbour(placed, m, g[2])
  BY <1>2, ScannedGapIsBounded
<1>4. SlotFits(placed, o, m, floor, g[1], g[2], slot)
  BY <1>2, <1>3, SlotInGapFits
<1> QED BY <1>4 DEF SlotFits

(* An operation that may be placed is, on such a slot, or is left.         *)
LEMMA PlacedOrLeft ==
  ASSUME NEW placed, NEW ops \in SUBSET Ops, NEW sofar, Attempt(placed, ops, sofar),
         NEW o \in ops, NEW most, MayPlace(sofar, o, most),
         NEW cache, CachesTimes(cache), NEW machines \in SUBSET Machines, NEW floor \in Int,
         PredecessorOf[o] # None => sofar.plan[PredecessorOf[o]].end <= floor,
         NEW limit, NEW next \in PlaceOne(sofar, cache, o, machines, floor, limit)
  PROVE  Attempt(placed, ops, next)
<1> DEFINE seen == WindowsSeenBy(cache, o)
           best == BestSlots(sofar.plan, seen, o, machines, floor, limit)
<1>1. EndsAreTimes(seen) /\ Timeline(sofar.plan) /\ o \in Ops \ DOMAIN sofar.plan
  BY SeenWindowsAreTimes DEF Attempt, Typed, MayPlace
<1>2. CASE next = [sofar EXCEPT !.cache = cache, !.todo = @ \ {o}]
  <2>1. /\ DOMAIN next = {"plan", "cache", "log", "todo"}
        /\ next.plan = sofar.plan /\ next.cache = cache /\ next.todo = sofar.todo \ {o}
    BY <1>2 DEF Attempt
  <2> QED BY <2>1 DEF Attempt
<1>3. ASSUME NEW slot \in best, next = Added(sofar, cache, o, slot)
      PROVE  Attempt(placed, ops, next)
  <2> DEFINE new == PlaceAt(sofar.plan, o, slot)
  <2>1. /\ slot \in Assignment /\ slot.wc \in Machines /\ slot.start \in Int
        /\ slot.end = slot.start + Duration[o][slot.wc] /\ floor <= slot.start
    <3> HIDE DEF seen
    <3> QED BY <1>1, BestSlotsFit
  <2>2. /\ DOMAIN new = DOMAIN sofar.plan \cup {o} /\ new[o] = slot
        /\ \A x \in DOMAIN sofar.plan : new[x] = sofar.plan[x]
    BY <1>1 DEF PlaceAt
  <2>3. /\ DOMAIN next = {"plan", "cache", "log", "todo"}
        /\ next.plan = new /\ next.cache = CacheAfterAdd(cache, new, o) /\ next.todo = sofar.todo \ {o}
    BY <1>3 DEF Added
  <2> HIDE DEF new
  <2>4. Typed(new)
    <3>1. Typed(sofar.plan)
      BY DEF Attempt
    <3> QED BY <1>1, <2>1, <2>2, <3>1 DEF Typed, Timeline
  <2>5. CachesTimes(next.cache)
    BY <2>2, <2>3, <2>4, CacheAfterAddKeepsTimes DEF Typed
  <2>6. /\ DOMAIN placed \subseteq DOMAIN new /\ DOMAIN new \subseteq DOMAIN placed \cup ops
        /\ \A x \in DOMAIN placed : new[x] = placed[x] /\ x # o
    BY <1>1, <2>2 DEF Attempt
  <2>7. ASSUME NEW x \in DOMAIN new \ DOMAIN placed, PredecessorOf[x] # None
        PROVE  PredecessorOf[x] \in DOMAIN new /\ new[PredecessorOf[x]].end <= new[x].start
    <3>1. CASE x = o
      <4>1. PredecessorOf[o] \in DOMAIN sofar.plan
        BY <2>7, <3>1 DEF MayPlace
      <4>2. sofar.plan[PredecessorOf[o]].end \in Int
        BY <4>1, TypedFacts DEF Attempt
      <4>3. sofar.plan[PredecessorOf[o]].end <= floor
        BY <2>7, <3>1
      <4> QED BY <2>1, <2>2, <3>1, <4>1, <4>2, <4>3
    <3>2. CASE x # o
      <4>1. x \in DOMAIN sofar.plan \ DOMAIN placed
        BY <2>2, <2>7, <3>2
      <4>2. /\ PredecessorOf[x] \in DOMAIN sofar.plan
            /\ sofar.plan[PredecessorOf[x]].end <= sofar.plan[x].start
        BY <2>7, <4>1 DEF Attempt
      <4> QED BY <2>2, <4>1, <4>2
    <3> QED BY <3>1, <3>2
  <2>8. sofar.todo \subseteq ops
    BY DEF Attempt
  <2> QED BY <2>3, <2>4, <2>5, <2>6, <2>7, <2>8 DEF Attempt
<1>4. next = [sofar EXCEPT !.cache = cache, !.todo = @ \ {o}]
      \/ \E slot \in best : next = Added(sofar, cache, o, slot)
  BY DEF PlaceOne
<1> QED BY <1>2, <1>3, <1>4

(* A turn of the sweeps keeps all this. *)
LEMMA TurnsKeepAttempt ==
  ASSUME NEW placed, NEW ops \in SUBSET Ops, NEW sofar, Attempt(placed, ops, sofar),
         NEW caller, NEW rank, NEW machines, \A o \in ops : machines[o] \subseteq Machines,
         NEW limit, NEW most, NEW next \in Turn(caller, ops, rank, machines, limit, most, sofar)
  PROVE  Attempt(placed, ops, next)
<1>1. CASE sofar.todo = {}
  <2>1. next = [sofar EXCEPT !.todo = ops]
    BY <1>1 DEF Turn
  <2>2. /\ DOMAIN next = {"plan", "cache", "log", "todo"}
        /\ next.plan = sofar.plan /\ next.cache = sofar.cache /\ next.todo = ops
    BY <2>1 DEF Attempt
  <2> QED BY <2>2 DEF Attempt
<1>2. CASE sofar.todo # {}
  <2>1. PICK o \in sofar.todo : next \in Visit(caller, machines, limit, most, sofar, o)
    BY <1>2 DEF Turn
  <2>2. o \in ops
    BY <2>1 DEF Attempt
  <2>3. CASE ~ MayPlace(sofar, o, most)
    <3>1. next = [sofar EXCEPT !.todo = @ \ {o}]
      BY <2>1, <2>3 DEF Visit
    <3>2. /\ DOMAIN next = {"plan", "cache", "log", "todo"}
          /\ next.plan = sofar.plan /\ next.cache = sofar.cache /\ next.todo = sofar.todo \ {o}
      BY <3>1 DEF Attempt
    <3> QED BY <3>2 DEF Attempt
  <2>4. CASE MayPlace(sofar, o, most)
    <3> DEFINE cache == CachedFor(sofar.plan, sofar.cache, {RequiredBy(o)})
               floor == FloorIn(caller, sofar.plan, o)
    <3>1. next \in PlaceOne(sofar, cache, o, machines[o], floor, limit)
      BY <2>1, <2>4 DEF Visit
    <3>2. CachesTimes(cache)
      BY CachedForKeepsTimes DEF Attempt, Typed
    <3>3. /\ floor \in Int
          /\ PredecessorOf[o] # None => sofar.plan[PredecessorOf[o]].end <= floor
      BY <2>2, <2>4, FloorIsBound DEF Attempt, MayPlace
    <3> HIDE DEF cache, floor
    <3> QED BY <2>2, <2>4, <3>1, <3>2, <3>3, PlacedOrLeft
  <2> QED BY <2>3, <2>4
<1> QED BY <1>1, <1>2

(* The turns a placement takes, one after the other. *)
AfterTurn(caller, ops, rank, machines, limit, most, before) ==
  UNION {Turn(caller, ops, rank, machines, limit, most, sofar) : sofar \in before}

Turns(caller, ops, rank, machines, limit, most, start, n, after) ==
  after = [k \in 0 .. n |->
             IF k = 0 THEN {start}
             ELSE UNION {Turn(caller, ops, rank, machines, limit, most, sofar) : sofar \in after[k - 1]}]

TurnByTurn(caller, ops, rank, machines, limit, most, start, n, after) ==
  \A k \in 0 .. n :
    after[k] = IF k = 0 THEN {start}
               ELSE AfterTurn(caller, ops, rank, machines, limit, most, after[k - 1])

(* The turns of PlaceAll, by their recursion.                               *)
LEMMA TurnsEquation ==
  ASSUME NEW caller, NEW ops, NEW rank, NEW machines, NEW limit, NEW most, NEW start,
         NEW n \in Nat, NEW after, Turns(caller, ops, rank, machines, limit, most, start, n, after)
  PROVE  TurnByTurn(caller, ops, rank, machines, limit, most, start, n, after)
<1> DEFINE value(k) == IF k = 0 THEN {start}
                       ELSE AfterTurn(caller, ops, rank, machines, limit, most, after[k - 1])
<1>1. after = [k \in 0 .. n |-> value(k)]
  BY DEF Turns, AfterTurn
<1> HIDE DEF value
<1>2. \A k \in 0 .. n : after[k] = value(k)
  BY <1>1
<1> QED BY <1>2 DEF value, TurnByTurn

(* The recursion of the turns has a solution.                               *)
LEMMA TurnsExist ==
  ASSUME NEW caller, NEW ops, NEW rank, NEW machines, NEW limit, NEW most, NEW start, NEW n \in Nat
  PROVE  \E after : Turns(caller, ops, rank, machines, limit, most, start, n, after)
<1> DEFINE Taken(k, after) == Turns(caller, ops, rank, machines, limit, most, start, k, after)
           next(before) == AfterTurn(caller, ops, rank, machines, limit, most, before)
           Bad == {k \in Nat : ~ \E after : Taken(k, after)}
<1>1. ASSUME NEW k \in Nat, NEW h, h = [j \in 0 .. k |-> IF j = 0 THEN {start} ELSE next(h[j - 1])]
      PROVE  Taken(k, h)
  BY <1>1 DEF Turns, AfterTurn
<1>2. 0 \notin Bad
  <2> DEFINE h == [j \in 0 .. 0 |-> {start}]
  <2>1. h = [j \in 0 .. 0 |-> IF j = 0 THEN {start} ELSE next(h[j - 1])]
    <3> HIDE DEF next
    <3> QED OBVIOUS
  <2> HIDE DEF h, next, Taken
  <2> QED BY <1>1, <2>1
<1>3. ASSUME NEW k \in Nat, k # 0, k - 1 \notin Bad PROVE k \notin Bad
  <2>1. k - 1 \in Nat
    BY <1>3
  <2>2. PICK g : Taken(k - 1, g)
    BY <1>3, <2>1
  <2>3. \A j \in 0 .. k - 1 : g[j] = IF j = 0 THEN {start} ELSE next(g[j - 1])
    <3>1. TurnByTurn(caller, ops, rank, machines, limit, most, start, k - 1, g)
      BY <2>1, <2>2, TurnsEquation
    <3> QED BY <3>1 DEF TurnByTurn
  <2> DEFINE h == [j \in 0 .. k |-> IF j = k THEN next(g[k - 1]) ELSE g[j]]
  <2>4. ASSUME NEW j \in 0 .. k PROVE h[j] = IF j = 0 THEN {start} ELSE next(h[j - 1])
    <3> HIDE DEF next, Taken
    <3>1. CASE j = k
      <4>1. h[j] = next(g[k - 1]) /\ h[j - 1] = g[k - 1]
        BY <1>3, <3>1
      <4> QED BY <1>3, <3>1, <4>1
    <3>2. CASE j # k
      <4>1. j \in 0 .. k - 1 /\ h[j] = g[j] /\ (j # 0 => j - 1 \in 0 .. k /\ h[j - 1] = g[j - 1])
        BY <3>2
      <4> QED BY <2>3, <4>1
    <3> QED BY <3>1, <3>2
  <2>5. DOMAIN h = 0 .. k /\ h = [j \in 0 .. k |-> h[j]]
    OBVIOUS
  <2> HIDE DEF h, next, Taken
  <2>6. h = [j \in 0 .. k |-> IF j = 0 THEN {start} ELSE next(h[j - 1])]
    BY <2>4, <2>5
  <2> QED BY <1>1, <2>6
<1>4. Bad = {}
  <2>1. SUFFICES ASSUME Bad # {} PROVE FALSE
    OBVIOUS
  <2>2. Bad \in SUBSET Nat
    OBVIOUS
  <2> HIDE DEF Bad
  <2>3. PICK k \in Bad : \A j \in Bad : k <= j
    BY <2>1, <2>2, LeastNatural
  <2>4. k \in Nat /\ k # 0 /\ k - 1 \in Nat /\ k - 1 \notin Bad
    BY <1>2, <2>2, <2>3
  <2> QED BY <1>3, <2>3, <2>4
<1> QED BY <1>4

(* What PlaceAll answers is what its last turn leaves.                      *)
LEMMA OutcomesAreTurns ==
  ASSUME NEW caller, NEW placed, NEW ops \in SUBSET Ops, NEW rank, NEW machines, NEW limit, NEW most
  PROVE  \E n \in Nat : \E after :
           /\ Turns(caller, ops, rank, machines, limit, most,
                    [plan |-> placed, cache |-> [k \in {} |-> None], log |-> << >>, todo |-> ops], n, after)
           /\ PlaceAll(caller, placed, ops, rank, machines, limit, most) = after[n]
<1> DEFINE n == (Cardinality(ops) + 1) * (Cardinality(ops) + 1)
           start == [plan |-> placed, cache |-> [k \in {} |-> None], log |-> << >>, todo |-> ops]
           after == CHOOSE f : Turns(caller, ops, rank, machines, limit, most, start, n, f)
<1>1. n \in Nat
  <2>1. Cardinality(ops) \in Nat
    BY RecedingFacts, FS_Subset, FS_CardinalityType
  <2> QED BY <2>1
<1>2. PlaceAll(caller, placed, ops, rank, machines, limit, most) = after[n]
  BY DEF PlaceAll, Turns
<1>3. Turns(caller, ops, rank, machines, limit, most, start, n, after)
  <2> HIDE DEF n, start
  <2> QED BY <1>1, TurnsExist
<1> QED BY <1>1, <1>2, <1>3

(* Every outcome of a placement is such an attempt. *)
LEMMA OutcomesAreAttempts ==
  ASSUME NEW caller, NEW placed, Typed(placed), NEW ops \in SUBSET Ops, NEW rank,
         NEW machines, \A o \in ops : machines[o] \subseteq Machines, NEW limit, NEW most,
         NEW outcome \in PlaceAll(caller, placed, ops, rank, machines, limit, most)
  PROVE  Attempt(placed, ops, outcome)
<1> DEFINE start == [plan |-> placed, cache |-> [k \in {} |-> None], log |-> << >>, todo |-> ops]
<1>0. PICK n \in Nat : \E after :
        /\ Turns(caller, ops, rank, machines, limit, most, start, n, after)
        /\ PlaceAll(caller, placed, ops, rank, machines, limit, most) = after[n]
  BY OutcomesAreTurns
<1>1. PICK after :
        /\ Turns(caller, ops, rank, machines, limit, most, start, n, after)
        /\ PlaceAll(caller, placed, ops, rank, machines, limit, most) = after[n]
  BY <1>0
<1>2. Attempt(placed, ops, start)
  BY DEF Attempt, CachesTimes
<1> DEFINE Bad == {k \in 0 .. n : \E sofar \in after[k] : ~ Attempt(placed, ops, sofar)}
<1> HIDE DEF start
<1>3. \A k \in 0 .. n :
        after[k] = IF k = 0 THEN {start}
                   ELSE AfterTurn(caller, ops, rank, machines, limit, most, after[k - 1])
  <2>1. TurnByTurn(caller, ops, rank, machines, limit, most, start, n, after)
    BY <1>1, TurnsEquation
  <2> QED BY <2>1 DEF TurnByTurn
<1>4. Bad = {}
  <2>1. SUFFICES ASSUME Bad # {} PROVE FALSE
    OBVIOUS
  <2>2. Bad \in SUBSET Nat /\ Bad \subseteq 0 .. n
    OBVIOUS
  <2>3. PICK k \in Bad : \A j \in Bad : k <= j
    <3> HIDE DEF Bad
    <3> QED BY <2>1, <2>2, LeastNatural
  <2>4. PICK sofar \in after[k] : ~ Attempt(placed, ops, sofar)
    BY <2>3
  <2>5. k # 0
    BY <1>2, <1>3, <2>3, <2>4
  <2>6. k - 1 \in 0 .. n /\ k - 1 \notin Bad
    <3> HIDE DEF Bad
    <3> QED BY <2>2, <2>3, <2>5
  <2>7. PICK before \in after[k - 1] :
          sofar \in Turn(caller, ops, rank, machines, limit, most, before)
    <3>1. after[k] = AfterTurn(caller, ops, rank, machines, limit, most, after[k - 1])
      BY <1>3, <2>2, <2>5
    <3> QED BY <2>4, <3>1 DEF AfterTurn
  <2>8. Attempt(placed, ops, before)
    BY <2>6, <2>7
  <2> QED BY <2>4, <2>7, <2>8, TurnsKeepAttempt
<1>5. n \in 0 .. n
  OBVIOUS
<1> QED BY <1>1, <1>4, <1>5

-----------------------------------------------------------------------------
(* The stabilizer. *)

(* Starts that hang on one another: f has that of each operation, from     *)
(* that of the one below it.                                               *)
Computes(f, D, below, step, first) ==
  /\ f \in [D -> Int]
  /\ \A o \in D : f[o] = IF below[o] \in D THEN step[o][f[below[o]]] ELSE first[o]

Falls(D, below, rank) == \A o \in D : below[o] \in D => rank[below[o]] < rank[o]

Steps(D, step) == \A o \in D, t \in Int : step[o][t] \in Int

(* Along falling ranks they can be computed.                               *)
LEMMA StartsExist ==
  ASSUME NEW D, IsFiniteSet(D), NEW rank \in [D -> Int], NEW below,
         Falls(D, below, rank), NEW first \in [D -> Int], NEW step, Steps(D, step)
  PROVE  \E f : Computes(f, D, below, step, first)
<1> DEFINE Down(u) == \A o \in u : below[o] \in D => below[o] \in u
           Solves(f, u) == \A o \in u : f[o] = IF below[o] \in D THEN step[o][f[below[o]]] ELSE first[o]
           Has(u) == \E f \in [u -> Int] : Solves(f, u)
           Bad == {u \in SUBSET D : Down(u) /\ ~ Has(u)}
<1>1. SUFFICES ASSUME Bad # {} PROVE FALSE
  <2>1. Down(D)
    OBVIOUS
  <2>2. Has(D)
    BY <1>1, <2>1
  <2> QED BY <2>2 DEF Computes
<1>2. PICK u \in Bad : \A v \in SUBSET u : v \in Bad => v = u
  <2>1. Bad \in SUBSET SUBSET D
    OBVIOUS
  <2> HIDE DEF Bad
  <2> QED BY <1>1, <2>1, MinimalSubset
<1>3. u \in SUBSET D /\ Down(u) /\ ~ Has(u) /\ IsFiniteSet(u)
  BY <1>2, FS_Subset
<1>4. u # {}
  <2>1. ASSUME u = {} PROVE Has(u)
    <3>1. [o \in {} |-> 0] \in [u -> Int]
      BY <2>1
    <3> QED BY <2>1, <3>1
  <2> QED BY <1>3, <2>1
<1>5. PICK x \in u : \A y \in u : rank[y] <= rank[x]
  <2> DEFINE r == [o \in u |-> rank[o]]
  <2>1. r \in [u -> Int] /\ \A o \in u : r[o] = rank[o]
    BY <1>3
  <2> HIDE DEF r
  <2>2. PICK x \in u : \A y \in u : r[y] <= r[x]
    BY <1>3, <1>4, <2>1, LargestElement
  <2> QED BY <2>1, <2>2
<1> DEFINE v == u \ {x}
<1>6. \A o \in u : below[o] # x
  <2>1. ASSUME NEW o \in u, below[o] = x PROVE FALSE
    <3>1. o \in D /\ x \in D /\ rank[x] < rank[o] /\ rank[o] <= rank[x]
      BY <1>3, <1>5, <2>1 DEF Falls
    <3>2. rank[x] \in Int /\ rank[o] \in Int
      BY <3>1
    <3> QED BY <3>1, <3>2
  <2> QED BY <2>1
<1>7. v \in SUBSET D /\ v \in SUBSET u /\ v # u /\ Down(v)
  BY <1>3, <1>5, <1>6
<1>8. Has(v)
  <2> HIDE DEF Has, Down
  <2>1. v \notin Bad
    BY <1>2, <1>7
  <2> QED BY <1>7, <2>1
<1>9. PICK f \in [v -> Int] : Solves(f, v)
  BY <1>8
<1> DEFINE value == IF below[x] \in D THEN step[x][f[below[x]]] ELSE first[x]
           g == [o \in u |-> IF o = x THEN value ELSE f[o]]
<1>10. below[x] \in D => below[x] \in v
  BY <1>3, <1>5, <1>6
<1>11. value \in Int
  BY <1>3, <1>5, <1>9, <1>10 DEF Steps
<1>12. g \in [u -> Int] /\ g[x] = value /\ \A o \in v : g[o] = f[o]
  <2> HIDE DEF value
  <2> QED BY <1>5, <1>9, <1>11
<1>13. ASSUME NEW o \in u
       PROVE  g[o] = IF below[o] \in D THEN step[o][g[below[o]]] ELSE first[o]
  <2>1. below[o] \in D => below[o] \in v
    BY <1>3, <1>6
  <2>2. below[o] \in D => g[below[o]] = f[below[o]]
    <3> HIDE DEF g, v
    <3> QED BY <1>12, <2>1
  <2>3. CASE o = x
    <3> HIDE DEF g, v
    <3> QED BY <1>12, <2>2, <2>3 DEF value
  <2>4. CASE o # x
    <3>1. o \in v /\ g[o] = f[o]
      <4> HIDE DEF g
      <4> QED BY <1>12, <2>4
    <3>2. f[o] = IF below[o] \in D THEN step[o][f[below[o]]] ELSE first[o]
      BY <1>9, <3>1
    <3> HIDE DEF g, v
    <3> QED BY <2>2, <3>1, <3>2
  <2> QED BY <2>3, <2>4
<1> HIDE DEF g, v
<1>14. Has(u)
  BY <1>12, <1>13
<1> QED BY <1>3, <1>14

(* What the stabilizer keeps of the plan it is given. *)
Kept(now) ==
  /\ DOMAIN now = {"plan", "moved", "blocked"}
  /\ Typed(now.plan) /\ DOMAIN now.plan = DOMAIN plan
  /\ \A o \in sealed \cap DOMAIN plan : now.plan[o] = plan[o]

(* The chains in order, as far as they are not sealed. *)
InOrder(now) ==
  \A o \in DOMAIN now.plan : o \notin sealed /\ PredecessorOf[o] \in DOMAIN now.plan =>
    now.plan[PredecessorOf[o]].end <= now.plan[o].start

(* Two assignments that agree on every field are the same.                  *)
LEMMA SameAssignment ==
  ASSUME NEW r \in Assignment, NEW q \in Assignment,
         r.wc = q.wc, r.start = q.start, r.end = q.end, r.setup = q.setup
  PROVE  r = q
<1>1. PICK m \in Machines, s \in Int, e \in Int, u \in Nat :
        r = [wc |-> m, start |-> s, end |-> e, setup |-> u]
  BY DEF Assignment
<1>2. PICK n \in Machines, t \in Int, f \in Int, v \in Nat :
        q = [wc |-> n, start |-> t, end |-> f, setup |-> v]
  BY DEF Assignment
<1> QED BY <1>1, <1>2

(* A plan moved to new starts keeps machines, setups and lengths.           *)
LEMMA StartingAtFacts ==
  ASSUME NEW placed, Typed(placed), NEW start \in [DOMAIN placed -> Int]
  PROVE  /\ Typed(StartingAt(placed, start)) /\ DOMAIN StartingAt(placed, start) = DOMAIN placed
         /\ \A o \in DOMAIN placed :
              /\ StartingAt(placed, start)[o].start = start[o]
              /\ StartingAt(placed, start)[o].end = start[o] + Length(placed[o])
              /\ start[o] = placed[o].start => StartingAt(placed, start)[o] = placed[o]
<1> DEFINE new == StartingAt(placed, start)
<1>1. DOMAIN new = DOMAIN placed
  BY DEF StartingAt
<1>2. ASSUME NEW o \in DOMAIN placed
      PROVE  /\ new[o] \in Assignment /\ o \in Ops /\ new[o].wc \in Machines
             /\ new[o].start = start[o] /\ new[o].end = start[o] + Length(placed[o])
             /\ new[o].end = new[o].start + Duration[o][new[o].wc]
             /\ start[o] = placed[o].start => new[o] = placed[o]
  <2>1. /\ placed[o] \in Assignment /\ o \in Ops
        /\ placed[o].end = placed[o].start + Duration[o][placed[o].wc]
    BY DEF Typed, Timeline
  <2>2. /\ placed[o].wc \in Machines /\ placed[o].start \in Int /\ placed[o].end \in Int
        /\ Duration[o][placed[o].wc] \in Int /\ start[o] \in Int
    BY <2>1, TypedFacts, ProblemFacts
  <2>3. new[o] = [placed[o] EXCEPT !.start = start[o], !.end = start[o] + Length(placed[o])]
    BY DEF StartingAt
  <2> DEFINE ended == start[o] + Length(placed[o])
  <2>4. /\ ended \in Int /\ ended = start[o] + Duration[o][placed[o].wc]
        /\ start[o] = placed[o].start => ended = placed[o].end
    BY <2>1, <2>2 DEF Length
  <2> HIDE DEF new, ended
  <2>5. /\ new[o] \in Assignment /\ new[o].wc = placed[o].wc /\ new[o].setup = placed[o].setup
        /\ new[o].start = start[o] /\ new[o].end = ended
    <3> DEFINE at == placed[o]
               from == start[o]
               q == new[o]
    <3>1. q = [at EXCEPT !.start = from, !.end = ended]
      BY <2>3 DEF ended
    <3>2. at \in Assignment /\ from \in Int /\ ended \in Int
      BY <2>1, <2>2, <2>4
    <3> HIDE DEF at, from, q
    <3>3. q \in Assignment /\ q.wc = at.wc /\ q.setup = at.setup /\ q.start = from /\ q.end = ended
      BY <3>1, <3>2 DEF Assignment
    <3> QED BY <3>3 DEF at, from, q
  <2>6. start[o] = placed[o].start => new[o] = placed[o]
    BY <2>1, <2>4, <2>5, SameAssignment
  <2> QED BY <2>1, <2>2, <2>4, <2>5, <2>6 DEF ended
<1>3. Typed(new)
  <2>1. DOMAIN placed \subseteq Ops
    BY DEF Typed, Timeline
  <2> HIDE DEF new
  <2> QED BY <1>1, <1>2, <2>1 DEF Typed, Timeline
<1> HIDE DEF new
<1>4. \A o \in DOMAIN placed :
        /\ new[o].start = start[o]
        /\ new[o].end = start[o] + Length(placed[o])
        /\ start[o] = placed[o].start => new[o] = placed[o]
  BY <1>2
<1> QED BY <1>1, <1>3, <1>4 DEF new

(* A sweep that leaves what is sealed where it is. *)
LEMMA SweepKeeps ==
  ASSUME NEW now, Kept(now), NEW start \in [DOMAIN plan -> Int],
         \A o \in sealed \cap DOMAIN plan : start[o] = now.plan[o].start, NEW stuck
  PROVE  Kept(Swept(now, start, stuck))
<1> DEFINE new == StartingAt(now.plan, start)
<1>1. Typed(now.plan) /\ DOMAIN now.plan = DOMAIN plan /\ start \in [DOMAIN now.plan -> Int]
  BY DEF Kept
<1>2. /\ Typed(new) /\ DOMAIN new = DOMAIN plan
      /\ \A o \in DOMAIN plan : start[o] = now.plan[o].start => new[o] = now.plan[o]
  BY <1>1, StartingAtFacts
<1>3. DOMAIN Swept(now, start, stuck) = {"plan", "moved", "blocked"} /\ Swept(now, start, stuck).plan = new
  BY DEF Swept
<1> HIDE DEF new
<1> QED BY <1>2, <1>3 DEF Kept

(* Along the chains: each operation starts when its predecessor, moved     *)
(* itself, has ended, or where it was.                                     *)
ChainStart(now, start, o) ==
  IF o \in sealed \/ PredecessorOf[o] \notin DOMAIN now.plan
    THEN now.plan[o].start
    ELSE Larger(now.plan[o].start,
                start[PredecessorOf[o]] + Length(now.plan[PredecessorOf[o]]))

(* The starts along the chains exist: a predecessor is earlier in its order. *)
LEMMA ChainStartsExist ==
  ASSUME NEW now, Kept(now)
  PROVE  \E start : start = [o \in DOMAIN now.plan |-> ChainStart(now, start, o)]
<1> DEFINE D == DOMAIN now.plan
           rank == [o \in D |-> SeqRank[o]]
           below == [o \in D |-> IF o \in sealed THEN None ELSE PredecessorOf[o]]
           first == [o \in D |-> now.plan[o].start]
           step == [o \in D |-> [t \in Int |->
                      Larger(now.plan[o].start, t + Length(now.plan[PredecessorOf[o]]))]]
<1>1. D \subseteq Ops /\ None \notin D /\ IsFiniteSet(D)
  <2>1. D \subseteq Ops
    BY DEF Kept, Typed, Timeline
  <2> HIDE DEF D
  <2> QED BY <2>1, RecedingFacts, FS_Subset
<1>2. \A o \in D : now.plan[o].start \in Int /\ now.plan[o].end \in Int
  BY TypedFacts DEF Kept
<1>3. rank \in [D -> Int] /\ first \in [D -> Int]
  <2> HIDE DEF D
  <2> QED BY <1>1, <1>2, RecedingFacts
<1>4. \A o \in D : below[o] \in D => rank[below[o]] < rank[o]
  <2>1. TAKE o \in D
  <2>2. HAVE below[o] \in D
  <2>3. below[o] = PredecessorOf[o] /\ o \in Ops /\ PredecessorOf[o] # None
    BY <1>1, <2>2
  <2> QED BY <2>2, <2>3, RecedingFacts
<1>5. \A o \in D, t \in Int : below[o] \in D => step[o][t] \in Int
  <2>1. TAKE o \in D, t \in Int
  <2>2. HAVE below[o] \in D
  <2>3. below[o] = PredecessorOf[o]
    BY <1>1, <2>2
  <2>4. Length(now.plan[PredecessorOf[o]]) \in Int /\ now.plan[o].start \in Int
    BY <1>2, <2>2, <2>3 DEF Length
  <2> QED BY <2>4 DEF Larger
<1> DEFINE typed == [o \in D |-> IF below[o] \in D THEN step[o] ELSE [t \in Int |-> 0]]
<1>6. \A o \in D, t \in Int : typed[o][t] \in Int /\ (below[o] \in D => typed[o][t] = step[o][t])
  <2> HIDE DEF below, step, D
  <2> QED BY <1>5
<1>7. PICK f \in [D -> Int] :
        \A o \in D : f[o] = IF below[o] \in D THEN typed[o][f[below[o]]] ELSE first[o]
  <2> HIDE DEF below, typed, D, rank, first
  <2>1. Falls(D, below, rank) /\ Steps(D, typed) /\ IsFiniteSet(D)
    BY <1>1, <1>4, <1>6 DEF Falls, Steps
  <2>2. PICK f : Computes(f, D, below, typed, first)
    BY <1>3, <2>1, StartsExist
  <2> QED BY <2>2 DEF Computes
<1>8. ASSUME NEW o \in D PROVE f[o] = ChainStart(now, f, o)
  <2>1. CASE below[o] \in D
    <3>1. below[o] = PredecessorOf[o] /\ o \notin sealed
      BY <1>1, <2>1
    <3>2. f[below[o]] \in Int
      BY <1>7, <2>1
    <3>3. f[o] = step[o][f[below[o]]]
      BY <1>6, <1>7, <2>1, <3>2
    <3>4. step[o][f[below[o]]]
          = Larger(now.plan[o].start, f[below[o]] + Length(now.plan[PredecessorOf[o]]))
      <4> HIDE DEF below
      <4> QED BY <3>2
    <3> QED BY <2>1, <3>1, <3>3, <3>4 DEF ChainStart
  <2>2. CASE below[o] \notin D
    <3>1. f[o] = now.plan[o].start
      BY <1>7, <2>2
    <3>2. o \in sealed \/ PredecessorOf[o] \notin D
      BY <2>2
    <3> QED BY <3>1, <3>2 DEF ChainStart
  <2> QED BY <2>1, <2>2
<1>9. f = [o \in D |-> ChainStart(now, f, o)]
  <2> HIDE DEF D
  <2> QED BY <1>7, <1>8
<1> QED BY <1>9

(* The starts along the chains are times.                                   *)
LEMMA ChainStartsAreTimes ==
  ASSUME NEW now, Kept(now), NEW start, start = [o \in DOMAIN now.plan |-> ChainStart(now, start, o)]
  PROVE  start \in [DOMAIN now.plan -> Int]
<1> DEFINE D == DOMAIN now.plan
           Bad == {o \in D : start[o] \notin Int}
<1>1. D \subseteq Ops /\ IsFiniteSet(D)
  <2>1. D \subseteq Ops
    BY DEF Kept, Typed, Timeline
  <2> HIDE DEF D
  <2> QED BY <2>1, RecedingFacts, FS_Subset
<1>2. \A o \in D : now.plan[o].start \in Int /\ now.plan[o].end \in Int
  BY TypedFacts DEF Kept
<1>3. \A o \in D : start[o] = ChainStart(now, start, o)
  <2> DEFINE value(o) == ChainStart(now, start, o)
  <2>1. start = [o \in D |-> value(o)]
    OBVIOUS
  <2> HIDE DEF value, D
  <2>2. \A o \in D : start[o] = value(o)
    BY <2>1
  <2> QED BY <2>2 DEF value
<1>4. Bad = {}
  <2>1. SUFFICES ASSUME Bad # {} PROVE FALSE
    OBVIOUS
  <2> DEFINE rank == [o \in Bad |-> SeqRank[o]]
  <2>2. IsFiniteSet(Bad) /\ rank \in [Bad -> Int] /\ Bad \subseteq D
    <3>1. Bad \subseteq D
      OBVIOUS
    <3> HIDE DEF Bad, D
    <3> QED BY <1>1, <3>1, FS_Subset, RecedingFacts
  <2>3. PICK o \in Bad : \A p \in Bad : rank[o] <= rank[p]
    <3> HIDE DEF Bad, rank
    <3> QED BY <2>1, <2>2, SmallestElement
  <2>4. o \in D /\ start[o] \notin Int
    BY <2>3
  <2>5. o \notin sealed /\ PredecessorOf[o] \in D
    BY <1>2, <1>3, <2>4 DEF ChainStart
  <2>6. SeqRank[PredecessorOf[o]] < SeqRank[o] /\ o \in Ops /\ PredecessorOf[o] \in Ops
    BY <1>1, <2>4, <2>5, RecedingFacts
  <2>7. PredecessorOf[o] \notin Bad
    <3>1. ASSUME PredecessorOf[o] \in Bad PROVE FALSE
      <4>1. SeqRank[o] <= SeqRank[PredecessorOf[o]]
        BY <2>3, <3>1
      <4> QED BY <2>6, <4>1, RecedingFacts
    <3> QED BY <3>1
  <2>8. start[PredecessorOf[o]] \in Int
    BY <2>5, <2>7
  <2>9. Length(now.plan[PredecessorOf[o]]) \in Int
    BY <1>2, <2>5 DEF Length
  <2>10. start[o] = Larger(now.plan[o].start,
                           start[PredecessorOf[o]] + Length(now.plan[PredecessorOf[o]]))
    <3>1. start[o] = ChainStart(now, start, o)
      BY <1>3, <2>4
    <3> HIDE DEF Bad, rank
    <3> QED BY <2>5, <3>1 DEF ChainStart
  <2>11. now.plan[o].start \in Int
    BY <1>2, <2>4
  <2> HIDE DEF Bad, rank
  <2> QED BY <2>4, <2>8, <2>9, <2>10, <2>11 DEF Larger
<1>5. \A o \in D : start[o] \in Int
  BY <1>4
<1> HIDE DEF Bad
<1> QED BY <1>5

(* The shift along the chains puts them in order.                          *)
LEMMA ChainsAreOrdered ==
  ASSUME NEW now, Kept(now)
  PROVE  Kept(ShiftForChains(now)) /\ InOrder(ShiftForChains(now))
<1> DEFINE start == CHOOSE f : f = [o \in DOMAIN now.plan |-> ChainStart(now, f, o)]
           new == ShiftForChains(now)
<1>1. new = Swept(now, start, {})
  BY DEF ShiftForChains, ChainStart
<1>2. start = [o \in DOMAIN now.plan |-> ChainStart(now, start, o)]
  BY ChainStartsExist
<1> HIDE DEF start, new
<1>3. start \in [DOMAIN plan -> Int] /\ DOMAIN now.plan = DOMAIN plan /\ Typed(now.plan)
  BY <1>2, ChainStartsAreTimes DEF Kept
<1>4. \A o \in DOMAIN plan : start[o] = ChainStart(now, start, o)
  <2> DEFINE value(o) == ChainStart(now, start, o)
  <2>1. start = [o \in DOMAIN plan |-> value(o)]
    BY <1>2, <1>3
  <2> HIDE DEF value
  <2>2. \A o \in DOMAIN plan : start[o] = value(o)
    BY <2>1
  <2> QED BY <2>2 DEF value
<1>5. Kept(new)
  <2>1. \A o \in sealed \cap DOMAIN plan : start[o] = now.plan[o].start
    BY <1>4 DEF ChainStart
  <2> QED BY <1>1, <1>3, <2>1, SweepKeeps
<1>6. InOrder(new)
  <2>1. new.plan = StartingAt(now.plan, start)
    BY <1>1 DEF Swept
  <2>2. /\ DOMAIN new.plan = DOMAIN plan
        /\ \A o \in DOMAIN plan : new.plan[o].start = start[o]
                                  /\ new.plan[o].end = start[o] + Length(now.plan[o])
    BY <1>3, <2>1, StartingAtFacts
  <2>3. ASSUME NEW o \in DOMAIN plan, o \notin sealed, PredecessorOf[o] \in DOMAIN plan
        PROVE  new.plan[PredecessorOf[o]].end <= new.plan[o].start
    <3> DEFINE p == PredecessorOf[o]
    <3>1. start[o] = Larger(now.plan[o].start, start[p] + Length(now.plan[p]))
      BY <1>3, <1>4, <2>3 DEF ChainStart
    <3>2. /\ now.plan[o].start \in Int /\ now.plan[p].start \in Int /\ now.plan[p].end \in Int
          /\ start[p] \in Int
      BY <1>3, <2>3, TypedFacts
    <3>3. start[p] + Length(now.plan[p]) <= start[o]
      <4>1. start[p] + Length(now.plan[p]) \in Int
        BY <3>2 DEF Length
      <4> QED BY <3>1, <3>2, <4>1 DEF Larger
    <3> QED BY <2>2, <2>3, <3>3
  <2> QED BY <2>2, <2>3 DEF InOrder
<1> QED BY <1>5, <1>6 DEF new

(* Behind the operation before it on its machine, as far as its ceiling    *)
(* allows.                                                                 *)
Wanted(now, start, o) ==
  LET p == Predecessor(now.plan, o)
  IN  IF p = None \/ o \in sealed THEN now.plan[o].start
      ELSE start[p] + Length(now.plan[p]) + SetupBetween(now.plan[o].wc, p, o)

SetupStart(now, start, o) ==
  IF Wanted(now, start, o) + Length(now.plan[o]) <= Ceiling(o)
    THEN Larger(now.plan[o].start, Wanted(now, start, o))
    ELSE now.plan[o].start

(* What an operation waits for is typed, and starts before it.             *)
LEMMA WaitsForEarlier ==
  ASSUME NEW now, Kept(now), NEW o \in DOMAIN now.plan
  PROVE  LET p == Predecessor(now.plan, o)
         IN  /\ now.plan[o].start \in Int /\ Length(now.plan[o]) \in Int
             /\ p # None => /\ p \in DOMAIN now.plan /\ now.plan[p].start < now.plan[o].start
                            /\ Length(now.plan[p]) \in Int
                            /\ SetupBetween(now.plan[o].wc, p, o) \in Int
<1> DEFINE p == Predecessor(now.plan, o)
           m == now.plan[o].wc
<1>1. Typed(now.plan) /\ Timeline(now.plan)
  BY DEF Kept, Typed
<1>2. /\ p \in DOMAIN now.plan \cup {None} /\ p \in On(now.plan, m) \cup {None}
      /\ Follows(now.plan, m, p, o)
  BY <1>1, PredecessorFollows
<1>3. /\ o \in Ops /\ m \in Machines /\ now.plan[o].start \in Int /\ now.plan[o].end \in Int
      /\ Length(now.plan[o]) \in Int
  BY <1>1, TypedFacts DEF Length
<1> HIDE DEF p, m
<1>4. ASSUME p # None
      PROVE  /\ p \in DOMAIN now.plan /\ now.plan[p].start < now.plan[o].start
             /\ Length(now.plan[p]) \in Int /\ SetupBetween(m, p, o) \in Int
  <2>1. p \in DOMAIN now.plan /\ p \in Ops
    BY <1>1, <1>2, <1>4 DEF Timeline
  <2>2. Length(now.plan[p]) \in Int
    BY <1>1, <2>1, TypedFacts DEF Length
  <2>3. now.plan[p].start < now.plan[o].start
    BY <1>2, <1>4 DEF Follows
  <2>4. SetupBetween(m, p, o) \in Nat
    BY <1>3, <2>1, ProblemFacts
  <2> QED BY <2>1, <2>2, <2>3, <2>4
<1> QED BY <1>3, <1>4 DEF p, m

(* The starts behind the setups exist: the sweep follows its own sequence. *)
LEMMA SetupStartsExist ==
  ASSUME NEW now, Kept(now)
  PROVE  \E start : start = [o \in DOMAIN now.plan |-> SetupStart(now, start, o)]
<1> DEFINE D == DOMAIN now.plan
           before == [o \in D |-> Predecessor(now.plan, o)]
           rank == [o \in D |-> now.plan[o].start]
           below == [o \in D |-> IF o \in sealed THEN None ELSE before[o]]
           behind(o, t) == t + Length(now.plan[before[o]]) + SetupBetween(now.plan[o].wc, before[o], o)
           start(o, t) == IF behind(o, t) + Length(now.plan[o]) <= Ceiling(o)
                            THEN Larger(now.plan[o].start, behind(o, t)) ELSE now.plan[o].start
           step == [o \in D |-> [t \in Int |-> IF below[o] \in D THEN start(o, t) ELSE 0]]
<1>1. None \notin D /\ IsFiniteSet(D)
  <2>1. D \subseteq Ops
    BY DEF Kept, Typed, Timeline
  <2> HIDE DEF D
  <2> QED BY <2>1, RecedingFacts, FS_Subset
<1>2. \A o \in D :
        /\ now.plan[o].start \in Int /\ Length(now.plan[o]) \in Int
        /\ before[o] # None => /\ before[o] \in D /\ now.plan[before[o]].start < now.plan[o].start
                               /\ Length(now.plan[before[o]]) \in Int
                               /\ SetupBetween(now.plan[o].wc, before[o], o) \in Int
  BY WaitsForEarlier
<1> HIDE DEF before
<1>3. rank \in [D -> Int]
  BY <1>2
<1>4. ASSUME NEW o \in D, below[o] \in D
      PROVE  below[o] = before[o] /\ o \notin sealed /\ before[o] # None
  BY <1>1, <1>4
<1>5. Falls(D, below, rank)
  <2>1. ASSUME NEW o \in D, below[o] \in D PROVE rank[below[o]] < rank[o]
    <3>1. below[o] = before[o] /\ now.plan[before[o]].start < now.plan[o].start /\ before[o] \in D
      BY <1>2, <1>4, <2>1
    <3>2. rank[before[o]] = now.plan[before[o]].start /\ rank[o] = now.plan[o].start
      BY <3>1
    <3> QED BY <3>1, <3>2
  <2> HIDE DEF below, rank, D
  <2> QED BY <2>1 DEF Falls
<1>6. ASSUME NEW o \in D, below[o] \in D, NEW t \in Int
      PROVE  step[o][t] = start(o, t) /\ start(o, t) \in Int
  <2>1. step[o][t] = start(o, t)
    <3> HIDE DEF below, start
    <3> QED BY <1>6
  <2>2. behind(o, t) \in Int
    <3>1. before[o] # None
      BY <1>4, <1>6
    <3>2. Length(now.plan[before[o]]) \in Int /\ SetupBetween(now.plan[o].wc, before[o], o) \in Int
      BY <1>2, <3>1
    <3> QED BY <3>2
  <2> HIDE DEF behind
  <2>3. start(o, t) \in Int
    BY <1>2, <2>2 DEF Larger
  <2> QED BY <2>1, <2>3
<1>7. Steps(D, step)
  <2>1. ASSUME NEW o \in D, NEW t \in Int, below[o] \notin D PROVE step[o][t] = 0
    <3> HIDE DEF below, start
    <3> QED BY <2>1
  <2> HIDE DEF below, start, step, D
  <2> QED BY <1>6, <2>1 DEF Steps
<1>8. PICK f : Computes(f, D, below, step, rank)
  <2> HIDE DEF below, step, rank, D, start
  <2> QED BY <1>1, <1>3, <1>5, <1>7, StartsExist
<1>9. ASSUME NEW o \in D PROVE f[o] = SetupStart(now, f, o)
  <2>1. f[o] = IF below[o] \in D THEN step[o][f[below[o]]] ELSE rank[o]
    BY <1>8 DEF Computes
  <2>2. CASE below[o] \in D
    <3>1. f[below[o]] \in Int
      BY <1>8, <2>2 DEF Computes
    <3>2. below[o] = before[o] /\ o \notin sealed /\ before[o] # None
      BY <1>4, <2>2
    <3>3. f[o] = start(o, f[before[o]])
      <4> HIDE DEF start, step
      <4> QED BY <1>6, <2>1, <2>2, <3>1, <3>2
    <3>4. Wanted(now, f, o) = behind(o, f[before[o]])
      BY <3>2 DEF Wanted, before
    <3> HIDE DEF behind
    <3> QED BY <3>3, <3>4 DEF SetupStart
  <2>3. CASE below[o] \notin D
    <3>1. f[o] = now.plan[o].start
      BY <2>1, <2>3
    <3>2. o \in sealed \/ before[o] = None
      BY <1>2, <2>3
    <3>3. Wanted(now, f, o) = now.plan[o].start
      BY <3>2 DEF Wanted, before
    <3> QED BY <1>2, <3>1, <3>3 DEF SetupStart, Larger
  <2> QED BY <2>2, <2>3
<1>10. f = [o \in D |-> SetupStart(now, f, o)]
  <2>1. f \in [D -> Int]
    BY <1>8 DEF Computes
  <2> HIDE DEF D
  <2> QED BY <1>9, <2>1
<1> QED BY <1>10

(* The starts behind the setups are times.                                  *)
LEMMA SetupStartsAreTimes ==
  ASSUME NEW now, Kept(now), NEW start, start = [o \in DOMAIN now.plan |-> SetupStart(now, start, o)]
  PROVE  /\ start \in [DOMAIN now.plan -> Int]
         /\ \A o \in sealed \cap DOMAIN now.plan : start[o] = now.plan[o].start
<1> DEFINE D == DOMAIN now.plan
           Bad == {o \in D : start[o] \notin Int}
<1>1. IsFiniteSet(D)
  <2>1. D \subseteq Ops
    BY DEF Kept, Typed, Timeline
  <2> HIDE DEF D
  <2> QED BY <2>1, RecedingFacts, FS_Subset
<1>2. \A o \in D : start[o] = SetupStart(now, start, o)
  <2> DEFINE value(o) == SetupStart(now, start, o)
  <2>1. start = [o \in D |-> value(o)]
    OBVIOUS
  <2> HIDE DEF value, D
  <2>2. \A o \in D : start[o] = value(o)
    BY <2>1
  <2> QED BY <2>2 DEF value
<1>3. \A o \in D : now.plan[o].start \in Int
  BY WaitsForEarlier
<1>4. Bad = {}
  <2>1. SUFFICES ASSUME Bad # {} PROVE FALSE
    OBVIOUS
  <2> DEFINE rank == [o \in Bad |-> now.plan[o].start]
  <2>2. IsFiniteSet(Bad) /\ rank \in [Bad -> Int] /\ Bad \subseteq D
    <3>1. Bad \subseteq D
      OBVIOUS
    <3> HIDE DEF Bad, D
    <3> QED BY <1>1, <1>3, <3>1, FS_Subset
  <2>3. PICK o \in Bad : \A p \in Bad : rank[o] <= rank[p]
    <3> HIDE DEF Bad, rank
    <3> QED BY <2>1, <2>2, SmallestElement
  <2>4. o \in D /\ start[o] \notin Int
    BY <2>3
  <2> DEFINE p == Predecessor(now.plan, o)
  <2>5. /\ now.plan[o].start \in Int /\ Length(now.plan[o]) \in Int
        /\ p # None => /\ p \in D /\ now.plan[p].start < now.plan[o].start
                       /\ Length(now.plan[p]) \in Int
                       /\ SetupBetween(now.plan[o].wc, p, o) \in Int
    BY <2>4, WaitsForEarlier
  <2>6. Wanted(now, start, o) = IF p = None \/ o \in sealed THEN now.plan[o].start
          ELSE start[p] + Length(now.plan[p]) + SetupBetween(now.plan[o].wc, p, o)
    BY DEF Wanted
  <2> HIDE DEF p
  <2>7. Wanted(now, start, o) \notin Int
    BY <1>2, <2>4, <2>5 DEF SetupStart, Larger
  <2>8. p # None /\ start[p] \notin Int
    BY <2>5, <2>6, <2>7
  <2>9. p \in Bad /\ now.plan[p].start \in Int
    BY <1>3, <2>5, <2>8
  <2>10. now.plan[o].start <= now.plan[p].start
    BY <2>3, <2>9
  <2> QED BY <2>5, <2>8, <2>9, <2>10
<1>5. \A o \in D : start[o] \in Int
  BY <1>4
<1>6. \A o \in sealed \cap D : start[o] = now.plan[o].start
  BY <1>2, <1>3 DEF SetupStart, Wanted, Larger
<1> HIDE DEF Bad
<1> QED BY <1>5, <1>6

(* The shift behind the setups leaves sealed work alone.                    *)
LEMMA SetupsKeep ==
  ASSUME NEW now, Kept(now)
  PROVE  Kept(ShiftForSetups(now))
<1> DEFINE start == CHOOSE f : f = [o \in DOMAIN now.plan |-> SetupStart(now, f, o)]
           stuck == {o \in DOMAIN now.plan : start[o] < Wanted(now, start, o)}
<1>1. ShiftForSetups(now) = Swept(now, start, stuck)
  BY DEF ShiftForSetups, SetupStart, Wanted
<1>2. start = [o \in DOMAIN now.plan |-> SetupStart(now, start, o)]
  BY SetupStartsExist
<1> HIDE DEF start, stuck
<1>3. /\ DOMAIN now.plan = DOMAIN plan
      /\ start \in [DOMAIN plan -> Int]
      /\ \A o \in sealed \cap DOMAIN plan : start[o] = now.plan[o].start
  BY <1>2, SetupStartsAreTimes DEF Kept
<1> QED BY <1>1, <1>3, SweepKeeps

(* Towards the next release of a pool: later, and only what is not sealed. *)
LEMMA RelocationKeeps ==
  ASSUME NEW now, Kept(now), NEW o \in DOMAIN now.plan, o \notin sealed,
         NEW next \in RelocateForPools(now, o)
  PROVE  Kept(next)
<1> DEFINE current == now.plan[o]
           others == Restricted(now.plan, DOMAIN now.plan \ {o})
           seen == FreshWindows(others, RequiredBy(o))
           later == {t \in CandidateStarts(seen, current.start, current.setup) :
                       /\ t + Length(current) <= Ceiling(o)
                       /\ ResourcesFit(seen, o, t - current.setup, t + Length(current))}
           kept == [x \in DOMAIN now.plan |-> now.plan[x].start]
<1>1. CASE next = now
  BY <1>1
<1>2. CASE next = [now EXCEPT !.blocked = TRUE]
  <2>1. DOMAIN next = {"plan", "moved", "blocked"} /\ next.plan = now.plan
    BY <1>2 DEF Kept
  <2> QED BY <2>1 DEF Kept
<1>3. ASSUME NEW t \in First(later), next = Swept(now, [kept EXCEPT ![o] = t], {})
      PROVE  Kept(next)
  <2>1. Typed(now.plan) /\ DOMAIN now.plan = DOMAIN plan
    BY DEF Kept
  <2>2. current.start \in Int /\ current.setup \in Int
    BY <2>1, TypedFacts
  <2>3. Timeline(others)
    BY <2>1 DEF Typed, Timeline, Restricted
  <2>4. EndsAreTimes(seen)
    <3> HIDE DEF others
    <3> QED BY <2>3, WindowEndsAreTimes DEF EndsAreTimes, FreshWindows
  <2>5. t \in CandidateStarts(seen, current.start, current.setup)
    BY DEF First
  <2>6. t \in Int
    <3> HIDE DEF seen, current
    <3> QED BY <2>2, <2>4, <2>5 DEF CandidateStarts, EndsAreTimes
  <2> DEFINE start == [kept EXCEPT ![o] = t]
  <2>7. \A x \in DOMAIN now.plan : now.plan[x].start \in Int
    BY <2>1, TypedFacts
  <2>8. /\ start \in [DOMAIN plan -> Int]
        /\ \A x \in sealed \cap DOMAIN plan : start[x] = now.plan[x].start
    BY <2>1, <2>6, <2>7
  <2> HIDE DEF start, later
  <2>9. next = Swept(now, start, {})
    BY <1>3 DEF start
  <2> QED BY <2>8, <2>9, SweepKeeps
<1>4. \/ next = now \/ next = [now EXCEPT !.blocked = TRUE]
      \/ \E t \in First(later) : next = Swept(now, [kept EXCEPT ![o] = t], {})
  BY DEF RelocateForPools
<1> HIDE DEF later, kept
<1> QED BY <1>1, <1>2, <1>3, <1>4

Relocated(x, o) == IF o \in DOMAIN x.plan \ sealed THEN RelocateForPools(x, o) ELSE {x}

(* The walk along the list of what is committed.                           *)
AfterRelocation(before, k) == UNION {Relocated(x, committed[k]) : x \in before}

Walks(now, n, after) ==
  after = [k \in 0 .. n |-> IF k = 0 THEN {now} ELSE AfterRelocation(after[k - 1], k)]

StepByStep(now, n, after) ==
  \A k \in 0 .. n : after[k] = IF k = 0 THEN {now} ELSE AfterRelocation(after[k - 1], k)

(* The walk of the relocations, by its recursion.                           *)
LEMMA WalksEquation ==
  ASSUME NEW now, NEW n \in Nat, NEW after, Walks(now, n, after)
  PROVE  StepByStep(now, n, after)
<1> DEFINE value(k) == IF k = 0 THEN {now} ELSE AfterRelocation(after[k - 1], k)
<1>1. after = [k \in 0 .. n |-> value(k)]
  BY DEF Walks
<1> HIDE DEF value
<1>2. \A k \in 0 .. n : after[k] = value(k)
  BY <1>1
<1> QED BY <1>2 DEF value, StepByStep

(* The recursion of the walk has a solution.                                *)
LEMMA WalksExist ==
  ASSUME NEW now, NEW n \in Nat
  PROVE  \E after : Walks(now, n, after)
<1> DEFINE Bad == {k \in Nat : ~ \E after : Walks(now, k, after)}
<1>1. ASSUME NEW k \in Nat, NEW h,
             h = [j \in 0 .. k |-> IF j = 0 THEN {now} ELSE AfterRelocation(h[j - 1], j)]
      PROVE  Walks(now, k, h)
  BY <1>1 DEF Walks
<1>2. 0 \notin Bad
  <2> DEFINE h == [j \in 0 .. 0 |-> {now}]
  <2>1. h = [j \in 0 .. 0 |-> IF j = 0 THEN {now} ELSE AfterRelocation(h[j - 1], j)]
    OBVIOUS
  <2> HIDE DEF h
  <2> QED BY <1>1, <2>1
<1>3. ASSUME NEW k \in Nat, k # 0, k - 1 \notin Bad PROVE k \notin Bad
  <2>1. k - 1 \in Nat
    BY <1>3
  <2>2. PICK g : Walks(now, k - 1, g)
    BY <1>3, <2>1
  <2>3. \A j \in 0 .. k - 1 : g[j] = IF j = 0 THEN {now} ELSE AfterRelocation(g[j - 1], j)
    <3>1. StepByStep(now, k - 1, g)
      BY <2>1, <2>2, WalksEquation
    <3> QED BY <3>1 DEF StepByStep
  <2> DEFINE h == [j \in 0 .. k |-> IF j = k THEN AfterRelocation(g[k - 1], k) ELSE g[j]]
  <2>4. ASSUME NEW j \in 0 .. k PROVE h[j] = IF j = 0 THEN {now} ELSE AfterRelocation(h[j - 1], j)
    <3>1. CASE j = k
      <4>1. h[j] = AfterRelocation(g[k - 1], k) /\ h[j - 1] = g[k - 1]
        BY <1>3, <3>1
      <4> QED BY <1>3, <3>1, <4>1
    <3>2. CASE j # k
      <4>1. j \in 0 .. k - 1 /\ h[j] = g[j] /\ (j # 0 => j - 1 \in 0 .. k /\ h[j - 1] = g[j - 1])
        BY <3>2
      <4> QED BY <2>3, <4>1
    <3> QED BY <3>1, <3>2
  <2>5. DOMAIN h = 0 .. k /\ h = [j \in 0 .. k |-> h[j]]
    OBVIOUS
  <2> HIDE DEF h
  <2>6. h = [j \in 0 .. k |-> IF j = 0 THEN {now} ELSE AfterRelocation(h[j - 1], j)]
    BY <2>4, <2>5
  <2> QED BY <1>1, <2>6
<1>4. Bad = {}
  <2>1. SUFFICES ASSUME Bad # {} PROVE FALSE
    OBVIOUS
  <2>2. Bad \in SUBSET Nat
    OBVIOUS
  <2> HIDE DEF Bad
  <2>3. PICK k \in Bad : \A j \in Bad : k <= j
    BY <2>1, <2>2, LeastNatural
  <2>4. k \in Nat /\ k # 0 /\ k - 1 \in Nat /\ k - 1 \notin Bad
    BY <1>2, <2>2, <2>3
  <2> QED BY <1>3, <2>3, <2>4
<1> QED BY <1>4

(* The shift for the pools leaves sealed work alone.                        *)
LEMMA RelocationsKeep ==
  ASSUME NEW now, Kept(now), NEW next \in ShiftForPools(now)
  PROVE  Kept(next)
<1> DEFINE n == Cardinality(DOMAIN now.plan)
           after == CHOOSE f : Walks(now, n, f)
           Bad == {k \in 0 .. n : \E x \in after[k] : ~ Kept(x)}
<1>1. CASE next = now
  BY <1>1
<1>2. CASE next \in after[n]
  <2>1. n \in Nat
    <3>1. DOMAIN now.plan \subseteq Ops
      BY DEF Kept, Typed, Timeline
    <3> QED BY <3>1, RecedingFacts, FS_Subset, FS_CardinalityType
  <2>2. \A k \in 0 .. n : after[k] = IF k = 0 THEN {now} ELSE AfterRelocation(after[k - 1], k)
    <3> HIDE DEF n
    <3>1. Walks(now, n, after)
      BY <2>1, WalksExist
    <3> HIDE DEF after
    <3>2. StepByStep(now, n, after)
      BY <2>1, <3>1, WalksEquation
    <3> QED BY <3>2 DEF StepByStep
  <2> HIDE DEF n, after
  <2>3. Bad = {}
    <3>1. SUFFICES ASSUME Bad # {} PROVE FALSE
      OBVIOUS
    <3>2. Bad \in SUBSET Nat /\ Bad \subseteq 0 .. n
      OBVIOUS
    <3>3. PICK k \in Bad : \A j \in Bad : k <= j
      <4> HIDE DEF Bad
      <4> QED BY <3>1, <3>2, LeastNatural
    <3>4. PICK x \in after[k] : ~ Kept(x)
      BY <3>3
    <3>5. k # 0
      BY <2>2, <3>3, <3>4
    <3>6. k - 1 \in 0 .. n /\ k - 1 \notin Bad
      <4> HIDE DEF Bad
      <4> QED BY <2>1, <3>2, <3>3, <3>5
    <3>7. after[k] = AfterRelocation(after[k - 1], k)
      BY <2>2, <3>2, <3>5
    <3>8. PICK y \in after[k - 1] : x \in Relocated(y, committed[k])
      BY <3>4, <3>7 DEF AfterRelocation
    <3>9. Kept(y)
      BY <3>6, <3>8
    <3> QED BY <3>4, <3>8, <3>9, RelocationKeeps DEF Relocated
  <2>4. n \in 0 .. n
    BY <2>1
  <2> QED BY <1>2, <2>3, <2>4
<1>3. next = now \/ next \in after[n]
  BY DEF ShiftForPools, Walks, AfterRelocation, Relocated
<1> QED BY <1>1, <1>2, <1>3

(* A pass ends with the chains in order.                                   *)
LEMMA PassKeeps ==
  ASSUME NEW now, Kept(now), NEW next \in OnePass(now)
  PROVE  Kept(next) /\ InOrder(next)
<1> DEFINE x == [now EXCEPT !.moved = FALSE]
           b == ShiftForChains(x)
           c == ShiftForSetups(b)
<1>1. Kept(x)
  <2>1. DOMAIN x = {"plan", "moved", "blocked"} /\ x.plan = now.plan
    BY DEF Kept
  <2> HIDE DEF x
  <2> QED BY <2>1 DEF Kept
<1>2. PICK d \in ShiftForPools(c) : next = ShiftForChains(d)
  BY DEF OnePass
<1> HIDE DEF x
<1>3. Kept(b)
  BY <1>1, ChainsAreOrdered
<1> HIDE DEF b
<1>4. Kept(c)
  BY <1>3, SetupsKeep
<1> HIDE DEF c
<1>5. Kept(d)
  BY <1>2, <1>4, RelocationsKeep
<1> QED BY <1>2, <1>5, ChainsAreOrdered

-----------------------------------------------------------------------------
(* The passes, one after the other. *)

AfterPass(before) == UNION {IF now.moved THEN OnePass(now) ELSE {now} : now \in before}

Passes(start, n, after) ==
  after = [k \in 0 .. n |-> IF k = 0 THEN {start} ELSE AfterPass(after[k - 1])]

PassByPass(start, n, after) ==
  \A k \in 0 .. n : after[k] = IF k = 0 THEN {start} ELSE AfterPass(after[k - 1])

(* The passes of the stabilizer, by their recursion.                        *)
LEMMA PassesEquation ==
  ASSUME NEW start, NEW n \in Nat, NEW after, Passes(start, n, after)
  PROVE  PassByPass(start, n, after)
<1> DEFINE value(k) == IF k = 0 THEN {start} ELSE AfterPass(after[k - 1])
<1>1. after = [k \in 0 .. n |-> value(k)]
  BY DEF Passes
<1> HIDE DEF value
<1>2. \A k \in 0 .. n : after[k] = value(k)
  BY <1>1
<1> QED BY <1>2 DEF value, PassByPass

(* The recursion of the passes has a solution.                              *)
LEMMA PassesExist ==
  ASSUME NEW start, NEW n \in Nat
  PROVE  \E after : Passes(start, n, after)
<1> DEFINE Bad == {k \in Nat : ~ \E after : Passes(start, k, after)}
<1>1. ASSUME NEW k \in Nat, NEW h,
             h = [j \in 0 .. k |-> IF j = 0 THEN {start} ELSE AfterPass(h[j - 1])]
      PROVE  Passes(start, k, h)
  BY <1>1 DEF Passes
<1>2. 0 \notin Bad
  <2> DEFINE h == [j \in 0 .. 0 |-> {start}]
  <2>1. h = [j \in 0 .. 0 |-> IF j = 0 THEN {start} ELSE AfterPass(h[j - 1])]
    OBVIOUS
  <2> HIDE DEF h
  <2> QED BY <1>1, <2>1
<1>3. ASSUME NEW k \in Nat, k # 0, k - 1 \notin Bad PROVE k \notin Bad
  <2>1. k - 1 \in Nat
    BY <1>3
  <2>2. PICK g : Passes(start, k - 1, g)
    BY <1>3, <2>1
  <2>3. \A j \in 0 .. k - 1 : g[j] = IF j = 0 THEN {start} ELSE AfterPass(g[j - 1])
    <3>1. PassByPass(start, k - 1, g)
      BY <2>1, <2>2, PassesEquation
    <3> QED BY <3>1 DEF PassByPass
  <2> DEFINE h == [j \in 0 .. k |-> IF j = k THEN AfterPass(g[k - 1]) ELSE g[j]]
  <2>4. ASSUME NEW j \in 0 .. k PROVE h[j] = IF j = 0 THEN {start} ELSE AfterPass(h[j - 1])
    <3>1. CASE j = k
      <4>1. h[j] = AfterPass(g[k - 1]) /\ h[j - 1] = g[k - 1]
        BY <1>3, <3>1
      <4> QED BY <1>3, <3>1, <4>1
    <3>2. CASE j # k
      <4>1. j \in 0 .. k - 1 /\ h[j] = g[j] /\ (j # 0 => j - 1 \in 0 .. k /\ h[j - 1] = g[j - 1])
        BY <3>2
      <4> QED BY <2>3, <4>1
    <3> QED BY <3>1, <3>2
  <2>5. DOMAIN h = 0 .. k /\ h = [j \in 0 .. k |-> h[j]]
    OBVIOUS
  <2> HIDE DEF h
  <2>6. h = [j \in 0 .. k |-> IF j = 0 THEN {start} ELSE AfterPass(h[j - 1])]
    BY <2>4, <2>5
  <2> QED BY <1>1, <2>6
<1>4. Bad = {}
  <2>1. SUFFICES ASSUME Bad # {} PROVE FALSE
    OBVIOUS
  <2>2. Bad \in SUBSET Nat
    OBVIOUS
  <2> HIDE DEF Bad
  <2>3. PICK k \in Bad : \A j \in Bad : k <= j
    BY <2>1, <2>2, LeastNatural
  <2>4. k \in Nat /\ k # 0 /\ k - 1 \in Nat /\ k - 1 \notin Bad
    BY <1>2, <2>2, <2>3
  <2> QED BY <1>3, <2>3, <2>4
<1> QED BY <1>4

(* At least one pass is made. *)
LEMMA PassesAreMade ==
  ASSUME NEW ops \in SUBSET Ops
  PROVE  PassBudget(ops) \in Nat /\ PassBudget(ops) > 0
<1> DEFINE depths == {Depth[o] : o \in ops}
<1>1. Cardinality(depths) \in Nat
  <2>1. IsFiniteSet(ops)
    BY RecedingFacts, FS_Subset
  <2> DEFINE f == [o \in ops |-> Depth[o]]
  <2>2. f \in Surjection(ops, depths)
    BY DEF Surjection
  <2> HIDE DEF f, depths
  <2> QED BY <2>1, <2>2, FS_Surjection, FS_CardinalityType
<1>2. PassBudget(ops) = Larger(8, Lesser(64, 2 + Cardinality(depths)))
  BY DEF PassBudget
<1> HIDE DEF depths
<1> QED BY <1>1, <1>2 DEF Larger, Lesser

(* What comes out of the stabilizer holds the same operations, those that  *)
(* were sealed where they were and the others behind their predecessors.   *)
LEMMA StabilizerKeeps ==
  ASSUME Typed(plan), NEW stable \in Stabilized
  PROVE  Kept(stable) /\ InOrder(stable)
<1> DEFINE n == PassBudget(DOMAIN plan)
           start == [plan |-> plan, moved |-> TRUE, blocked |-> FALSE]
           after == CHOOSE f : Passes(start, n, f)
           Good(k, now) == Kept(now) /\ (k > 0 => InOrder(now)) /\ (k = 0 => now.moved)
           Bad == {k \in 0 .. n : \E now \in after[k] : ~ Good(k, now)}
<1>1. n \in Nat /\ n > 0
  BY PassesAreMade DEF Typed, Timeline
<1>2. Stabilized = after[n]
  BY DEF Stabilized, Passes, AfterPass
<1>3. Good(0, start)
  BY DEF Kept
<1>4. \A k \in 0 .. n : after[k] = IF k = 0 THEN {start} ELSE AfterPass(after[k - 1])
  <2> HIDE DEF n, start
  <2>1. Passes(start, n, after)
    BY <1>1, PassesExist
  <2> HIDE DEF after
  <2>2. PassByPass(start, n, after)
    BY <1>1, <2>1, PassesEquation
  <2> QED BY <2>2 DEF PassByPass
<1> HIDE DEF n, start, after
<1>5. Bad = {}
  <2>1. SUFFICES ASSUME Bad # {} PROVE FALSE
    OBVIOUS
  <2>2. Bad \in SUBSET Nat /\ Bad \subseteq 0 .. n
    OBVIOUS
  <2>3. PICK k \in Bad : \A j \in Bad : k <= j
    <3> HIDE DEF Bad
    <3> QED BY <2>1, <2>2, LeastNatural
  <2>4. PICK now \in after[k] : ~ Good(k, now)
    BY <2>3
  <2> HIDE DEF Good
  <2>5. k # 0 /\ k > 0
    <3>1. k # 0
      BY <1>3, <1>4, <2>2, <2>3, <2>4
    <3> QED BY <2>2, <2>3, <3>1
  <2>6. k - 1 \in 0 .. n /\ k - 1 \notin Bad
    <3> HIDE DEF Bad
    <3> QED BY <1>1, <2>2, <2>3, <2>5
  <2>7. after[k] = AfterPass(after[k - 1])
    BY <1>4, <2>2, <2>5
  <2>8. PICK was \in after[k - 1] : now \in IF was.moved THEN OnePass(was) ELSE {was}
    BY <2>4, <2>7 DEF AfterPass
  <2>9. Good(k - 1, was)
    BY <2>6, <2>8
  <2>10. CASE was.moved
    <3>1. Kept(now) /\ InOrder(now)
      BY <2>8, <2>9, <2>10, PassKeeps DEF Good
    <3> QED BY <2>4, <2>5, <3>1 DEF Good
  <2>11. CASE ~ was.moved
    <3>1. now = was /\ k - 1 # 0 /\ k - 1 > 0
      BY <2>2, <2>3, <2>5, <2>8, <2>9, <2>11 DEF Good
    <3> QED BY <2>4, <2>5, <2>9, <3>1 DEF Good
  <2> QED BY <2>10, <2>11
<1>6. n \in 0 .. n
  BY <1>1
<1> QED BY <1>1, <1>2, <1>5, <1>6

-----------------------------------------------------------------------------
(* The invariant.                                                          *)

(* What is sealed is committed, its predecessors with it.                  *)
SealedIsWhole == sealed \subseteq DOMAIN plan /\ HoldsPredecessors(sealed, {})

(* The window being solved may move what was rewound for it and add to it; *)
(* what lies behind it is whole, and holds all that is sealed.             *)
WindowIsAhead ==
  phase = "window" =>
    /\ w.rewound \subseteq DOMAIN plan /\ sealed \cap w.rewound = {}
    /\ w.ops \subseteq Ops \ (DOMAIN plan \ w.rewound)
    /\ HoldsPredecessors(DOMAIN plan \ w.rewound, {})

Inv ==
  /\ Typed(plan) /\ frontier \subseteq Ops /\ tail \subseteq Ops
  /\ SealedIsWhole /\ WindowIsAhead /\ CommitmentIsOrdered
  /\ phase # "done" => status = None
  /\ ClaimIsTrue

(* Sealed work keeps its place, whatever its setup becomes.                *)
LEMMA RestampedAssignment ==
  ASSUME NEW q \in Assignment, NEW r \in Assignment,
         r.wc = q.wc, r.start = q.start, r.end = q.end
  PROVE  [r EXCEPT !.setup = q.setup] = q
<1> DEFINE s == [r EXCEPT !.setup = q.setup]
<1>1. s \in Assignment /\ s.wc = r.wc /\ s.start = r.start /\ s.end = r.end /\ s.setup = q.setup
  BY DEF Assignment
<1> HIDE DEF s
<1>2. s = q
  BY <1>1, SameAssignment
<1> QED BY <1>2 DEF s

(* A step that commits nothing moves nothing. *)
LEMMA UnchangedPlanStays ==
  ASSUME Inv, plan' = plan
  PROVE  KeepsSealed
<1>1. \A o \in sealed : o \in DOMAIN plan /\ plan[o] \in Assignment
  BY DEF Inv, SealedIsWhole, Typed
<1>2. \A o \in sealed : [plan[o] EXCEPT !.setup = plan[o].setup] = plan[o]
  BY <1>1, RestampedAssignment
<1> QED BY <1>1, <1>2 DEF KeepsSealed

(* Recomputing the setups moves nothing.                                    *)
LEMMA RecomputeIsTyped ==
  ASSUME NEW at, Typed(at)
  PROVE  /\ Typed(RecomputeSetups(at)) /\ DOMAIN RecomputeSetups(at) = DOMAIN at
         /\ \A o \in DOMAIN at :
              /\ RecomputeSetups(at)[o].start = at[o].start
              /\ RecomputeSetups(at)[o].end = at[o].end
              /\ [RecomputeSetups(at)[o] EXCEPT !.setup = at[o].setup] = at[o]
<1> DEFINE new == RecomputeSetups(at)
<1>1. Timeline(at) /\ \A o \in DOMAIN at : at[o] \in Assignment
  BY DEF Typed
<1>2. /\ DOMAIN new = DOMAIN at
      /\ \A o \in DOMAIN at :
           new[o].wc = at[o].wc /\ new[o].start = at[o].start /\ new[o].end = at[o].end
  BY <1>1, RecomputeKeepsTimes
<1>3. \A o \in DOMAIN at : new[o] \in Assignment
  <2>1. TAKE o \in DOMAIN at
  <2>2. ActualSetup(at, o) \in Nat /\ at[o] \in Assignment
    BY <1>1, ActualSetupIsNat
  <2>3. new[o] = [at[o] EXCEPT !.setup = ActualSetup(at, o)]
    BY DEF RecomputeSetups
  <2> HIDE DEF new
  <2> QED BY <2>2, <2>3 DEF Assignment
<1> HIDE DEF new
<1>4. Typed(new)
  BY <1>1, <1>2, <1>3 DEF Typed, Timeline
<1>5. \A o \in DOMAIN at : [new[o] EXCEPT !.setup = at[o].setup] = at[o]
  BY <1>1, <1>2, <1>3, RestampedAssignment
<1> QED BY <1>2, <1>4, <1>5 DEF new

(* A part of a typed plan is typed.                                         *)
LEMMA RestrictedIsTyped ==
  ASSUME NEW at, Typed(at), NEW ops \in SUBSET DOMAIN at
  PROVE  /\ Typed(Restricted(at, ops)) /\ DOMAIN Restricted(at, ops) = ops
         /\ \A o \in ops : Restricted(at, ops)[o] = at[o]
BY DEF Typed, Timeline, Restricted

(* What a window must not touch is typed and holds its predecessors.       *)
LEMMA FrozenFacts ==
  ASSUME Inv, phase = "window"
  PROVE  /\ Typed(Frozen) /\ DOMAIN Frozen = DOMAIN plan \ w.rewound
         /\ \A o \in DOMAIN Frozen : Frozen[o] = plan[o]
         /\ sealed \subseteq DOMAIN Frozen
         /\ w.ops \subseteq Ops \ DOMAIN Frozen
         /\ HoldsPredecessors(DOMAIN Frozen, {})
<1>1. DOMAIN plan \ w.rewound \in SUBSET DOMAIN plan
  OBVIOUS
<1>2. /\ Typed(Frozen) /\ DOMAIN Frozen = DOMAIN plan \ w.rewound
      /\ \A o \in DOMAIN Frozen : Frozen[o] = plan[o]
  BY <1>1, RestrictedIsTyped DEF Inv, Frozen
<1> QED BY <1>2 DEF Inv, WindowIsAhead, SealedIsWhole

(* The candidates for the commitment: planned, behind the frozen work or   *)
(* with their predecessors, and under the gate in the order of the chains. *)
LEMMA CandidatesFacts ==
  ASSUME NEW planned
  PROVE  /\ CommitCandidates(planned) \subseteq DOMAIN planned
         /\ HoldsPredecessors(CommitCandidates(planned), DOMAIN Frozen)
         /\ config.gate =>
              \A o \in CommitCandidates(planned) : PredecessorOf[o] # None =>
                IF PredecessorOf[o] \in DOMAIN Frozen
                  THEN Frozen[PredecessorOf[o]].end <= planned[o].start
                  ELSE planned[PredecessorOf[o]].end <= planned[o].start
<1> DEFINE ops == CommitCandidates(planned)
           inside == EndsInside(planned)
           before(o) == IF PredecessorOf[o] \in DOMAIN Frozen THEN Frozen[PredecessorOf[o]]
                                                              ELSE planned[PredecessorOf[o]]
           inOrder == {o \in inside : PredecessorOf[o] # None => before(o).end <= planned[o].start}
<1>1. inside \subseteq DOMAIN planned /\ HoldsPredecessors(inside, DOMAIN Frozen)
  BY ClosedFacts DEF EndsInside
<1> HIDE DEF inside
<1>2. CASE config.gate
  <2>1. ops = Closed(inOrder, DOMAIN Frozen)
    BY <1>2 DEF CommitCandidates, InChainOrder, inside
  <2> HIDE DEF inOrder
  <2>2. ops \subseteq inOrder /\ HoldsPredecessors(ops, DOMAIN Frozen)
    BY <2>1, ClosedFacts
  <2> HIDE DEF ops
  <2>3. \A o \in ops : o \in inside /\ (PredecessorOf[o] # None => before(o).end <= planned[o].start)
    BY <2>2 DEF inOrder
  <2>4. \A o \in ops : PredecessorOf[o] # None =>
          IF PredecessorOf[o] \in DOMAIN Frozen
            THEN Frozen[PredecessorOf[o]].end <= planned[o].start
            ELSE planned[PredecessorOf[o]].end <= planned[o].start
    BY <2>3
  <2>5. ops \subseteq DOMAIN planned
    BY <1>1, <2>3
  <2> QED BY <2>2, <2>4, <2>5 DEF ops
<1>3. CASE ~ config.gate
  <2>1. ops = inside
    BY <1>3 DEF CommitCandidates, inside
  <2> QED BY <1>1, <1>3, <2>1
<1> QED BY <1>2, <1>3

(* Committing keeps the invariant of the plan, and what is sealed.         *)
LEMMA CommitKeeps ==
  ASSUME Inv, phase = "window", NEW planned, Typed(planned), DOMAIN planned \subseteq w.ops,
         Commit(planned, CommitCandidates(planned)), config' = config
  PROVE  Typed(plan') /\ SealedIsWhole' /\ CommitmentIsOrdered' /\ KeepsSealed
<1> DEFINE ops == CommitCandidates(planned)
           F == DOMAIN Frozen
<1>1. /\ F \subseteq DOMAIN plan /\ F \subseteq Ops
      /\ sealed \subseteq F /\ w.ops \cap F = {} /\ HoldsPredecessors(F, {})
  BY FrozenFacts DEF Typed, Timeline
<1>2. /\ ops \subseteq DOMAIN planned /\ HoldsPredecessors(ops, F)
      /\ config.gate =>
           \A o \in ops : PredecessorOf[o] # None =>
             IF PredecessorOf[o] \in F
               THEN Frozen[PredecessorOf[o]].end <= planned[o].start
               ELSE planned[PredecessorOf[o]].end <= planned[o].start
  BY CandidatesFacts
<1>3. \A o \in F : Frozen[o] = plan[o]
  BY FrozenFacts
<1>4. plan' = [o \in F \cup ops |-> IF o \in ops THEN planned[o] ELSE plan[o]]
      /\ sealed' = sealed \cap DOMAIN plan'
  BY DEF Commit
<1>5. DOMAIN planned \subseteq Ops /\ Typed(plan) /\ CommitmentIsOrdered
      /\ HoldsPredecessors(sealed, {}) /\ sealed \subseteq DOMAIN plan
  BY DEF Inv, Typed, Timeline, SealedIsWhole
<1>6. \A o \in ops : o \notin F
  BY <1>1, <1>2
<1> HIDE DEF ops, F
<1>7. /\ DOMAIN plan' = F \cup ops
      /\ \A o \in ops : plan'[o] = planned[o]
      /\ \A o \in F : plan'[o] = plan[o]
  BY <1>4, <1>6
<1>8. Typed(plan')
  BY <1>1, <1>2, <1>5, <1>7 DEF Typed, Timeline
<1>9. sealed' = sealed
  BY <1>1, <1>4, <1>7
<1>10. SealedIsWhole'
  BY <1>1, <1>5, <1>7, <1>9 DEF SealedIsWhole, HoldsPredecessors
<1>11. ASSUME NEW o \in DOMAIN plan', PredecessorOf[o] # None
       PROVE  /\ PredecessorOf[o] \in DOMAIN plan'
              /\ config.gate => plan'[PredecessorOf[o]].end <= plan'[o].start
  <2>1. CASE o \in F
    <3>1. PredecessorOf[o] \in F
      BY <1>1, <1>11, <2>1 DEF HoldsPredecessors
    <3>2. config.gate => plan[PredecessorOf[o]].end <= plan[o].start
      BY <1>1, <1>5, <1>11, <2>1 DEF CommitmentIsOrdered
    <3> QED BY <1>7, <2>1, <3>1, <3>2
  <2>2. CASE o \in ops
    <3>1. PredecessorOf[o] \in F \cup ops
      BY <1>2, <1>11, <2>2 DEF HoldsPredecessors
    <3>2. CASE PredecessorOf[o] \in F
      BY <1>2, <1>3, <1>7, <1>11, <2>2, <3>2
    <3>3. CASE PredecessorOf[o] \in ops
      BY <1>2, <1>6, <1>7, <1>11, <2>2, <3>3
    <3> QED BY <3>1, <3>2, <3>3
  <2> QED BY <1>7, <1>11, <2>1, <2>2
<1>12. CommitmentIsOrdered'
  BY <1>11 DEF CommitmentIsOrdered
<1>13. KeepsSealed
  <2>1. \A o \in sealed : o \in DOMAIN plan' /\ plan'[o] = plan[o] /\ plan[o] \in Assignment
    BY <1>1, <1>5, <1>7 DEF Typed
  <2>2. \A o \in sealed : [plan[o] EXCEPT !.setup = plan[o].setup] = plan[o]
    BY <2>1, RestampedAssignment
  <2> QED BY <2>1, <2>2 DEF KeepsSealed
<1> QED BY <1>8, <1>10, <1>12, <1>13

-----------------------------------------------------------------------------
(* The steps. *)

(* What is read off the steps that commit nothing. *)
Quiet == plan' = plan /\ config' = config /\ status' = status

(* A step that leaves the plan and the claim alone keeps the invariant.     *)
LEMMA QuietKeeps ==
  ASSUME Inv, Quiet, frontier' \subseteq Ops, tail' \subseteq Ops, SealedIsWhole', WindowIsAhead',
         phase' = "done" <=> phase = "done"
  PROVE  Inv' /\ KeepsSealed
<1>1. KeepsSealed
  BY UnchangedPlanStays DEF Quiet
<1>2. CommitmentIsOrdered' /\ ClaimIsTrue' /\ Typed(plan')
  BY DEF Inv, Quiet, CommitmentIsOrdered, ClaimIsTrue
<1>3. phase' # "done" => status' = None
  BY DEF Inv, Quiet
<1> QED BY <1>1, <1>2, <1>3 DEF Inv

(* What every window starts from, whether it is opened or skipped.          *)
LEMMA StartWindowFacts ==
  ASSUME Inv, NEW end, StartWindow(end)
  PROVE  /\ frontier' \subseteq Ops /\ phase = "loop"
         /\ SealedNow \subseteq DOMAIN plan /\ HoldsPredecessors(SealedNow, {})
         /\ HoldsPredecessors(DOMAIN plan, {})
<1>1. HoldsPredecessors(DOMAIN plan, {})
  BY DEF Inv, CommitmentIsOrdered, HoldsPredecessors
<1>2. SealedNow \in {sealed, sealed \cup DOMAIN plan} /\ sealed \subseteq DOMAIN plan
      /\ HoldsPredecessors(sealed, {})
  BY DEF Inv, SealedIsWhole, SealedNow
<1>3. SealedNow \subseteq DOMAIN plan /\ HoldsPredecessors(SealedNow, {})
  BY <1>1, <1>2 DEF HoldsPredecessors
<1>4. frontier' \subseteq Ops
  BY DEF Inv, StartWindow, FrontierUpTo
<1> QED BY <1>1, <1>3, <1>4 DEF StartWindow

(* A skipped window.                                                        *)
LEMMA SkipWindowKeeps ==
  ASSUME Inv, NEW end, SkipWindow(end)
  PROVE  Inv' /\ KeepsSealed
<1>1. StartWindow(end) /\ Quiet /\ tail' = tail /\ sealed' = SealedNow /\ phase' = phase
  BY DEF SkipWindow, Quiet
<1>2. /\ frontier' \subseteq Ops /\ phase = "loop"
      /\ SealedNow \subseteq DOMAIN plan /\ HoldsPredecessors(SealedNow, {})
  BY <1>1, StartWindowFacts
<1>3. SealedIsWhole' /\ WindowIsAhead' /\ tail' \subseteq Ops
  BY <1>1, <1>2 DEF SealedIsWhole, WindowIsAhead, Quiet, Inv, HoldsPredecessors
<1> QED BY <1>1, <1>2, <1>3, QuietKeeps

(* What is rewound leaves behind it what holds its predecessors.           *)
LEMMA RewoundFacts ==
  ASSUME HoldsPredecessors(DOMAIN plan, {})
  PROVE  Rewound \subseteq DOMAIN plan /\ HoldsPredecessors(DOMAIN plan \ Rewound, {})
<1> DEFINE inTime == {o \in DOMAIN plan : plan[o].end <= Larger(0, offset - BacktrackTail)}
           whole == Closed(inTime, Uncommitted)
           all == DOMAIN plan \ whole
<1>1. inTime \subseteq DOMAIN plan
  OBVIOUS
<1>2. Rewound \in {all, {}}
  BY DEF Rewound
<1> HIDE DEF inTime
<1>3. whole \subseteq DOMAIN plan /\ HoldsPredecessors(whole, Uncommitted)
  BY <1>1, ClosedFacts
<1> HIDE DEF whole
<1>4. HoldsPredecessors(whole, {})
  BY <1>3 DEF HoldsPredecessors, Uncommitted
<1>5. DOMAIN plan \ all = whole
  BY <1>3
<1> HIDE DEF all
<1>6. CASE Rewound = all
  <2>1. all \subseteq DOMAIN plan
    BY DEF all
  <2> QED BY <1>4, <1>5, <1>6, <2>1
<1>7. CASE Rewound = {}
  BY <1>7
<1> QED BY <1>2, <1>6, <1>7

(* An opened window: it may place only what is not behind it.               *)
LEMMA OpenWindowKeeps ==
  ASSUME Inv, NEW end, OpenWindow(end, Rewound)
  PROVE  Inv' /\ KeepsSealed
<1> DEFINE R == Rewound
           past == DOMAIN plan \ R
<1>1. StartWindow(end) /\ Quiet /\ tail' = tail /\ sealed' = SealedNow \ R /\ phase' = "window"
  BY DEF OpenWindow, Quiet, SealedBut
<1>2. PICK chosen \in kSubset(Lesser(OpCap, Cardinality(CandidatesOf(end))), CandidatesOf(end)) :
        w' = [ops |-> WithPredecessors(chosen \cup (tail \ DOMAIN plan) \cup Rewound,
                                       DOMAIN plan \ Rewound),
              rewound |-> Rewound,
              end |-> end,
              boundary |-> offset + WindowMinutes]
  BY DEF OpenWindow
<1>3. chosen \in SUBSET CandidatesOf(end)
  BY DEF kSubset
<1>4. /\ w'.ops = WithPredecessors(chosen \cup (tail \ DOMAIN plan) \cup R, past)
      /\ w'.rewound = R
  BY <1>2
<1>5. /\ frontier' \subseteq Ops /\ phase = "loop"
      /\ SealedNow \subseteq DOMAIN plan /\ HoldsPredecessors(SealedNow, {})
      /\ HoldsPredecessors(DOMAIN plan, {})
  BY <1>1, StartWindowFacts
<1>6. R \subseteq DOMAIN plan /\ HoldsPredecessors(past, {})
  BY <1>5, RewoundFacts
<1>7. chosen \subseteq Uncommitted /\ tail \subseteq Ops /\ DOMAIN plan \subseteq Ops
  BY <1>3, CandidatesAreOpen DEF Inv, Typed, Timeline
<1> HIDE DEF R
<1>8. w'.ops \subseteq Ops \ past
  <2>1. chosen \cup (tail \ DOMAIN plan) \cup R \in SUBSET (Ops \ past)
    BY <1>6, <1>7 DEF Uncommitted
  <2> HIDE DEF past
  <2> QED BY <1>4, <2>1, ExpansionStaysOpen
<1>9. plan' = plan
  BY <1>1 DEF Quiet
<1>10. SealedIsWhole' /\ sealed' \cap R = {}
  BY <1>1, <1>5, <1>6, <1>9 DEF SealedIsWhole, HoldsPredecessors
<1>11. WindowIsAhead'
  BY <1>4, <1>6, <1>8, <1>9, <1>10 DEF WindowIsAhead, HoldsPredecessors
<1>12. phase' = "done" <=> phase = "done"
  BY <1>1, <1>5
<1> QED BY <1>1, <1>5, <1>7, <1>10, <1>11, <1>12, QuietKeeps

(* A window that ends with a commitment. *)
LEMMA WindowEndKeeps ==
  ASSUME Inv, phase = "window", NEW planned, Typed(planned), DOMAIN planned \subseteq w.ops,
         Commit(planned, CommitCandidates(planned)), NEW rest \in SUBSET Ops, EndWindow(rest)
  PROVE  Inv' /\ KeepsSealed
<1>1. /\ config' = config /\ status' = status /\ frontier' = frontier
      /\ tail' = rest /\ phase' = "loop"
  BY DEF EndWindow
<1>2. Typed(plan') /\ SealedIsWhole' /\ CommitmentIsOrdered' /\ KeepsSealed
  BY <1>1, CommitKeeps
<1>3. status = None /\ None # "feasible"
  BY RecedingFacts DEF Inv
<1>4. WindowIsAhead' /\ ClaimIsTrue' /\ (phase' # "done" => status' = None)
  BY <1>1, <1>3 DEF WindowIsAhead, ClaimIsTrue
<1> QED BY <1>1, <1>2, <1>4 DEF Inv

(* What a replay keeps of an incumbent is typed. *)
LEMMA ReanchoredIsTyped ==
  ASSUME Inv, phase = "window", NEW incumbent \in Incumbents,
         NEW planned \in Reanchored(Restricted(incumbent, w.ops))
  PROVE  Typed(planned) /\ DOMAIN planned \subseteq w.ops
<1> DEFINE inner == Restricted(incumbent, w.ops)
           machines == [o \in DOMAIN inner |-> {inner[o].wc}]
           most == Cardinality(DOMAIN inner)
<1>1. w.ops \in SUBSET Ops /\ Typed(Frozen)
  BY FrozenFacts
<1>2. Typed(incumbent) /\ DOMAIN incumbent = Ops
  <2>1. incumbent \in [Ops -> Assignment] /\ \A o \in Ops : incumbent[o].wc \in Machines /\ incumbent[o].start \in Int
    BY RecedingFacts DEF Assignment
  <2> QED BY <2>1, RecedingFacts DEF Typed, Timeline
<1>3. Typed(inner) /\ DOMAIN inner = w.ops
  BY <1>1, <1>2, RestrictedIsTyped
<1> HIDE DEF inner
<1>4. CASE planned = inner
  BY <1>3, <1>4
<1>5. ASSUME NEW r \in PlaceAll("window", Frozen, DOMAIN inner, StartRank(inner), machines, None, most),
             DOMAIN inner \subseteq DOMAIN r.plan, planned = Restricted(r.plan, DOMAIN inner)
      PROVE  Typed(planned) /\ DOMAIN planned \subseteq w.ops
  <2>1. \A o \in DOMAIN inner : machines[o] \subseteq Machines
    BY <1>3, TypedFacts
  <2> HIDE DEF machines, most
  <2>2. DOMAIN inner \in SUBSET Ops
    BY <1>1, <1>3
  <2> DEFINE D == DOMAIN inner
             rank == StartRank(inner)
             at == Frozen
  <2>3. Typed(at) /\ D \in SUBSET Ops /\ \A o \in D : machines[o] \subseteq Machines
    BY <1>1, <2>1, <2>2
  <2>4. r \in PlaceAll("window", at, D, rank, machines, None, most)
    BY <1>5
  <2> HIDE DEF D, rank, at
  <2>5. Attempt(at, D, r)
    BY <2>3, <2>4, OutcomesAreAttempts
  <2>6. Typed(r.plan)
    BY <2>5 DEF Attempt
  <2> QED BY <1>3, <1>5, <2>6, RestrictedIsTyped
<1>6. \/ planned = inner
      \/ \E r \in PlaceAll("window", Frozen, DOMAIN inner, StartRank(inner), machines, None, most) :
           DOMAIN inner \subseteq DOMAIN r.plan /\ planned = Restricted(r.plan, DOMAIN inner)
  BY DEF Reanchored, inner
<1> HIDE DEF machines, most
<1> QED BY <1>4, <1>5, <1>6

(* An accepted incumbent.                                                   *)
LEMMA AcceptInnerKeeps ==
  ASSUME Inv, AcceptInner
  PROVE  Inv' /\ KeepsSealed
<1>1. phase = "window"
  BY DEF AcceptInner
<1>2. PICK incumbent \in Incumbents :
        \E planned \in Reanchored(Restricted(incumbent, w.ops)) :
          /\ Commit(planned, CommitCandidates(planned))
          /\ EndWindow(DOMAIN planned \ CommitCandidates(planned))
  BY DEF AcceptInner
<1>5. PICK planned \in Reanchored(Restricted(incumbent, w.ops)) :
        /\ Commit(planned, CommitCandidates(planned))
        /\ EndWindow(DOMAIN planned \ CommitCandidates(planned))
  BY <1>2
<1>3. Typed(planned) /\ DOMAIN planned \subseteq w.ops
  BY <1>1, <1>5, ReanchoredIsTyped
<1>4. DOMAIN planned \ CommitCandidates(planned) \in SUBSET Ops
  BY <1>3 DEF Typed, Timeline
<1> QED BY <1>1, <1>3, <1>4, <1>5, WindowEndKeeps

(* The greedy fallback.                                                     *)
LEMMA GreedyFallbackKeeps ==
  ASSUME Inv, GreedyFallback
  PROVE  Inv' /\ KeepsSealed
<1>1. phase = "window" /\ EndWindow({})
  BY DEF GreedyFallback
<1>11. PICK most \in 0 .. Cardinality(w.ops) :
         \E placed \in PlaceAll("window", Frozen, w.ops, DispatchRank, EligibleFor, Horizon, most) :
         \E planned \in {Restricted(placed.plan, DOMAIN placed.plan \ DOMAIN Frozen)} :
           Commit(planned, CommitCandidates(planned))
  BY DEF GreedyFallback
<1>2. PICK placed \in PlaceAll("window", Frozen, w.ops, DispatchRank, EligibleFor, Horizon, most) :
        \E planned \in {Restricted(placed.plan, DOMAIN placed.plan \ DOMAIN Frozen)} :
          Commit(planned, CommitCandidates(planned))
  BY <1>11
<1> DEFINE ops == DOMAIN placed.plan \ DOMAIN Frozen
           planned == Restricted(placed.plan, ops)
           at == Frozen
           todo == w.ops
<1>3. Commit(planned, CommitCandidates(planned))
  BY <1>2
<1>4. Typed(at) /\ todo \in SUBSET Ops /\ \A o \in todo : EligibleFor[o] \subseteq Machines
  <2>1. Typed(at) /\ todo \in SUBSET Ops
    BY <1>1, FrozenFacts
  <2> QED BY <2>1, RecedingFacts
<1>5. placed \in PlaceAll("window", at, todo, DispatchRank, EligibleFor, Horizon, most)
  OBVIOUS
<1> HIDE DEF at, todo
<1>6. Attempt(at, todo, placed)
  BY <1>4, <1>5, OutcomesAreAttempts
<1>7. Typed(placed.plan) /\ ops \subseteq todo
  BY <1>6 DEF Attempt, at
<1>8. ops \in SUBSET DOMAIN placed.plan
  OBVIOUS
<1> HIDE DEF ops
<1>9. Typed(planned) /\ DOMAIN planned = ops
  BY <1>7, <1>8, RestrictedIsTyped
<1> HIDE DEF planned
<1>10. DOMAIN planned \subseteq w.ops /\ {} \in SUBSET Ops
  BY <1>7, <1>9 DEF todo
<1> QED BY <1>1, <1>3, <1>9, <1>10, WindowEndKeeps

(* The residual fill adds only what is not committed.                       *)
LEMMA ResidualFillKeeps ==
  ASSUME Inv, ResidualFill
  PROVE  Inv' /\ KeepsSealed
<1>1. /\ phase = "cover" /\ phase' = "finish" /\ config' = config /\ status' = status /\ sealed' = sealed
      /\ frontier' = frontier /\ tail' = tail
  BY DEF ResidualFill, progress
<1>12. PICK most \in 0 .. Cardinality(Uncommitted) :
         \E placed \in PlaceAll("fill", plan, Uncommitted, CoverRank, EligibleFor, Horizon, most) :
           plan' = placed.plan
  BY DEF ResidualFill
<1>2. PICK placed \in PlaceAll("fill", plan, Uncommitted, CoverRank, EligibleFor, Horizon, most) :
        plan' = placed.plan
  BY <1>12
<1> DEFINE at == plan
           todo == Uncommitted
<1>3. Typed(at) /\ todo \in SUBSET Ops /\ \A o \in todo : EligibleFor[o] \subseteq Machines
  BY RecedingFacts DEF Inv, Uncommitted
<1>4. placed \in PlaceAll("fill", at, todo, CoverRank, EligibleFor, Horizon, most)
  OBVIOUS
<1> HIDE DEF at, todo
<1>5. Attempt(at, todo, placed)
  BY <1>3, <1>4, OutcomesAreAttempts
<1>6. /\ Typed(plan') /\ DOMAIN plan \subseteq DOMAIN plan'
      /\ \A o \in DOMAIN plan : plan'[o] = plan[o]
      /\ \A o \in DOMAIN plan' \ DOMAIN plan : PredecessorOf[o] # None =>
           PredecessorOf[o] \in DOMAIN plan' /\ plan'[PredecessorOf[o]].end <= plan'[o].start
  BY <1>2, <1>5 DEF Attempt, at
<1>7. ASSUME NEW o \in DOMAIN plan', PredecessorOf[o] # None
      PROVE  /\ PredecessorOf[o] \in DOMAIN plan'
             /\ config.gate => plan'[PredecessorOf[o]].end <= plan'[o].start
  <2>1. CASE o \in DOMAIN plan
    <3>1. /\ PredecessorOf[o] \in DOMAIN plan
          /\ config.gate => plan[PredecessorOf[o]].end <= plan[o].start
      BY <1>7, <2>1 DEF Inv, CommitmentIsOrdered
    <3> QED BY <1>6, <2>1, <3>1
  <2>2. CASE o \notin DOMAIN plan
    BY <1>6, <1>7, <2>2
  <2> QED BY <2>1, <2>2
<1>8. CommitmentIsOrdered'
  BY <1>1, <1>7 DEF CommitmentIsOrdered
<1>9. SealedIsWhole' /\ WindowIsAhead'
  BY <1>1, <1>6 DEF Inv, SealedIsWhole, WindowIsAhead, HoldsPredecessors
<1>10. KeepsSealed
  <2>1. \A o \in sealed : o \in DOMAIN plan' /\ plan'[o] = plan[o] /\ plan[o] \in Assignment
    BY <1>6 DEF Inv, SealedIsWhole, Typed
  <2>2. \A o \in sealed : [plan[o] EXCEPT !.setup = plan[o].setup] = plan[o]
    BY <2>1, RestampedAssignment
  <2> QED BY <2>1, <2>2 DEF KeepsSealed
<1>11. ClaimIsTrue' /\ (phase' # "done" => status' = None)
  BY <1>1, RecedingFacts DEF Inv, ClaimIsTrue
<1> QED BY <1>1, <1>6, <1>8, <1>9, <1>10, <1>11 DEF Inv

(* The stabilizer, the last setups and the claim.                           *)
LEMMA FinalizeKeeps ==
  ASSUME Inv, Finalize
  PROVE  Inv' /\ KeepsSealed
<1>1. /\ phase' = "done" /\ config' = config /\ sealed' = sealed
      /\ frontier' = frontier /\ tail' = tail
  BY DEF Finalize, progress
<1>2. PICK stable \in Stabilized :
        plan' = RecomputeSetups(stable.plan) /\ status' = Claim(plan', Converged(stable))
  BY DEF Finalize
<1>3. /\ Typed(stable.plan) /\ DOMAIN stable.plan = DOMAIN plan
      /\ \A o \in sealed \cap DOMAIN plan : stable.plan[o] = plan[o]
      /\ InOrder(stable)
  BY <1>2, StabilizerKeeps DEF Inv, Kept
<1>4. /\ Typed(plan') /\ DOMAIN plan' = DOMAIN plan
      /\ \A o \in DOMAIN plan :
           /\ plan'[o].start = stable.plan[o].start /\ plan'[o].end = stable.plan[o].end
           /\ [plan'[o] EXCEPT !.setup = stable.plan[o].setup] = stable.plan[o]
  BY <1>2, <1>3, RecomputeIsTyped
<1>5. sealed \subseteq DOMAIN plan /\ HoldsPredecessors(sealed, {}) /\ CommitmentIsOrdered
  BY DEF Inv, SealedIsWhole
<1>6. ASSUME NEW o \in DOMAIN plan, PredecessorOf[o] # None
      PROVE  /\ PredecessorOf[o] \in DOMAIN plan
             /\ config.gate => plan'[PredecessorOf[o]].end <= plan'[o].start
  <2>1. /\ PredecessorOf[o] \in DOMAIN plan
        /\ config.gate => plan[PredecessorOf[o]].end <= plan[o].start
    BY <1>5, <1>6 DEF CommitmentIsOrdered
  <2>2. CASE o \in sealed
    <3>1. PredecessorOf[o] \in sealed
      BY <1>5, <1>6, <2>2 DEF HoldsPredecessors
    <3> QED BY <1>3, <1>4, <2>1, <2>2, <3>1
  <2>3. CASE o \notin sealed
    <3>1. stable.plan[PredecessorOf[o]].end <= stable.plan[o].start
      BY <1>3, <2>1, <2>3 DEF InOrder
    <3> QED BY <1>4, <2>1, <3>1
  <2> QED BY <2>2, <2>3
<1>7. CommitmentIsOrdered'
  BY <1>1, <1>4, <1>6 DEF CommitmentIsOrdered
<1>8. SealedIsWhole' /\ WindowIsAhead'
  BY <1>1, <1>4, <1>5 DEF SealedIsWhole, WindowIsAhead, HoldsPredecessors
<1>9. KeepsSealed
  BY <1>3, <1>4, <1>5 DEF KeepsSealed
<1>10. ClaimIsTrue'
  <2> DEFINE at == RecomputeSetups(stable.plan)
  <2>1. Typed(at) /\ plan' = at
    BY <1>2, <1>4
  <2>2. status' = "feasible" => Check(Ops, at, Everything) = {}
    BY <1>2, <2>1 DEF Claim
  <2> HIDE DEF at
  <2>3. status' = "feasible" => Legal(Ops, at)
    BY <2>1, <2>2, NotaryIsSound
  <2> QED BY <2>1, <2>3 DEF ClaimIsTrue
<1> QED BY <1>1, <1>4, <1>7, <1>8, <1>9, <1>10 DEF Inv

(* The run starts in the invariant.                                         *)
LEMMA InitHolds ==
  ASSUME Init
  PROVE  Inv
<1>1. plan = [o \in {} |-> None] /\ DOMAIN plan = {}
  BY DEF Init
<1>2. Typed(plan) /\ CommitmentIsOrdered
  BY <1>1 DEF Typed, Timeline, CommitmentIsOrdered
<1>3. SealedIsWhole /\ WindowIsAhead
  BY DEF Init, SealedIsWhole, WindowIsAhead, HoldsPredecessors
<1>4. frontier \subseteq Ops /\ tail \subseteq Ops /\ (phase # "done" => status = None)
  BY DEF Init
<1>5. ClaimIsTrue
  BY RecedingFacts DEF Init, ClaimIsTrue
<1> QED BY <1>2, <1>3, <1>4, <1>5 DEF Inv

(* Every step keeps the invariant and the place of sealed work.             *)
LEMMA StepsHold ==
  ASSUME Inv, [Next]_vars
  PROVE  Inv' /\ (Next => KeepsSealed)
<1>1. ASSUME NEW end, SkipWindow(end) \/ OpenWindow(end, Rewound) PROVE Inv' /\ KeepsSealed
  BY <1>1, SkipWindowKeeps, OpenWindowKeeps
<1>2. CASE EndWindows \/ SkipFill \/ Tick
  <2>1. /\ Quiet /\ frontier' = frontier /\ tail' = tail /\ sealed' = sealed /\ w' = w
        /\ phase' = "done" <=> phase = "done"
        /\ phase' = "window" => phase = "window"
    BY <1>2 DEF EndWindows, SkipFill, Tick, progress, Quiet
  <2>2. frontier' \subseteq Ops /\ tail' \subseteq Ops /\ SealedIsWhole' /\ WindowIsAhead'
    BY <2>1 DEF Inv, SealedIsWhole, WindowIsAhead, Quiet, HoldsPredecessors
  <2> QED BY <2>1, <2>2, QuietKeeps
<1>3. CASE UNCHANGED vars
  <2>1. /\ Quiet /\ frontier' = frontier /\ tail' = tail /\ sealed' = sealed /\ w' = w
        /\ phase' = phase
    BY <1>3 DEF vars, progress, Quiet
  <2>2. frontier' \subseteq Ops /\ tail' \subseteq Ops /\ SealedIsWhole' /\ WindowIsAhead'
    BY <2>1 DEF Inv, SealedIsWhole, WindowIsAhead, Quiet, HoldsPredecessors
  <2> QED BY <2>1, <2>2, QuietKeeps
<1>4. CASE AcceptInner
  BY <1>4, AcceptInnerKeeps
<1>5. CASE GreedyFallback
  BY <1>5, GreedyFallbackKeeps
<1>6. CASE ResidualFill
  BY <1>6, ResidualFillKeeps
<1>7. CASE Finalize
  BY <1>7, FinalizeKeeps
<1> QED BY <1>1, <1>2, <1>3, <1>4, <1>5, <1>6, <1>7 DEF Next, Run

(* The invariant of every run of the solver.                               *)
THEOREM InvHolds == Spec => []Inv
<1>1. Init => Inv
  BY InitHolds
<1>2. Inv /\ [Next]_vars => Inv'
  BY StepsHold
<1> QED BY <1>1, <1>2, PTL DEF Spec

(* What is committed holds the predecessors of its operations, in every    *)
(* window, after a rewind, a cut and the stabilizer; under the commit gate *)
(* no operation starts before its predecessor ends, whatever the inner     *)
(* solver answers (_window.py, filter_commit_candidates_by_precedence).    *)
THEOREM CommitmentStaysOrdered == Spec => []CommitmentIsOrdered
<1>1. Inv => CommitmentIsOrdered
  BY DEF Inv
<1> QED BY <1>1, InvHolds, PTL

(* A run that claims a feasible schedule has placed every operation, and   *)
(* legally, whatever the windows committed and however the stabilizer left *)
(* it (finalize_rhc_claim_status).                                         *)
THEOREM ClaimsAreTrue == Spec => []ClaimIsTrue
<1>1. Inv => ClaimIsTrue
  BY DEF Inv
<1> QED BY <1>1, InvHolds, PTL

(* What is sealed is not moved by a later window, by the fill or by the    *)
(* stabilizer, unless a window rewinds and so unseals it first             *)
(* (_solver.py, _rank_and_cap_window; _window.py, immutable_op_ids).       *)
THEOREM SealedStays == Spec => SealedWorkStays
<1>1. Inv /\ [Next]_vars => [KeepsSealed]_vars
  BY StepsHold
<1>2. Spec => [][KeepsSealed]_vars
  BY <1>1, InvHolds, PTL DEF Spec
<1> QED BY <1>2 DEF SealedWorkStays
=============================================================================
