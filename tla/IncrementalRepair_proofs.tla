---------------------- MODULE IncrementalRepair_proofs ----------------------
(***************************************************************************)
(* The repairs that are claimed on the verdict of the notary.              *)
(*                                                                         *)
(* Over a clean baseline the delta scope of the notary misses nothing but  *)
(* the calendar (DeltaScopeSuffices).  The radius of a repair grows layer  *)
(* by layer along the order chains and, once there are as many layers as   *)
(* known operations, is closed under successors (ReachIsClosed).  IInv     *)
(* keeps, from the request to the published claim, that only the           *)
(* neighbourhood has left its place and that what a repair has put back    *)
(* stands behind its predecessors.                                         *)
(***************************************************************************)
EXTENDS IncrementalRepair, CpSatModel_proofs

-----------------------------------------------------------------------------
(* The delta notary. *)

(* after is what a repair made of a clean plan: its setups are those of    *)
(* its sequences, and base is the plan as the notary compares it with,     *)
(* setups rewritten.                                                       *)
SameTimes(a, b) == a.wc = b.wc /\ a.start = b.start /\ a.end = b.end

Stamped(at) == \A o \in DOMAIN at : at[o].setup = ActualSetup(at, o)

DeltaOf(old, base, after) ==
  /\ Typed(old) /\ Check(DOMAIN old, old, Everything) = {}
  /\ Typed(after) /\ Stamped(after)
  /\ DOMAIN base = DOMAIN old
  /\ \A o \in DOMAIN old : SameTimes(base[o], old[o])

(* An operation out of scope has not moved. *)
LEMMA OutOfScopeStays ==
  ASSUME NEW old, NEW base, NEW after, DeltaOf(old, base, after), NEW freeze,
         NEW o \in DOMAIN after, o \notin NotaryScope(base, after, freeze).ops
  PROVE  o \in DOMAIN old /\ SameTimes(after[o], old[o])
<1>1. o \notin DirtyOps(base, after, freeze)
  BY DEF NotaryScope
<1>2. o \in DOMAIN base /\ base[o] = after[o]
  BY <1>1 DEF DirtyOps
<1> QED BY <1>2 DEF DeltaOf

(* On a machine out of scope nothing has moved, come or gone. *)
LEMMA UnwalkedMachine ==
  ASSUME NEW old, NEW base, NEW after, DeltaOf(old, base, after), NEW freeze,
         NEW m, m \notin NotaryScope(base, after, freeze).machines
  PROVE  /\ On(after, m) = On(old, m)
         /\ \A o \in On(old, m) : SameTimes(after[o], old[o])
<1> DEFINE dirty == DirtyOps(base, after, freeze)
<1>1. /\ m \notin {base[o].wc : o \in dirty \cap DOMAIN base}
      /\ m \notin {after[o].wc : o \in dirty \cap DOMAIN after}
  BY DEF NotaryScope
<1>2. ASSUME NEW o \in On(after, m) PROVE o \in On(old, m) /\ SameTimes(after[o], old[o])
  <2>1. o \in DOMAIN after /\ after[o].wc = m
    BY DEF On
  <2>2. o \notin dirty
    BY <1>1, <2>1
  <2>3. o \in DOMAIN base /\ base[o] = after[o]
    BY <2>1, <2>2 DEF DirtyOps
  <2>4. o \in DOMAIN old /\ SameTimes(after[o], old[o])
    BY <2>3 DEF DeltaOf
  <2> QED BY <2>1, <2>4 DEF On, SameTimes
<1>3. ASSUME NEW o \in On(old, m) PROVE o \in On(after, m)
  <2>1. o \in DOMAIN base /\ base[o].wc = m
    BY DEF On, DeltaOf, SameTimes
  <2>2. o \notin dirty
    BY <1>1, <2>1
  <2>3. o \in DOMAIN after /\ base[o] = after[o]
    BY <2>1, <2>2 DEF DirtyOps
  <2> QED BY <2>1, <2>3 DEF On
<1> QED BY <1>2, <1>3

(* So its sequence is the old, clean one. *)
LEMMA UnwalkedSequence ==
  ASSUME NEW old, NEW base, NEW after, DeltaOf(old, base, after), NEW freeze,
         NEW m \in Machines, m \notin NotaryScope(base, after, freeze).machines
  PROVE  /\ NoOverlapOn(after, m)
         /\ \A x \in On(after, m) : /\ Predecessor(after, x) = Predecessor(old, x)
                                    /\ ActualSetup(after, x) = ActualSetup(old, x)
<1>1. /\ On(after, m) = On(old, m)
      /\ \A o \in On(old, m) : SameTimes(after[o], old[o])
  BY UnwalkedMachine
<1>2. Overlaps(old, Everything) = {} /\ Typed(old) /\ Typed(after)
  BY DEF DeltaOf, Check
<1>3. NoOverlapOn(old, m)
  BY <1>2, WalkedMachine DEF Everything
<1>4. NoOverlapOn(after, m)
  BY <1>1, <1>3 DEF NoOverlapOn, SameTimes
<1>5. ASSUME NEW x \in On(after, m)
      PROVE  Predecessor(after, x) = Predecessor(old, x) /\ ActualSetup(after, x) = ActualSetup(old, x)
  <2>1. /\ x \in DOMAIN after /\ after[x].wc = m
        /\ x \in DOMAIN old /\ old[x].wc = m
    BY <1>1 DEF On
  <2> DEFINE p == Predecessor(after, x)
  <2>2. p \in On(after, m) \cup {None} /\ Follows(after, m, p, x)
    BY <1>2, <2>1, PredecessorFollows DEF Typed
  <2> HIDE DEF p
  <2>3. p \in On(old, m) \cup {None} /\ Follows(old, m, p, x)
    BY <1>1, <2>2 DEF Follows, SameTimes
  <2>4. p = Predecessor(old, x)
    BY <1>2, <1>3, <2>1, <2>3, OnePredecessor
  <2> QED BY <2>1, <2>4 DEF ActualSetup, p
<1> QED BY <1>4, <1>5

(* Pools: every window is the one an exhaustive check would derive. *)
LEMMA DeltaOccupancy ==
  ASSUME NEW old, NEW base, NEW after, DeltaOf(old, base, after), NEW freeze
  PROVE  OverloadedPools(after, NotaryScope(base, after, freeze)) = OverloadedPools(after, Everything)
<1> DEFINE scope == NotaryScope(base, after, freeze)
<1>1. ASSUME NEW o \in DOMAIN after
      PROVE  OccupiedFrom(after, scope, o) = OccupiedFrom(after, Everything, o)
  <2>1. after[o].wc \in Machines /\ Everything.machines = Machines
    BY TypedFacts DEF DeltaOf, Everything
  <2> DEFINE p == Predecessor(after, o)
  <2>2. CASE p = None
    BY <2>2 DEF OccupiedFrom
  <2>3. CASE p # None /\ after[o].wc \in scope.machines
    BY <2>1, <2>3 DEF OccupiedFrom
  <2>4. CASE p # None /\ after[o].wc \notin scope.machines
    <3>1. NoOverlapOn(after, after[o].wc)
      BY <2>1, <2>4, UnwalkedSequence
    <3>2. after[o].setup = SetupBetween(after[o].wc, p, o)
      BY <2>4 DEF DeltaOf, Stamped, ActualSetup, SetupAfter
    <3>3. p \in DOMAIN after /\ after[p].end <= after[o].start
      BY <2>4, <3>1, WalkedNeighbours DEF DeltaOf
    <3>4. after[p].end \in Int /\ after[o].start \in Int
      BY <3>3, TypedFacts DEF DeltaOf
    <3> HIDE DEF p, scope
    <3>5. ~ (after[p].end > after[o].start)
      BY <3>3, <3>4
    <3> QED BY <2>1, <2>4, <3>2, <3>5 DEF OccupiedFrom, p
  <2> QED BY <2>2, <2>3, <2>4
<1> HIDE DEF scope
<1>2. Occupancy(after, scope) = Occupancy(after, Everything)
  BY <1>1 DEF Occupancy
<1>3. ASSUME NEW s
      PROVE  OverloadedPools(after, s) =
             {<<"AUX_RESOURCE_CAPACITY_VIOLATION", o>> : o \in
                {x \in DOMAIN after : \E r \in RequiredBy(x) :
                   Held(Occupancy(after, s), r, Occupancy(after, s)[x].from) > PoolSize[r]}}
  BY DEF OverloadedPools, Occupancy
<1> QED BY <1>2, <1>3 DEF scope

(* What a delta verdict without violations leaves for the exhaustive one:  *)
(* only shifts.                                                            *)
THEOREM DeltaScopeSuffices ==
  ASSUME NEW old, NEW base, NEW after, DeltaOf(old, base, after), NEW freeze, NEW ops,
         Check(ops, after, NotaryScope(base, after, freeze)) = {}
  PROVE  \A v \in Check(ops, after, Everything) : v[1] = "CALENDAR_VIOLATION"
<1> DEFINE scope == NotaryScope(base, after, freeze)
<1>1. /\ Missing(ops, after) = {} /\ Ineligible(after, scope) = {}
      /\ TornChains(after, scope) = {} /\ BrokenEdges(after, scope) = {}
      /\ Overlaps(after, scope) = {} /\ ShortGaps(after, scope) = {}
      /\ OverloadedPools(after, scope) = {} /\ OutOfHorizon(after, scope) = {}
      /\ BeforeRelease(after, scope) = {}
  BY DEF Check
<1>2. /\ Ineligible(old, Everything) = {}
      /\ TornChains(old, Everything) = {} /\ BrokenEdges(old, Everything) = {}
      /\ ShortGaps(old, Everything) = {} /\ Overlaps(old, Everything) = {}
      /\ OutOfHorizon(old, Everything) = {} /\ BeforeRelease(old, Everything) = {}
      /\ Typed(old) /\ Typed(after)
  BY DEF DeltaOf, Check
<1>3. /\ DOMAIN old \subseteq Ops /\ DOMAIN after \subseteq Ops
      /\ Everything.ops = Ops /\ Everything.machines = Machines
  BY <1>2 DEF Everything, Typed, Timeline
<1>4. ASSUME NEW o \in DOMAIN after, o \notin scope.ops
      PROVE  /\ o \in DOMAIN old
             /\ after[o].wc = old[o].wc /\ after[o].start = old[o].start /\ after[o].end = old[o].end
  BY <1>4, OutOfScopeStays DEF SameTimes
<1>5. \A m \in Machines : NoOverlapOn(after, m)
  <2>1. ASSUME NEW m \in Machines PROVE NoOverlapOn(after, m)
    <3>1. CASE m \in scope.machines
      BY <1>1, <1>2, <3>1, WalkedMachine
    <3>2. CASE m \notin scope.machines
      BY <3>2, UnwalkedSequence
    <3> QED BY <3>1, <3>2
  <2> QED BY <2>1
<1>6. Ineligible(after, Everything) = {}
  <2>1. SUFFICES ASSUME NEW x \in DOMAIN after, after[x].wc \notin EligibleFor[x] PROVE FALSE
    BY DEF Ineligible
  <2>2. x \in scope.ops => <<"INELIGIBLE_MACHINE", x>> \in Ineligible(after, scope)
    BY <2>1 DEF Ineligible
  <2>3. x \notin scope.ops => <<"INELIGIBLE_MACHINE", x>> \in Ineligible(old, Everything)
    BY <1>3, <1>4, <2>1 DEF Ineligible
  <2> QED BY <1>1, <1>2, <2>2, <2>3
<1>7. TornChains(after, Everything) = {}
  <2>1. SUFFICES ASSUME NEW x \in DOMAIN after, PredecessorOf[x] \in DOMAIN after,
                        after[x].start < after[PredecessorOf[x]].end
                 PROVE  FALSE
    BY DEF TornChains
  <2>2. {x, PredecessorOf[x]} \cap scope.ops # {} =>
          <<"PRECEDENCE_VIOLATION", x>> \in TornChains(after, scope)
    BY <2>1 DEF TornChains
  <2>3. ASSUME {x, PredecessorOf[x]} \cap scope.ops = {}
        PROVE  <<"PRECEDENCE_VIOLATION", x>> \in TornChains(old, Everything)
    <3>1. x \notin scope.ops /\ PredecessorOf[x] \notin scope.ops
      BY <2>3
    <3> HIDE DEF scope
    <3>2. /\ x \in DOMAIN old /\ PredecessorOf[x] \in DOMAIN old
          /\ old[x].start < old[PredecessorOf[x]].end
      BY <1>4, <2>1, <3>1
    <3>3. {x, PredecessorOf[x]} \cap Everything.ops # {}
      BY <1>3, <3>2
    <3> QED BY <3>2, <3>3 DEF TornChains
  <2> QED BY <1>1, <1>2, <2>2, <2>3
<1>8. BrokenEdges(after, Everything) = {}
  <2>1. SUFFICES ASSUME NEW e \in Edges, {e.src, e.dst} \subseteq DOMAIN after,
                        EdgeAnchors(after, e).dst < EdgeAnchors(after, e).src + e.min_lag
                 PROVE  FALSE
    BY DEF BrokenEdges
  <2>2. {e.src, e.dst} \cap scope.ops # {} =>
          <<"PRECEDENCE_EDGE_VIOLATION", e.dst>> \in BrokenEdges(after, scope)
    BY <2>1 DEF BrokenEdges
  <2>3. ASSUME {e.src, e.dst} \cap scope.ops = {}
        PROVE  <<"PRECEDENCE_EDGE_VIOLATION", e.dst>> \in BrokenEdges(old, Everything)
    <3>1. /\ e.src \in DOMAIN after /\ e.dst \in DOMAIN after
          /\ e.src \notin scope.ops /\ e.dst \notin scope.ops
      BY <2>1, <2>3
    <3> HIDE DEF scope
    <3>2. EdgeAnchors(after, e) = EdgeAnchors(old, e)
      BY <1>4, <3>1 DEF EdgeAnchors
    <3>3. {e.src, e.dst} \subseteq DOMAIN old
      BY <1>4, <3>1
    <3>4. {e.src, e.dst} \cap Everything.ops # {}
      BY <1>3, <3>3
    <3> QED BY <2>1, <3>2, <3>3, <3>4 DEF BrokenEdges
  <2> QED BY <1>1, <1>2, <2>2, <2>3
<1>9. Overlaps(after, Everything) = {}
  <2>1. SUFFICES ASSUME NEW x \in DOMAIN after, NEW p \in On(after, after[x].wc) \ {x},
                        after[p].start <= after[x].start, after[x].start < after[p].end
                 PROVE  FALSE
    BY DEF Overlaps
  <2>2. after[x].wc \in Machines /\ x \in On(after, after[x].wc)
    BY <1>2, TypedFacts DEF On
  <2> QED BY <1>5, <2>1, <2>2 DEF NoOverlapOn
<1>10. ShortGaps(after, Everything) = {}
  <2>1. SUFFICES ASSUME NEW x \in DOMAIN after, Predecessor(after, x) # None,
                        after[Predecessor(after, x)].end <= after[x].start,
                        after[x].start < after[Predecessor(after, x)].end + ActualSetup(after, x)
                 PROVE  FALSE
    BY DEF ShortGaps
  <2>2. after[x].wc \in scope.machines => <<"SETUP_GAP_VIOLATION", x>> \in ShortGaps(after, scope)
    BY <2>1 DEF ShortGaps
  <2>3. ASSUME after[x].wc \notin scope.machines
        PROVE  <<"SETUP_GAP_VIOLATION", x>> \in ShortGaps(old, Everything)
    <3> DEFINE m == after[x].wc
               p == Predecessor(after, x)
    <3>1. m \in Machines /\ x \in On(after, m) /\ p \in On(after, m)
      <4>1. p \in On(after, m) \cup {None}
        BY <1>2, PredecessorFollows DEF Typed
      <4> QED BY <1>2, <2>1, <4>1, TypedFacts DEF On
    <3>2. /\ On(after, m) = On(old, m)
          /\ \A o \in On(old, m) : SameTimes(after[o], old[o])
      BY <2>3, UnwalkedMachine
    <3>3. p = Predecessor(old, x) /\ ActualSetup(after, x) = ActualSetup(old, x)
      BY <2>3, <3>1, UnwalkedSequence
    <3>4. x \in DOMAIN old /\ old[x].wc \in Everything.machines
      BY <1>3, <3>1, <3>2 DEF On
    <3>5. after[p].end = old[p].end /\ after[x].start = old[x].start
      BY <3>1, <3>2 DEF SameTimes
    <3> HIDE DEF m, p
    <3> QED BY <2>1, <3>3, <3>4, <3>5 DEF ShortGaps, p
  <2> QED BY <1>1, <1>2, <2>2, <2>3
<1>11. OverloadedPools(after, Everything) = {}
  BY <1>1, DeltaOccupancy
<1>12. OutOfHorizon(after, Everything) = {}
  <2>1. SUFFICES ASSUME NEW x \in DOMAIN after,
                        \/ after[x].start < 0
                        \/ after[x].end > HorizonEnd
                        \/ LatestFinish[x] # None /\ after[x].end > LatestFinish[x]
                 PROVE  FALSE
    BY DEF OutOfHorizon
  <2>2. x \in scope.ops => <<"HORIZON_BOUND_VIOLATION", x>> \in OutOfHorizon(after, scope)
    BY <2>1 DEF OutOfHorizon
  <2>3. x \notin scope.ops => <<"HORIZON_BOUND_VIOLATION", x>> \in OutOfHorizon(old, Everything)
    BY <1>3, <1>4, <2>1 DEF OutOfHorizon
  <2> QED BY <1>1, <1>2, <2>2, <2>3
<1>13. BeforeRelease(after, Everything) = {}
  <2>1. SUFFICES ASSUME NEW x \in DOMAIN after, after[x].start < Release[x] PROVE FALSE
    BY DEF BeforeRelease
  <2>2. x \in scope.ops => <<"RELEASE_DATE_VIOLATION", x>> \in BeforeRelease(after, scope)
    BY <2>1 DEF BeforeRelease
  <2>3. x \notin scope.ops => <<"RELEASE_DATE_VIOLATION", x>> \in BeforeRelease(old, Everything)
    BY <1>3, <1>4, <2>1 DEF BeforeRelease
  <2> QED BY <1>1, <1>2, <2>2, <2>3
<1>14. Check(ops, after, Everything) = OutOfShift(after, Everything)
  BY <1>1, <1>6, <1>7, <1>8, <1>9, <1>10, <1>11, <1>12, <1>13 DEF Check
<1>15. \A v \in OutOfShift(after, Everything) : v[1] = "CALENDAR_VIOLATION"
  BY DEF OutOfShift
<1> QED BY <1>14, <1>15

-----------------------------------------------------------------------------
(* What lies behind a disruption.  Reach is Downstream with the operations *)
(* of the problem as a parameter.                                          *)
Behind(ops, s) == {o \in ops : PredecessorOf[o] \in s}

Layers(ops, s, indices, g) ==
  g = [k \in indices |-> IF k = 0 THEN s ELSE g[k - 1] \cup Behind(ops, g[k - 1])]

Reach(ops, s, n) == (CHOOSE g : Layers(ops, s, 0 .. n, g))[n]

LEMMA LayerEquation ==
  ASSUME NEW ops, NEW s, NEW indices, NEW g, Layers(ops, s, indices, g)
  PROVE  /\ 0 \in indices => g[0] = s
         /\ \A k \in indices : k # 0 => g[k] = g[k - 1] \cup Behind(ops, g[k - 1])
<1> DEFINE value(i) == IF i = 0 THEN s ELSE g[i - 1] \cup Behind(ops, g[i - 1])
<1>1. g = [i \in indices |-> value(i)]
  BY DEF Layers
<1> HIDE DEF value
<1>2. \A k \in indices : g[k] = value(k)
  BY <1>1
<1> QED BY <1>2 DEF value

LEMMA LayersAgree ==
  ASSUME NEW ops, NEW s, NEW n \in Nat, NEW i \in 0 .. n, NEW g, NEW h,
         Layers(ops, s, 0 .. n, g), Layers(ops, s, 0 .. i, h)
  PROVE  \A k \in 0 .. i : g[k] = h[k]
<1> DEFINE Bad == {k \in 0 .. i : g[k] # h[k]}
           ahead == 0 .. n
           within == 0 .. i
<1>1. SUFFICES ASSUME Bad # {} PROVE FALSE
  BY <1>1
<1>2. PICK k \in Bad : \A j \in Bad : k <= j
  <2>1. Bad \in SUBSET Nat
    OBVIOUS
  <2> HIDE DEF Bad
  <2> QED BY <1>1, <2>1, LeastNatural
<1>3. k \in ahead /\ k \in within /\ 0 \in ahead /\ 0 \in within /\ k \in Nat
  BY <1>2
<1>4. /\ g[0] = s
      /\ \A j \in ahead : j # 0 => g[j] = g[j - 1] \cup Behind(ops, g[j - 1])
  <2> HIDE DEF ahead, Bad
  <2> QED BY <1>3, LayerEquation DEF ahead
<1>5. /\ h[0] = s
      /\ \A j \in within : j # 0 => h[j] = h[j - 1] \cup Behind(ops, h[j - 1])
  <2>1. Layers(ops, s, within, h)
    OBVIOUS
  <2> HIDE DEF within, Bad
  <2> QED BY <1>3, <2>1, LayerEquation
<1>6. k # 0
  BY <1>2, <1>4, <1>5
<1>7. k - 1 \in 0 .. i /\ ~ (k <= k - 1)
  BY <1>3, <1>6
<1>8. g[k - 1] = h[k - 1]
  BY <1>2, <1>7
<1>9. g[k] = h[k]
  BY <1>3, <1>4, <1>5, <1>6, <1>8
<1> QED BY <1>2, <1>9

LEMMA LayersExist ==
  ASSUME NEW ops, NEW s, NEW n \in Nat
  PROVE  \E g : Layers(ops, s, 0 .. n, g)
<1> DEFINE Layered(k) == \E g : Layers(ops, s, 0 .. k, g)
           Bad == {k \in Nat : ~ Layered(k)}
<1>1. SUFFICES ASSUME Bad # {} PROVE FALSE
  BY <1>1
<1>2. PICK k \in Bad : \A j \in Bad : k <= j
  <2>1. Bad \in SUBSET Nat
    OBVIOUS
  <2> HIDE DEF Bad
  <2> QED BY <1>1, <2>1, LeastNatural
<1>3. CASE k = 0
  <2> DEFINE g == [j \in 0 .. 0 |-> s]
  <2>1. Layers(ops, s, 0 .. 0, g)
    BY DEF Layers
  <2> QED BY <1>2, <1>3, <2>1
<1>4. CASE k # 0
  <2>1. k \in Nat /\ k - 1 \in Nat /\ ~ (k <= k - 1)
    BY <1>2, <1>4
  <2> DEFINE before == 0 .. k - 1
  <2>2. PICK g : Layers(ops, s, before, g)
    BY <1>2, <2>1
  <2>3. /\ 0 \in before => g[0] = s
        /\ \A j \in before : j # 0 => g[j] = g[j - 1] \cup Behind(ops, g[j - 1])
    <3> HIDE DEF before, Bad
    <3> QED BY <2>2, LayerEquation
  <2> DEFINE h == [j \in 0 .. k |-> IF j = k THEN g[k - 1] \cup Behind(ops, g[k - 1]) ELSE g[j]]
  <2>4. ASSUME NEW j \in 0 .. k
        PROVE  h[j] = IF j = 0 THEN s ELSE h[j - 1] \cup Behind(ops, h[j - 1])
    <3>1. CASE j = k
      <4>1. h[j - 1] = g[k - 1]
        BY <2>1, <3>1
      <4> QED BY <1>4, <3>1, <4>1
    <3>2. CASE j # k
      <4>1. j \in before /\ h[j] = g[j] /\ 0 \in before
        BY <2>1, <3>2
      <4>2. j # 0 => h[j - 1] = g[j - 1]
        BY <2>1, <4>1
      <4> HIDE DEF h, before
      <4> QED BY <2>3, <4>1, <4>2
    <3> QED BY <3>1, <3>2
  <2>5. Layers(ops, s, 0 .. k, h)
    <3>1. h = [j \in 0 .. k |-> h[j]]
      OBVIOUS
    <3> HIDE DEF h
    <3> QED BY <2>4, <3>1 DEF Layers
  <2> QED BY <1>2, <2>5
<1> QED BY <1>3, <1>4

LEMMA ReachSteps ==
  ASSUME NEW ops, NEW s, NEW n \in Nat
  PROVE  /\ Reach(ops, s, 0) = s
         /\ Reach(ops, s, n + 1) = Reach(ops, s, n) \cup Behind(ops, Reach(ops, s, n))
<1> DEFINE At(k) == CHOOSE g : Layers(ops, s, 0 .. k, g)
           first == 0 .. 0
           longer == 0 .. n + 1
           g0 == At(0)
           g == At(n + 1)
           h == At(n)
<1>1. \A k \in Nat : Layers(ops, s, 0 .. k, At(k)) /\ Reach(ops, s, k) = At(k)[k]
  BY LayersExist DEF Reach
<1>2. /\ Layers(ops, s, first, g0) /\ Reach(ops, s, 0) = g0[0]
      /\ Layers(ops, s, longer, g) /\ Reach(ops, s, n + 1) = g[n + 1]
      /\ Layers(ops, s, 0 .. n, h) /\ Reach(ops, s, n) = h[n]
  <2> HIDE DEF At
  <2>1. 0 \in Nat /\ n + 1 \in Nat
    OBVIOUS
  <2>2. Layers(ops, s, first, g0) /\ Reach(ops, s, 0) = g0[0]
    BY <1>1, <2>1
  <2>3. Layers(ops, s, longer, g) /\ Reach(ops, s, n + 1) = g[n + 1]
    BY <1>1, <2>1
  <2>4. Layers(ops, s, 0 .. n, h) /\ Reach(ops, s, n) = h[n]
    BY <1>1
  <2> QED BY <2>2, <2>3, <2>4
<1> HIDE DEF At, g0, g, h
<1>3. g0[0] = s
  <2>1. 0 \in first
    OBVIOUS
  <2> HIDE DEF first
  <2> QED BY <1>2, <2>1, LayerEquation
<1>4. g[n + 1] = g[n] \cup Behind(ops, g[n])
  <2>1. n + 1 \in longer /\ n + 1 # 0 /\ n + 1 - 1 = n
    OBVIOUS
  <2> HIDE DEF longer
  <2>2. \A k \in longer : k # 0 => g[k] = g[k - 1] \cup Behind(ops, g[k - 1])
    BY <1>2, LayerEquation
  <2> QED BY <2>1, <2>2
<1>5. g[n] = h[n]
  <2>1. n + 1 \in Nat /\ n \in 0 .. n + 1 /\ n \in 0 .. n
    OBVIOUS
  <2> QED BY <1>2, <2>1, LayersAgree
<1> QED BY <1>2, <1>3, <1>4, <1>5

Closed(ops, s) == Behind(ops, s) \subseteq s

(* A set that holds the first layer and what is behind it holds them all.  *)
LEMMA ReachStaysWithin ==
  ASSUME NEW ops, NEW s, NEW i \in Nat, NEW all, Reach(ops, s, i) \subseteq all, Closed(ops, all),
         NEW n \in Nat, i <= n
  PROVE  Reach(ops, s, n) \subseteq all
<1> DEFINE Bad == {k \in Nat : i <= k /\ ~ Reach(ops, s, k) \subseteq all}
<1>1. SUFFICES ASSUME Bad # {} PROVE FALSE
  BY <1>1
<1>2. PICK k \in Bad : \A j \in Bad : k <= j
  <2>1. Bad \in SUBSET Nat
    OBVIOUS
  <2> HIDE DEF Bad
  <2> QED BY <1>1, <2>1, LeastNatural
<1>3. k # i
  BY <1>2
<1>4. k \in Nat /\ k - 1 \in Nat /\ i <= k - 1 /\ ~ (k <= k - 1) /\ (k - 1) + 1 = k
  BY <1>2, <1>3
<1>5. Reach(ops, s, k - 1) \subseteq all
  BY <1>2, <1>4
<1>6. Reach(ops, s, k) = Reach(ops, s, k - 1) \cup Behind(ops, Reach(ops, s, k - 1))
  <2>1. Reach(ops, s, (k - 1) + 1) = Reach(ops, s, k - 1) \cup Behind(ops, Reach(ops, s, k - 1))
    BY <1>4, ReachSteps
  <2> QED BY <1>4, <2>1
<1>7. Behind(ops, Reach(ops, s, k - 1)) \subseteq all
  BY <1>5 DEF Closed, Behind
<1> QED BY <1>2, <1>5, <1>6, <1>7

LEMMA ReachGrows ==
  ASSUME NEW ops, NEW s, NEW i \in Nat, NEW n \in Nat, i <= n
  PROVE  Reach(ops, s, i) \subseteq Reach(ops, s, n)
<1> DEFINE Bad == {k \in Nat : i <= k /\ ~ Reach(ops, s, i) \subseteq Reach(ops, s, k)}
<1>1. SUFFICES ASSUME Bad # {} PROVE FALSE
  BY <1>1
<1>2. PICK k \in Bad : \A j \in Bad : k <= j
  <2>1. Bad \in SUBSET Nat
    OBVIOUS
  <2> HIDE DEF Bad
  <2> QED BY <1>1, <2>1, LeastNatural
<1>3. k # i
  BY <1>2
<1>4. k \in Nat /\ k - 1 \in Nat /\ i <= k - 1 /\ ~ (k <= k - 1) /\ (k - 1) + 1 = k
  BY <1>2, <1>3
<1>5. Reach(ops, s, i) \subseteq Reach(ops, s, k - 1)
  BY <1>2, <1>4
<1>6. Reach(ops, s, k - 1) \subseteq Reach(ops, s, (k - 1) + 1)
  BY <1>4, ReachSteps
<1> QED BY <1>2, <1>4, <1>5, <1>6

LEMMA ReachIsFinite ==
  ASSUME NEW ops, IsFiniteSet(ops), NEW s \in SUBSET ops, NEW n \in Nat
  PROVE  /\ Reach(ops, s, n) \subseteq ops
         /\ IsFiniteSet(Reach(ops, s, n))
         /\ Cardinality(Reach(ops, s, n)) \in Nat
         /\ Cardinality(Reach(ops, s, n)) <= Cardinality(ops)
<1>1. Reach(ops, s, 0) \subseteq ops
  BY ReachSteps
<1>2. Closed(ops, ops)
  BY DEF Closed, Behind
<1>3. Reach(ops, s, n) \subseteq ops
  BY <1>1, <1>2, ReachStaysWithin
<1> QED BY <1>3, FS_Subset, FS_CardinalityType

(* Until nothing is left behind it, every layer adds an operation.         *)
LEMMA EveryLayerAdds ==
  ASSUME NEW ops, IsFiniteSet(ops), NEW s \in SUBSET ops, NEW n \in Nat,
         ~ Closed(ops, Reach(ops, s, n))
  PROVE  Cardinality(Reach(ops, s, n + 1)) >= Cardinality(s) + n + 1
<1> DEFINE size(k) == Cardinality(Reach(ops, s, k))
           Bad == {k \in Nat : ~ Closed(ops, Reach(ops, s, k)) /\ ~ (size(k + 1) >= Cardinality(s) + k + 1)}
<1>1. SUFFICES ASSUME Bad # {} PROVE FALSE
  BY <1>1
<1>2. PICK k \in Bad : \A j \in Bad : k <= j
  <2>1. Bad \in SUBSET Nat
    OBVIOUS
  <2> HIDE DEF Bad
  <2> QED BY <1>1, <2>1, LeastNatural
<1>3. k \in Nat /\ ~ Closed(ops, Reach(ops, s, k)) /\ ~ (size(k + 1) >= Cardinality(s) + k + 1)
  BY <1>2
<1>4. Cardinality(s) \in Nat
  BY FS_Subset, FS_CardinalityType
<1>5. \A j \in Nat : size(j) \in Nat /\ IsFiniteSet(Reach(ops, s, j))
  BY ReachIsFinite
<1>6. size(k + 1) > size(k)
  <2> DEFINE a == Reach(ops, s, k)
             b == Reach(ops, s, k + 1)
  <2>1. b = a \cup Behind(ops, a)
    BY <1>3, ReachSteps
  <2>2. a \subseteq b /\ a # b
    BY <1>3, <2>1 DEF Closed
  <2>3. IsFiniteSet(b) /\ Cardinality(a) \in Nat /\ Cardinality(b) \in Nat
    BY <1>3, <1>5
  <2> HIDE DEF a, b
  <2>4. Cardinality(a) < Cardinality(b)
    BY <2>2, <2>3, FS_Subset
  <2> QED BY <2>3, <2>4 DEF a, b
<1>7. size(k) >= Cardinality(s) + k
  <2>1. CASE k = 0
    <3>1. Reach(ops, s, 0) = s
      BY <1>3, ReachSteps
    <3> QED BY <1>4, <2>1, <3>1
  <2>2. CASE k # 0
    <3>1. k - 1 \in Nat /\ ~ (k <= k - 1) /\ (k - 1) + 1 = k /\ k - 1 <= k
      BY <1>3, <2>2
    <3>2. ~ Closed(ops, Reach(ops, s, k - 1))
      <4>1. SUFFICES ASSUME Closed(ops, Reach(ops, s, k - 1)) PROVE FALSE
        OBVIOUS
      <4>2. Reach(ops, s, k) \subseteq Reach(ops, s, k - 1)
        BY <1>3, <3>1, <4>1, ReachStaysWithin
      <4>3. Reach(ops, s, k - 1) \subseteq Reach(ops, s, k)
        BY <1>3, <3>1, ReachGrows
      <4>4. Reach(ops, s, k) = Reach(ops, s, k - 1)
        BY <4>2, <4>3
      <4> QED BY <1>3, <4>1, <4>4
    <3>3. size((k - 1) + 1) >= Cardinality(s) + (k - 1) + 1
      BY <1>2, <3>1, <3>2
    <3>4. Cardinality(s) + (k - 1) + 1 = Cardinality(s) + k
      BY <1>3, <1>4
    <3> QED BY <3>1, <3>3, <3>4
  <2> QED BY <2>1, <2>2
<1>8. size(k) \in Nat /\ size(k + 1) \in Nat
  BY <1>3, <1>5
<1> HIDE DEF size
<1> QED BY <1>3, <1>4, <1>6, <1>7, <1>8

(* What is behind a disruption is all reached in as many steps as there    *)
(* are operations; no number of steps reaches more.                        *)
LEMMA WholeReach ==
  ASSUME NEW ops, IsFiniteSet(ops), NEW s \in SUBSET ops
  PROVE  /\ Closed(ops, Reach(ops, s, Cardinality(ops)))
         /\ \A k \in Nat : Reach(ops, s, k) \subseteq Reach(ops, s, Cardinality(ops))
<1> DEFINE N == Cardinality(ops)
           all == Reach(ops, s, N)
<1>1. N \in Nat /\ Cardinality(s) \in Nat
  BY FS_Subset, FS_CardinalityType
<1>2. Closed(ops, all)
  <2>1. SUFFICES ASSUME ~ Closed(ops, all) PROVE FALSE
    OBVIOUS
  <2>2. Cardinality(Reach(ops, s, N + 1)) >= Cardinality(s) + N + 1
    BY <1>1, <2>1, EveryLayerAdds
  <2>3. Cardinality(Reach(ops, s, N + 1)) \in Nat /\ Cardinality(Reach(ops, s, N + 1)) <= N
    BY <1>1, ReachIsFinite
  <2> HIDE DEF N
  <2> QED BY <1>1, <2>2, <2>3
<1>3. ASSUME NEW k \in Nat PROVE Reach(ops, s, k) \subseteq all
  <2>1. CASE k <= N
    BY <1>1, <2>1, ReachGrows
  <2>2. CASE N <= k
    BY <1>1, <1>2, <2>2, ReachStaysWithin
  <2> QED BY <1>1, <2>1, <2>2
<1> QED BY <1>2, <1>3

(* As many steps as there are operations behind it reach them all.         *)
LEMMA ReachIsClosed ==
  ASSUME NEW ops, IsFiniteSet(ops), NEW s \in SUBSET ops, NEW n \in Nat,
         \/ Cardinality(ops) <= n
         \/ Cardinality(Reach(ops, s, Cardinality(ops)) \ s) <= n
  PROVE  Closed(ops, Reach(ops, s, n))
<1> DEFINE N == Cardinality(ops)
           all == Reach(ops, s, N)
<1>1. N \in Nat /\ Cardinality(s) \in Nat
  BY FS_Subset, FS_CardinalityType
<1>2. Closed(ops, all) /\ \A k \in Nat : Reach(ops, s, k) \subseteq all
  BY WholeReach
<1>3. CASE N <= n
  <2>1. all \subseteq Reach(ops, s, n)
    BY <1>1, <1>3, ReachGrows
  <2>2. Reach(ops, s, n) = all
    BY <1>2, <2>1
  <2> QED BY <1>2, <2>2
<1>4. CASE Cardinality(all \ s) <= n
  <2>1. SUFFICES ASSUME ~ Closed(ops, Reach(ops, s, n)) PROVE FALSE
    OBVIOUS
  <2>2. Cardinality(Reach(ops, s, n + 1)) >= Cardinality(s) + n + 1
    BY <2>1, EveryLayerAdds
  <2>3. Reach(ops, s, n + 1) \subseteq all
    BY <1>2
  <2>4. IsFiniteSet(all) /\ IsFiniteSet(s) /\ Cardinality(all) \in Nat
    BY <1>1, ReachIsFinite, FS_Subset
  <2>5. s \subseteq all
    <3>1. Reach(ops, s, 0) = s
      BY <1>1, ReachSteps
    <3> QED BY <1>2, <3>1
  <2> HIDE DEF all, N
  <2>6. Cardinality(all) = Cardinality(s) + Cardinality(all \ s)
    <3>1. Cardinality(all \ s) = Cardinality(all) - Cardinality(all \cap s)
      BY <2>4, FS_Difference
    <3>2. all \cap s = s
      BY <2>5
    <3>3. Cardinality(all) - Cardinality(s) = Cardinality(all \ s)
      BY <3>1, <3>2
    <3> QED BY <1>1, <2>4, <3>3
  <2>7. Cardinality(Reach(ops, s, n + 1)) <= Cardinality(all)
    BY <2>3, <2>4, FS_Subset
  <2>8. Cardinality(Reach(ops, s, n + 1)) \in Nat /\ Cardinality(all \ s) \in Nat
    BY <2>3, <2>4, FS_Subset, FS_CardinalityType
  <2> QED BY <1>1, <1>4, <2>2, <2>6, <2>7, <2>8
<1> QED BY <1>3, <1>4

-----------------------------------------------------------------------------
(* The neighbourhood of a request, with the problem and the plan as        *)
(* parameters.                                                             *)
Recommended(ops, disrupted, regime) ==
  LET n == Cardinality(disrupted)
      behind == Cardinality(Reach(ops, disrupted, Cardinality(ops)) \ disrupted)
  IN  CASE regime = "breakdown" ->
             Larger(2, Smaller(Cardinality(ops), Larger(2 * n, behind)))
        [] regime = "rush_order" ->
             Larger(3, Smaller(Cardinality(ops), Larger(n + 2, behind)))
        [] regime = "interactive" -> 1

RadiusIn(ops, q) ==
  IF q.radius = None THEN Recommended(ops, q.disrupted, q.regime) ELSE q.radius

FrozenIn(at, q) ==
  IF q.freezeEnd = None \/ q.breakFreeze
    THEN {}
    ELSE {o \in DOMAIN at : at[o].start < q.freezeEnd}
         \ (IF q.regime = "breakdown" THEN q.disrupted ELSE {})

Taken(ops, at, q) == Reach(ops, q.disrupted, RadiusIn(ops, q)) \ FrozenIn(at, q)

LEMMA DownstreamIsReach ==
  \A ops, n : Downstream(ops, n) = Reach(known, ops, n)
BY DEF Downstream, Reach, Layers, SuccessorsOf, Behind

LEMMA NeighbourhoodIsTaken ==
  \A q : Neighbourhood(q) = Taken(known, plan, q)
<1>1. \A disrupted, regime : RecommendedRadius(disrupted, regime) = Recommended(known, disrupted, regime)
  BY DownstreamIsReach DEF RecommendedRadius, Recommended
<1>2. \A q : RadiusOf(q) = RadiusIn(known, q)
  BY <1>1 DEF RadiusOf, RadiusIn
<1>3. \A q : FrozenIds(q) = FrozenIn(plan, q)
  BY DEF FrozenIds, FrozenIn
<1> QED BY <1>2, <1>3, DownstreamIsReach DEF Neighbourhood, Taken

LEMMA RadiusIsNat ==
  ASSUME NEW ops, IsFiniteSet(ops), NEW q \in Requests, q.disrupted \subseteq ops
  PROVE  RadiusIn(ops, q) \in Nat
<1> DEFINE d == q.disrupted
           N == Cardinality(ops)
           n == Cardinality(d)
           behind == Cardinality(Reach(ops, d, N) \ d)
<1>1. N \in Nat /\ n \in Nat
  BY FS_Subset, FS_CardinalityType
<1>2. behind \in Nat
  BY <1>1, ReachIsFinite, FS_Subset, FS_CardinalityType
<1>3. q.regime \in {"breakdown", "rush_order", "interactive"} /\ q.radius \in Nat \cup {None}
  BY IncrementalRepairAssumption DEF IncrementalRepairAssumption
<1>4. Recommended(ops, d, q.regime)
      = CASE q.regime = "breakdown" -> Larger(2, Smaller(N, Larger(2 * n, behind)))
          [] q.regime = "rush_order" -> Larger(3, Smaller(N, Larger(n + 2, behind)))
          [] q.regime = "interactive" -> 1
  BY DEF Recommended
<1> HIDE DEF N, n, behind
<1>5. Recommended(ops, d, q.regime) \in Nat
  BY <1>1, <1>2, <1>3, <1>4 DEF Larger, Smaller
<1> QED BY <1>3, <1>5 DEF RadiusIn

(* Without a radius of its own or a freeze horizon, a disruption that is   *)
(* not interactive takes all that is behind it out.                        *)
LEMMA RecommendedIsClosed ==
  ASSUME NEW ops, IsFiniteSet(ops), NEW at, NEW q \in Requests, q.disrupted \subseteq ops,
         q.radius = None, q.freezeEnd = None, q.regime # "interactive"
  PROVE  Closed(ops, Taken(ops, at, q))
<1> DEFINE d == q.disrupted
           N == Cardinality(ops)
           n == Cardinality(d)
           behind == Cardinality(Reach(ops, d, N) \ d)
           radius == RadiusIn(ops, q)
<1>1. N \in Nat /\ n \in Nat
  BY FS_Subset, FS_CardinalityType
<1>2. behind \in Nat
  BY <1>1, ReachIsFinite, FS_Subset, FS_CardinalityType
<1>3. q.regime \in {"breakdown", "rush_order"}
  BY IncrementalRepairAssumption DEF IncrementalRepairAssumption
<1>4. radius
      = CASE q.regime = "breakdown" -> Larger(2, Smaller(N, Larger(2 * n, behind)))
          [] q.regime = "rush_order" -> Larger(3, Smaller(N, Larger(n + 2, behind)))
          [] q.regime = "interactive" -> 1
  BY DEF RadiusIn, Recommended
<1>5. radius \in Nat
  BY RadiusIsNat
<1>6. Taken(ops, at, q) = Reach(ops, d, radius)
  BY DEF Taken, FrozenIn
<1>7. N <= radius \/ behind <= radius
  <2> HIDE DEF N, n, behind, radius
  <2> QED BY <1>1, <1>2, <1>3, <1>4 DEF Larger, Smaller
<1>8. Closed(ops, Reach(ops, d, radius))
  <2> HIDE DEF radius
  <2> QED BY <1>5, <1>7, ReachIsClosed
<1> QED BY <1>6, <1>8

LEMMA TakenIsBehind ==
  ASSUME NEW ops, IsFiniteSet(ops), NEW at, NEW q \in Requests, q.disrupted \subseteq ops
  PROVE  /\ Taken(ops, at, q) \subseteq ops
         /\ Taken(ops, at, q) \subseteq Reach(ops, q.disrupted, Cardinality(ops))
<1> DEFINE reached == Reach(ops, q.disrupted, RadiusIn(ops, q))
<1>1. RadiusIn(ops, q) \in Nat
  BY RadiusIsNat
<1>2. reached \subseteq ops
  BY <1>1, ReachIsFinite
<1>3. reached \subseteq Reach(ops, q.disrupted, Cardinality(ops))
  BY <1>1, WholeReach
<1> QED BY <1>2, <1>3 DEF Taken

-----------------------------------------------------------------------------
(* The inductive invariant.  The issued plan and what is placed are typed; *)
(* what is not taken out is placed where the plan has it, and what was     *)
(* taken out and placed again starts after its predecessor.                *)
PlanIsIssued == known \subseteq Ops /\ DOMAIN plan \subseteq known /\ Typed(plan)

RequestIsKnown == request \in Requests /\ request.disrupted \subseteq known

NearIsTaken == near = Taken(known, plan, request)

InPlace ==
  /\ Typed(placed)
  /\ DOMAIN placed \subseteq (DOMAIN plan \ near) \cup (near \cap known)
  /\ \A o \in DOMAIN plan \ near : o \in DOMAIN placed /\ placed[o] = plan[o]

InsertedInOrder ==
  \A o \in DOMAIN placed \cap near :
    PredecessorOf[o] # None =>
      PredecessorOf[o] \in DOMAIN placed /\ placed[PredecessorOf[o]].end <= placed[o].start

UnderRepair ==
  phase # "idle" => RequestIsKnown /\ NearIsTaken /\ InPlace /\ InsertedInOrder

IInv ==
  /\ PlanIsIssued
  /\ CachesTimes(cache)
  /\ UnderRepair
  /\ ClaimMeansLegal
  /\ WholeChainsMove

LEMMA KnownIsFinite ==
  ASSUME known \subseteq Ops PROVE IsFiniteSet(known)
BY DispatchTimelineAssumption, FS_Subset DEF DispatchTimelineAssumption

LEMMA EmptyIsTyped ==
  /\ Typed(Empty) /\ CachesTimes(Empty) /\ DOMAIN Empty = {}
<1>1. DOMAIN Empty = {}
  BY DEF Empty
<1> QED BY <1>1 DEF Typed, Timeline, CachesTimes

(* A claim is about the outcome alone. *)
LEMMA ClaimsStay ==
  ASSUME ClaimMeansLegal, WholeChainsMove, outcome' = outcome
  PROVE  ClaimMeansLegal' /\ WholeChainsMove'
BY DEF ClaimMeansLegal, ExhaustiveClaimIsLegal, DeltaMissesOnlyShifts, WholeChainsMove

LEMMA InitKeeps == ASSUME Init PROVE IInv
<1>1. known = Ops \ LateOps /\ plan \in IssuedPlans /\ outcome = None /\ phase = "idle" /\ cache = Empty
  BY DEF Init
<1>2. /\ plan \in [Ops \ LateOps -> Assignment]
      /\ \A o \in DOMAIN plan : plan[o].end = plan[o].start + Duration[o][plan[o].wc]
  BY <1>1, IncrementalRepairAssumption DEF IncrementalRepairAssumption
<1>3. Typed(plan)
  BY <1>2 DEF Typed, Timeline, Assignment
<1>4. PlanIsIssued
  BY <1>1, <1>2, <1>3 DEF PlanIsIssued
<1>5. UnderRepair
  BY <1>1 DEF UnderRepair
<1>6. ClaimMeansLegal /\ WholeChainsMove
  BY <1>1 DEF ClaimMeansLegal, ExhaustiveClaimIsLegal, DeltaMissesOnlyShifts, WholeChainsMove
<1> QED BY <1>1, <1>4, <1>5, <1>6, EmptyIsTyped DEF IInv

LEMMA ArriveKeeps == ASSUME IInv, NEW o \in LateOps, Arrive(o) PROVE IInv'
<1>1. /\ known' = known \cup {o} /\ plan' = plan /\ cache' = cache /\ phase' = "idle"
      /\ outcome' = outcome
  BY DEF Arrive
<1>2. o \in Ops
  BY IncrementalRepairAssumption DEF IncrementalRepairAssumption
<1>3. PlanIsIssued'
  BY <1>1, <1>2 DEF IInv, PlanIsIssued
<1>4. UnderRepair'
  BY <1>1 DEF UnderRepair
<1>5. CachesTimes(cache')
  BY <1>1 DEF IInv
<1>6. ClaimMeansLegal' /\ WholeChainsMove'
  BY <1>1, ClaimsStay DEF IInv
<1> QED BY <1>3, <1>4, <1>5, <1>6 DEF IInv

LEMMA StartRepairKeeps == ASSUME IInv, NEW q \in Requests, StartRepair(q) PROVE IInv'
<1>1. /\ known' = known /\ plan' = plan /\ cache' = Empty /\ outcome' = outcome /\ request' = q
      /\ q.disrupted \subseteq known
      /\ near' = Neighbourhood(q)
      /\ placed' = [o \in DOMAIN plan \ Neighbourhood(q) |-> plan[o]]
  BY DEF StartRepair
<1>2. PlanIsIssued'
  BY <1>1 DEF IInv, PlanIsIssued
<1>3. near' = Taken(known', plan', request')
  BY <1>1, NeighbourhoodIsTaken
<1>4. RequestIsKnown'
  BY <1>1 DEF RequestIsKnown
<1>5. DOMAIN placed' = DOMAIN plan \ near' /\ \A o \in DOMAIN plan \ near' : placed'[o] = plan[o]
  BY <1>1
<1>6. Typed(placed')
  BY <1>5 DEF Typed, Timeline, IInv, PlanIsIssued
<1>7. InPlace'
  BY <1>1, <1>5, <1>6 DEF InPlace
<1>8. InsertedInOrder'
  BY <1>5 DEF InsertedInOrder
<1>9. UnderRepair'
  BY <1>3, <1>4, <1>7, <1>8 DEF UnderRepair, NearIsTaken
<1>10. ClaimMeansLegal' /\ WholeChainsMove'
  BY <1>1, ClaimsStay DEF IInv
<1> QED BY <1>1, <1>2, <1>9, <1>10, EmptyIsTyped DEF IInv

-----------------------------------------------------------------------------
(* The slots the greedy loop chooses from. *)
LEMMA EarliestStartIsTime ==
  ASSUME Typed(placed), NEW o \in Ops, PredecessorOf[o] \in DOMAIN placed \cup {None}
  PROVE  /\ EarliestStart(o) \in Int
         /\ PredecessorOf[o] # None => placed[PredecessorOf[o]].end <= EarliestStart(o)
<1>1. PredecessorEnd(o) \in Int
  BY TypedFacts DEF PredecessorEnd
<1>2. Release[o] \in Int
  BY PrecedenceAssumption DEF PrecedenceAssumption
<1> QED BY <1>1, <1>2 DEF EarliestStart, PredecessorEnd, Larger

LEMMA ScanIsKnown ==
  ASSUME NEW l, NEW o PROVE GapScanFor(l, o) \in {"all", "append", "window"}
BY DEF GapScanFor

LEMMA InsertedSlot ==
  ASSUME Typed(placed), CachesTimes(cache), NEW o \in Ops \ DOMAIN placed,
         PredecessorOf[o] \in DOMAIN placed \cup {None}, NEW slot \in SlotsOf(o)
  PROVE  /\ Typed(PlaceAt(placed, o, slot))
         /\ EarliestStart(o) <= slot.start
<1>1. PICK m \in EligibleFor[o] :
        slot \in EarliestSlots(placed, WindowsSeenBy(SearchedCache, o), GapScanFor(large, o),
                               o, m, EarliestStart(o))
  BY DEF SlotsOf
<1> DEFINE windows == WindowsSeenBy(SearchedCache, o)
           scan == GapScanFor(large, o)
           earliest == EarliestStart(o)
<1>2. m \in Machines /\ Timeline(placed)
  BY DispatchTimelineAssumption DEF DispatchTimelineAssumption, Typed
<1>3. EndsAreTimes(windows)
  BY <1>2, CachedForKeepsTimes, SeenWindowsAreTimes DEF SearchedCache
<1>4. earliest \in Int /\ scan \in {"all", "append", "window"}
  BY EarliestStartIsTime, ScanIsKnown
<1> HIDE DEF windows, scan, earliest
<1>5. PICK g \in GapsScanned(placed, scan, o, m, earliest) :
        slot \in SlotsInGap(placed, windows, o, m, earliest, g[1], g[2])
  BY <1>1 DEF EarliestSlots, windows, scan, earliest
<1>6. Neighbour(placed, m, g[1]) /\ Neighbour(placed, m, g[2])
  BY <1>4, ScannedGapIsBounded
<1>7. SlotFits(placed, o, m, earliest, g[1], g[2], slot)
  BY <1>2, <1>3, <1>4, <1>5, <1>6, SlotInGapFits
<1>8. Timeline(PlaceAt(placed, o, slot))
  BY <1>2, <1>7, PlaceAtIsTimeline
<1>9. slot \in Assignment /\ earliest <= slot.start
  BY <1>7 DEF SlotFits
<1>10. Typed(PlaceAt(placed, o, slot))
  BY <1>8, <1>9 DEF Typed, PlaceAt
<1> QED BY <1>9, <1>10 DEF earliest

LEMMA InsertKeeps == ASSUME IInv, Insert PROVE IInv'
<1>1. PICK c \in BestCandidates : /\ placed' = PlaceAt(placed, c[1], c[2])
                                  /\ cache' = CacheAfterAdd(SearchedCache, placed', c[1])
  BY DEF Insert
<1>2. /\ known' = known /\ plan' = plan /\ request' = request /\ near' = near /\ outcome' = outcome
      /\ phase = "inserting"
  BY DEF Insert
<1>3. RequestIsKnown /\ NearIsTaken /\ InPlace /\ InsertedInOrder
  BY <1>2 DEF IInv, UnderRepair
<1> DEFINE o == c[1]
           slot == c[2]
<1>4. o \in ReadyOps /\ slot \in SlotsOf(o)
  BY <1>1 DEF BestCandidates
<1>5. /\ o \in near \cap known /\ o \in Ops \ DOMAIN placed
      /\ PredecessorOf[o] \in DOMAIN placed \cup {None}
  BY <1>4 DEF ReadyOps, Remaining, IInv, PlanIsIssued
<1>6. Typed(placed) /\ CachesTimes(cache)
  BY <1>3 DEF InPlace, IInv
<1> HIDE DEF o, slot
<1>7. Typed(placed') /\ EarliestStart(o) <= slot.start
  BY <1>1, <1>4, <1>5, <1>6, InsertedSlot DEF o, slot
<1>8. /\ DOMAIN placed' = DOMAIN placed \cup {o} /\ placed'[o] = slot
      /\ \A x \in DOMAIN placed : placed'[x] = placed[x]
  BY <1>1, <1>5 DEF PlaceAt, o, slot
<1>9. InPlace'
  <2>1. DOMAIN placed' \subseteq (DOMAIN plan' \ near') \cup (near' \cap known')
    BY <1>2, <1>3, <1>5, <1>8 DEF InPlace
  <2>2. \A x \in DOMAIN plan' \ near' : x \in DOMAIN placed' /\ placed'[x] = plan'[x]
    BY <1>2, <1>3, <1>8 DEF InPlace
  <2> QED BY <1>7, <2>1, <2>2 DEF InPlace
<1>10. InsertedInOrder'
  <2>1. SUFFICES ASSUME NEW x \in DOMAIN placed' \cap near', PredecessorOf[x] # None
                 PROVE  /\ PredecessorOf[x] \in DOMAIN placed'
                        /\ placed'[PredecessorOf[x]].end <= placed'[x].start
    BY DEF InsertedInOrder
  <2>2. CASE x = o
    <3>1. PredecessorOf[o] \in DOMAIN placed
      BY <1>5, <2>1, <2>2
    <3>2. placed[PredecessorOf[o]].end <= EarliestStart(o) /\ EarliestStart(o) \in Int
      BY <1>5, <1>6, <2>1, <2>2, EarliestStartIsTime
    <3>3. placed[PredecessorOf[o]].end \in Int
      BY <1>6, <3>1, TypedFacts
    <3>4. placed'[o].start \in Int
      BY <1>7, <1>8, TypedFacts
    <3>5. placed[PredecessorOf[o]].end <= slot.start
      BY <1>7, <1>8, <3>2, <3>3, <3>4
    <3> QED BY <1>8, <2>2, <3>1, <3>5
  <2>3. CASE x # o
    <3>1. x \in DOMAIN placed \cap near
      BY <1>2, <1>8, <2>1, <2>3
    <3>2. PredecessorOf[x] \in DOMAIN placed /\ placed[PredecessorOf[x]].end <= placed[x].start
      BY <1>3, <2>1, <3>1 DEF InsertedInOrder
    <3> QED BY <1>8, <3>1, <3>2
  <2> QED BY <2>2, <2>3
<1>11. CachesTimes(cache')
  <2>1. CachesTimes(SearchedCache)
    BY <1>6, CachedForKeepsTimes DEF SearchedCache, Typed
  <2> QED BY <1>1, <1>7, <1>8, <2>1, CacheAfterAddKeepsTimes DEF o, Typed
<1>12. PlanIsIssued' /\ RequestIsKnown' /\ NearIsTaken'
  BY <1>2, <1>3 DEF IInv, PlanIsIssued, RequestIsKnown, NearIsTaken
<1>13. ClaimMeansLegal' /\ WholeChainsMove'
  BY <1>2, ClaimsStay DEF IInv
<1> QED BY <1>9, <1>10, <1>11, <1>12, <1>13 DEF IInv, UnderRepair

LEMMA FallbackPlacesKeeps == ASSUME IInv, FallbackPlaces PROVE IInv'
<1>1. PICK free \in Admitted(placed, Remaining, {}) : placed' = Around(placed, free)
  BY DEF FallbackPlaces
<1>2. /\ known' = known /\ plan' = plan /\ request' = request /\ near' = near /\ outcome' = outcome
      /\ cache' = cache /\ phase = "inserting"
      /\ \A o \in Remaining : PredecessorOf[o] \in DOMAIN placed \cup Remaining \cup {None}
  BY DEF FallbackPlaces, SlotMissing
<1>3. RequestIsKnown /\ NearIsTaken /\ InPlace /\ InsertedInOrder
  BY <1>2 DEF IInv, UnderRepair
<1>4. /\ Remaining \in SUBSET Ops
      /\ Remaining \subseteq near \cap known
      /\ \A o \in Remaining : o \notin DOMAIN placed
  BY DEF Remaining, IInv, PlanIsIssued
<1>5. free \in SchedulesOf(Remaining) /\ Admits(placed, free, {})
  BY <1>1 DEF Admitted
<1>6. DOMAIN free = Remaining /\ \A o \in Remaining : free[o] \in Placements(o)
  BY <1>4, <1>5, SchedulesPlaceAll
<1>7. /\ DOMAIN placed' = DOMAIN placed \cup Remaining
      /\ \A o \in Remaining : placed'[o] = free[o]
      /\ \A o \in DOMAIN placed : placed'[o] = placed[o]
  BY <1>1, <1>4, <1>6 DEF Around
<1>8. Typed(placed')
  <2>1. ASSUME NEW o \in Remaining
        PROVE  /\ free[o] \in Assignment /\ free[o].wc \in Machines /\ free[o].start \in Int
               /\ free[o].end = free[o].start + Duration[o][free[o].wc]
    BY <1>4, <1>6, PlacementsAreTyped
  <2>2. Typed(placed)
    BY <1>3 DEF InPlace
  <2> QED BY <1>4, <1>7, <2>1, <2>2 DEF Typed, Timeline
<1>9. InPlace'
  <2>1. DOMAIN placed' \subseteq (DOMAIN plan' \ near') \cup (near' \cap known')
    BY <1>2, <1>3, <1>4, <1>7 DEF InPlace
  <2>2. \A x \in DOMAIN plan' \ near' : x \in DOMAIN placed' /\ placed'[x] = plan'[x]
    BY <1>2, <1>3, <1>7 DEF InPlace
  <2> QED BY <1>8, <2>1, <2>2 DEF InPlace
<1>10. InsertedInOrder'
  <2>1. SUFFICES ASSUME NEW x \in DOMAIN placed' \cap near', PredecessorOf[x] # None
                 PROVE  /\ PredecessorOf[x] \in DOMAIN placed'
                        /\ placed'[PredecessorOf[x]].end <= placed'[x].start
    BY DEF InsertedInOrder
  <2>2. CASE x \in Remaining
    <3>1. WithinTimeBounds(placed, free, x)
      BY <1>5, <1>6, <2>2 DEF Admits
    <3>2. placed'[PredecessorOf[x]].end <= free[x].start
      BY <1>1, <2>1, <3>1 DEF WithinTimeBounds
    <3> QED BY <1>2, <1>7, <2>1, <2>2, <3>2
  <2>3. CASE x \notin Remaining
    <3>1. x \in DOMAIN placed \cap near
      BY <1>2, <1>7, <2>1, <2>3
    <3>2. PredecessorOf[x] \in DOMAIN placed /\ placed[PredecessorOf[x]].end <= placed[x].start
      BY <1>3, <2>1, <3>1 DEF InsertedInOrder
    <3> QED BY <1>7, <3>1, <3>2
  <2> QED BY <2>2, <2>3
<1>11. PlanIsIssued' /\ RequestIsKnown' /\ NearIsTaken' /\ CachesTimes(cache')
  BY <1>2, <1>3 DEF IInv, PlanIsIssued, RequestIsKnown, NearIsTaken
<1>12. ClaimMeansLegal' /\ WholeChainsMove'
  BY <1>2, ClaimsStay DEF IInv
<1> QED BY <1>9, <1>10, <1>11, <1>12 DEF IInv, UnderRepair

(* What ends the insertion moves nothing. *)
LEMMA PhaseEndsKeeps ==
  ASSUME IInv, phase # "idle" \/ phase' = phase,
         UNCHANGED <<known, plan, request, near, placed, cache, outcome>>
  PROVE  IInv'
<1>1. ClaimMeansLegal' /\ WholeChainsMove'
  BY ClaimsStay DEF IInv
<1>2. PlanIsIssued' /\ CachesTimes(cache')
  BY DEF IInv, PlanIsIssued
<1>3. phase # "idle" => (RequestIsKnown /\ NearIsTaken /\ InPlace /\ InsertedInOrder)'
  BY DEF IInv, UnderRepair, RequestIsKnown, NearIsTaken, InPlace, InsertedInOrder
<1> QED BY <1>1, <1>2, <1>3 DEF IInv, UnderRepair

-----------------------------------------------------------------------------
(* The plan a repair publishes. *)
LEMMA RecomputedIsStamped ==
  ASSUME NEW at, Typed(at)
  PROVE  /\ Typed(RecomputeSetups(at)) /\ Stamped(RecomputeSetups(at))
         /\ DOMAIN RecomputeSetups(at) = DOMAIN at
         /\ \A o \in DOMAIN at : SameTimes(RecomputeSetups(at)[o], at[o])
<1> DEFINE final == RecomputeSetups(at)
<1>1. /\ DOMAIN final = DOMAIN at
      /\ \A o \in DOMAIN at : /\ final[o].wc = at[o].wc
                              /\ final[o].start = at[o].start
                              /\ final[o].end = at[o].end
  BY RecomputeKeepsTimes DEF Typed
<1>2. \A o \in DOMAIN at : ActualSetup(at, o) \in Nat
  BY ActualSetupIsNat DEF Typed
<1>3. \A o \in DOMAIN at : at[o] \in Assignment
  BY DEF Typed
<1>4. \A o \in DOMAIN at : final[o] \in Assignment /\ final[o].setup = ActualSetup(at, o)
  BY <1>2, <1>3 DEF RecomputeSetups, Assignment
<1> HIDE DEF final
<1>5. Typed(final)
  BY <1>1, <1>4 DEF Typed, Timeline
<1>6. \A m : On(final, m) = On(at, m)
  BY <1>1 DEF On
<1>7. \A o \in DOMAIN at : ActualSetup(final, o) = ActualSetup(at, o)
  <2>1. SUFFICES ASSUME NEW o \in DOMAIN at PROVE Predecessor(final, o) = Predecessor(at, o)
    BY <1>1 DEF ActualSetup
  <2> DEFINE m == at[o].wc
             before(p) == p \in On(at, m) \cup {None} /\ Follows(at, m, p, o)
  <2>2. final[o].wc = m
    BY <1>1
  <2>3. \A p \in On(at, m) \cup {None} : Follows(final, m, p, o) <=> Follows(at, m, p, o)
    <3>1. \A x \in On(at, m) : final[x].start = at[x].start
      BY <1>1 DEF On
    <3> QED BY <1>6, <3>1 DEF Follows
  <2> QED BY <1>6, <2>2, <2>3 DEF Predecessor
<1>8. Stamped(final)
  BY <1>1, <1>4, <1>7 DEF Stamped
<1> QED BY <1>1, <1>5, <1>8 DEF SameTimes, final

LEMMA BaselineKeepsTimes ==
  ASSUME Typed(plan), InPlace, NEW final, DOMAIN final = DOMAIN placed, Typed(final),
         \A o \in DOMAIN placed : SameTimes(final[o], placed[o])
  PROVE  /\ DOMAIN Baseline(final) = DOMAIN plan
         /\ Typed(Baseline(final))
         /\ \A o \in DOMAIN plan : SameTimes(Baseline(final)[o], plan[o])
<1> DEFINE base == Baseline(final)
<1>1. DOMAIN base = DOMAIN plan /\ \A o \in DOMAIN plan : base[o] = IF o \in near THEN plan[o] ELSE final[o]
  BY DEF Baseline
<1>2. \A o \in DOMAIN plan \ near : o \in DOMAIN placed /\ placed[o] = plan[o]
  BY DEF InPlace
<1>3. \A o \in DOMAIN plan : SameTimes(base[o], plan[o])
  BY <1>1, <1>2 DEF SameTimes
<1>4. \A o \in DOMAIN plan : base[o] \in Assignment
  BY <1>1, <1>2 DEF Typed
<1> HIDE DEF base
<1>5. Typed(base)
  BY <1>1, <1>3, <1>4 DEF Typed, Timeline, SameTimes
<1> QED BY <1>1, <1>3, <1>5 DEF base

(* The chains of a plan on which a repair took whole chains out. *)
LEMMA NoChainTorn ==
  ASSUME PlanIsIssued, RequestIsKnown, NearIsTaken, InPlace, InsertedInOrder,
         NEW final, DOMAIN final = DOMAIN placed, Typed(final),
         \A o \in DOMAIN placed : SameTimes(final[o], placed[o]),
         request.radius = None, request.freezeEnd = None, request.regime # "interactive",
         Check(DOMAIN plan, plan, Everything) = {}
  PROVE  \A v \in Check(known, final, Everything) : v[1] # "PRECEDENCE_VIOLATION"
<1>1. Closed(known, near)
  BY KnownIsFinite, RecommendedIsClosed DEF PlanIsIssued, RequestIsKnown, NearIsTaken
<1>2. TornChains(plan, Everything) = {}
  BY DEF Check
<1>3. TornChains(final, Everything) = {}
  <2>1. SUFFICES ASSUME NEW x \in DOMAIN final, PredecessorOf[x] \in DOMAIN final,
                        final[x].start < final[PredecessorOf[x]].end
                 PROVE  FALSE
    BY DEF TornChains
  <2> DEFINE p == PredecessorOf[x]
  <2>2. /\ x \in DOMAIN placed /\ p \in DOMAIN placed
        /\ placed[x].start < placed[p].end
        /\ placed[x].start \in Int /\ placed[p].end \in Int /\ p # None
    <3>1. Typed(placed)
      BY DEF InPlace
    <3>2. x \in DOMAIN placed /\ p \in DOMAIN placed
      BY <2>1
    <3>3. placed[x].start \in Int /\ placed[p].end \in Int /\ p # None
      BY <3>1, <3>2, TypedFacts
    <3>4. final[x].start = placed[x].start /\ final[p].end = placed[p].end
      BY <3>2 DEF SameTimes
    <3> QED BY <2>1, <3>2, <3>3, <3>4
  <2>3. CASE x \in near
    <3>1. placed[p].end <= placed[x].start
      BY <2>2, <2>3 DEF InsertedInOrder
    <3> QED BY <2>2, <3>1
  <2>4. CASE x \notin near
    <3>1. x \in known /\ x \in DOMAIN plan \ near
      BY <2>2, <2>4 DEF InPlace, PlanIsIssued
    <3>2. p \notin near
      BY <1>1, <3>1, <2>4 DEF Closed, Behind
    <3>3. p \in DOMAIN plan \ near
      BY <2>2, <3>2 DEF InPlace
    <3>4. placed[x] = plan[x] /\ placed[p] = plan[p]
      BY <3>1, <3>3 DEF InPlace
    <3>5. x \in Everything.ops
      BY <3>1 DEF Everything, PlanIsIssued
    <3>6. <<"PRECEDENCE_VIOLATION", x>> \in TornChains(plan, Everything)
      BY <2>2, <3>1, <3>3, <3>4, <3>5 DEF TornChains
    <3> QED BY <1>2, <3>6
  <2> QED BY <2>3, <2>4
<1>4. \A v \in UNION {Missing(known, final), Ineligible(final, Everything)} :
        v[1] # "PRECEDENCE_VIOLATION"
  BY DEF Missing, Ineligible
<1>5. \A v \in UNION {BrokenEdges(final, Everything), Overlaps(final, Everything),
                      ShortGaps(final, Everything)} :
        v[1] # "PRECEDENCE_VIOLATION"
  BY DEF BrokenEdges, Overlaps, ShortGaps
<1>6. \A v \in OverloadedPools(final, Everything) : v[1] # "PRECEDENCE_VIOLATION"
  BY DEF OverloadedPools
<1>7. \A v \in UNION {OutOfHorizon(final, Everything), BeforeRelease(final, Everything),
                      OutOfShift(final, Everything)} :
        v[1] # "PRECEDENCE_VIOLATION"
  BY DEF OutOfHorizon, BeforeRelease, OutOfShift
<1> QED BY <1>3, <1>4, <1>5, <1>6, <1>7 DEF Check

LEMMA PublishKeeps == ASSUME IInv, Publish PROVE IInv'
<1> DEFINE final == RecomputeSetups(placed)
           claimed == ClaimViolations(final)
           found == Check(known, final, Everything)
           status == StatusOf(Remaining, claimed)
           clean == Check(DOMAIN plan, plan, Everything) = {}
<1>1. /\ phase = "placed"
      /\ outcome' = [status |-> status, claimed |-> claimed, found |-> found,
                     legal |-> Legal(known, final), request |-> request, cleanBefore |-> clean]
      /\ plan' = IF status = "feasible" /\ found = {} THEN final ELSE Baseline(final)
      /\ phase' = "idle" /\ cache' = Empty /\ known' = known
  BY DEF Publish
<1>2. PlanIsIssued /\ RequestIsKnown /\ NearIsTaken /\ InPlace /\ InsertedInOrder
  BY <1>1 DEF IInv, UnderRepair
<1>3. Typed(placed) /\ Typed(plan)
  BY <1>2 DEF InPlace, PlanIsIssued
<1>4. /\ Typed(final) /\ Stamped(final) /\ DOMAIN final = DOMAIN placed
      /\ \A o \in DOMAIN placed : SameTimes(final[o], placed[o])
  BY <1>3, RecomputedIsStamped
<1> HIDE DEF final
<1>5. /\ DOMAIN Baseline(final) = DOMAIN plan
      /\ Typed(Baseline(final))
      /\ \A o \in DOMAIN plan : SameTimes(Baseline(final)[o], plan[o])
  BY <1>2, <1>3, <1>4, BaselineKeepsTimes
<1>6. PlanIsIssued'
  <2>1. DOMAIN final \subseteq known
    BY <1>2, <1>4 DEF InPlace, PlanIsIssued
  <2>2. Typed(plan') /\ DOMAIN plan' \subseteq known
    BY <1>1, <1>2, <1>4, <1>5, <2>1 DEF PlanIsIssued
  <2> QED BY <1>1, <1>2, <2>2 DEF PlanIsIssued
<1>7. ASSUME request.notary # "delta", status = "feasible"
      PROVE  Legal(known, final)
  <2>1. claimed = {}
    BY <1>7 DEF StatusOf
  <2>2. Check(known, final, Everything) = {}
    BY <1>7, <2>1 DEF ClaimViolations
  <2> QED BY <1>4, <2>2, NotaryIsSound
<1>8. ASSUME request.notary = "delta", clean, claimed = {}
      PROVE  \A v \in found : v[1] = "CALENDAR_VIOLATION"
  <2>1. Check(known, final, NotaryScope(Baseline(final), final, request.freezeEnd)) = {}
    BY <1>8 DEF ClaimViolations
  <2>2. DeltaOf(plan, Baseline(final), final)
    BY <1>3, <1>4, <1>5, <1>8 DEF DeltaOf
  <2> QED BY <2>1, <2>2, DeltaScopeSuffices
<1>9. ASSUME request.radius = None, request.freezeEnd = None, request.regime # "interactive", clean
      PROVE  \A v \in found : v[1] # "PRECEDENCE_VIOLATION"
  BY <1>2, <1>4, <1>9, NoChainTorn
<1>10. /\ outcome'.status = status /\ outcome'.claimed = claimed /\ outcome'.found = found
       /\ outcome'.legal = Legal(known, final) /\ outcome'.request = request
       /\ outcome'.cleanBefore = clean
  <2> HIDE DEF status, claimed, found, clean
  <2> QED BY <1>1
<1> HIDE DEF status, claimed, found, clean
<1>11. ExhaustiveClaimIsLegal'
  BY <1>7, <1>10 DEF ExhaustiveClaimIsLegal
<1>12. DeltaMissesOnlyShifts'
  BY <1>8, <1>10 DEF DeltaMissesOnlyShifts
<1>13. WholeChainsMove'
  BY <1>9, <1>10 DEF WholeChainsMove
<1>14. UnderRepair' /\ CachesTimes(cache')
  BY <1>1, EmptyIsTyped DEF UnderRepair
<1> QED BY <1>6, <1>11, <1>12, <1>13, <1>14 DEF IInv, ClaimMeansLegal

LEMMA NextKeeps == ASSUME IInv, [Next]_vars PROVE IInv'
<1>1. CASE UNCHANGED vars
  BY <1>1, PhaseEndsKeeps DEF vars
<1>2. CASE FallbackFails
  BY <1>2, PhaseEndsKeeps DEF FallbackFails, SlotMissing
<1>3. CASE InsertionEnds
  BY <1>3, PhaseEndsKeeps DEF InsertionEnds
<1> QED BY <1>1, <1>2, <1>3, ArriveKeeps, StartRepairKeeps, InsertKeeps, FallbackPlacesKeeps,
           PublishKeeps DEF Next

LEMMA IInvHolds == Spec => []IInv
BY InitKeeps, NextKeeps, PTL DEF Spec

(* What a claim of feasibility is worth: on an exhaustive verdict the whole *)
(* plan is legal, and over a plan that verified, the delta notary passes   *)
(* over nothing but a shift broken by a setup it did not see change.       *)
THEOREM ClaimsAreLegal == Spec => []ClaimMeansLegal
<1>1. IInv => ClaimMeansLegal
  BY DEF IInv
<1> QED BY <1>1, IInvHolds, PTL

(* With the recommended radius a repair takes chains out to their ends and *)
(* inserts them in order: no plan it publishes has a torn chain.           *)
THEOREM ChainsMoveWhole == Spec => []WholeChainsMove
<1>1. IInv => WholeChainsMove
  BY DEF IInv
<1> QED BY <1>1, IInvHolds, PTL

(* No step of any action moves an operation that the disruption does not   *)
(* reach, or one the freeze window protects.                               *)
LEMMA StepMovesOnlyDisrupted ==
  ASSUME IInv, [Next]_vars, NEW o \in DOMAIN plan, Moved(o)
  PROVE  /\ o \in Downstream(request.disrupted, Cardinality(known))
         /\ \/ request.freezeEnd = None
            \/ request.breakFreeze
            \/ plan[o].start >= request.freezeEnd
            \/ request.regime = "breakdown" /\ o \in request.disrupted
<1>1. Publish
  <2>1. plan' # plan
    BY DEF Moved
  <2> QED BY <2>1 DEF Next, vars, Arrive, StartRepair, Insert, FallbackPlaces, FallbackFails, InsertionEnds
<1> DEFINE final == RecomputeSetups(placed)
<1>2. /\ PlanIsIssued /\ RequestIsKnown /\ NearIsTaken /\ InPlace
      /\ plan' = final \/ plan' = Baseline(final)
  BY <1>1 DEF Publish, IInv, UnderRepair
<1>3. /\ Typed(final) /\ DOMAIN final = DOMAIN placed
      /\ \A x \in DOMAIN placed : SameTimes(final[x], placed[x])
  BY <1>2, RecomputedIsStamped DEF InPlace
<1> HIDE DEF final
<1>4. \A x \in DOMAIN plan : SameTimes(Baseline(final)[x], plan[x])
  BY <1>2, <1>3, BaselineKeepsTimes DEF PlanIsIssued
<1>5. o \in near
  <2>1. SUFFICES ASSUME o \notin near PROVE SameTimes(plan'[o], plan[o])
    BY DEF Moved, SameTimes
  <2>2. o \in DOMAIN placed /\ placed[o] = plan[o]
    BY <2>1, <1>2 DEF InPlace
  <2> QED BY <1>2, <1>3, <1>4, <2>2
<1>6. o \in Reach(known, request.disrupted, Cardinality(known))
  BY <1>2, <1>5, KnownIsFinite, TakenIsBehind DEF PlanIsIssued, RequestIsKnown, NearIsTaken
<1>7. o \in Downstream(request.disrupted, Cardinality(known))
  BY <1>6, DownstreamIsReach
<1>8. o \notin FrozenIn(plan, request)
  BY <1>2, <1>5 DEF NearIsTaken, Taken
<1>9. plan[o].start \in Int
  BY <1>2, TypedFacts DEF PlanIsIssued
<1>10. request.freezeEnd \in Int \cup {None}
  BY <1>2, IncrementalRepairAssumption DEF IncrementalRepairAssumption, RequestIsKnown
<1>11. \/ request.freezeEnd = None
       \/ request.breakFreeze
       \/ plan[o].start >= request.freezeEnd
       \/ request.regime = "breakdown" /\ o \in request.disrupted
  BY <1>8, <1>9, <1>10 DEF FrozenIn
<1> QED BY <1>7, <1>11

(* An action property: no step of a repair moves what the disruption does *)
(* not reach or the freeze window protects, for every radius and regime.   *)
THEOREM OnlyDisruptedMoves == Spec => OnlyTheDisruptedMoves
<1>1. IInv /\ [Next]_vars => [\A o \in DOMAIN plan :
        Moved(o) =>
          /\ o \in Downstream(request.disrupted, Cardinality(known))
          /\ \/ request.freezeEnd = None
             \/ request.breakFreeze
             \/ plan[o].start >= request.freezeEnd
             \/ request.regime = "breakdown" /\ o \in request.disrupted]_vars
  BY StepMovesOnlyDisrupted
<1> QED BY <1>1, IInvHolds, PTL DEF Spec, OnlyTheDisruptedMoves

=============================================================================
