-------------------------- MODULE CpSatModel_proofs --------------------------
(***************************************************************************)
(* What the components that build or judge schedules rest on, for every    *)
(* problem.                                                                *)
(*                                                                         *)
(* The insertion kernel: whatever gap of a sequence an operation is put    *)
(* in, the slot it is given fits there (EarliestSlotIsSound).  The notary: *)
(* a clean verdict of the whole check means a legal plan (NotaryIsSound).  *)
(* The constraint model both repairs and CP-SAT search: every schedule it  *)
(* may return places exactly what was free (SchedulesPlaceAll), with       *)
(* nothing frozen it admits the legal schedules and no other               *)
(* (ModelIsExact), and frozen work stays clear (FrozenWorkStaysClear).     *)
(***************************************************************************)
EXTENDS CpSatModel, FiniteSetTheorems, TLAPS

(* What the solvers keep: every operation on a machine, for its duration.  *)
Timeline(placed) ==
  /\ DOMAIN placed \subseteq Ops
  /\ \A o \in DOMAIN placed :
       /\ placed[o].wc \in Machines /\ placed[o].start \in Int
       /\ placed[o].end = placed[o].start + Duration[o][placed[o].wc]

(* A finite set has an element of largest value. *)
LEMMA LargestElement ==
  ASSUME NEW S, IsFiniteSet(S), S # {}, NEW f \in [S -> Int]
  PROVE  \E x \in S : \A y \in S : f[y] <= f[x]
<1> DEFINE HasLargest(T) == \E x \in T : \A y \in T : f[y] <= f[x]
           Bad == {T \in FiniteSubsetsOf(S) : T # {} /\ ~ HasLargest(T)}
<1>1. SUFFICES ASSUME Bad # {} PROVE FALSE
  <2>1. S \in FiniteSubsetsOf(S)
    BY DEF FiniteSubsetsOf
  <2> QED BY <1>1, <2>1
<1>2. PICK T \in Bad : \A U \in Bad : <<U, T>> \notin StrictSubsetOrdering(S)
  <2>1. Bad \subseteq FiniteSubsetsOf(S)
    OBVIOUS
  <2> HIDE DEF Bad
  <2> QED BY <1>1, <2>1, FS_StrictSubsetOrderingWellFounded, WFMin
<1>3. PICK x \in T : TRUE
  BY <1>2
<1>4. T \subseteq S /\ IsFiniteSet(T) /\ x \in S /\ ~ HasLargest(T)
  BY <1>2 DEF FiniteSubsetsOf
<1>5. T \ {x} \in FiniteSubsetsOf(S) /\ T \ {x} \notin Bad
  <2>1. T \ {x} \in FiniteSubsetsOf(S)
    BY <1>4, FS_RemoveElement DEF FiniteSubsetsOf
  <2>2. <<T \ {x}, T>> \in StrictSubsetOrdering(S)
    BY <1>3, <1>4 DEF StrictSubsetOrdering
  <2> QED BY <1>2, <2>1, <2>2
<1>6. CASE T \ {x} = {}
  BY <1>3, <1>4, <1>6
<1>7. CASE T \ {x} # {}
  <2>1. PICK z \in T \ {x} : \A y \in T \ {x} : f[y] <= f[z]
    BY <1>5, <1>7
  <2>2. CASE f[x] <= f[z]
    BY <1>4, <2>1, <2>2
  <2>3. CASE f[z] <= f[x]
    <3>1. \A y \in T : f[y] <= f[x]
      BY <1>4, <2>1, <2>3
    <3> QED BY <1>3, <1>4, <3>1
  <2> QED BY <1>4, <2>1, <2>2, <2>3
<1> QED BY <1>6, <1>7

LEMMA SmallestElement ==
  ASSUME NEW S, IsFiniteSet(S), S # {}, NEW f \in [S -> Int]
  PROVE  \E x \in S : \A y \in S : f[x] <= f[y]
<1> DEFINE g == [x \in S |-> 0 - f[x]]
<1>1. g \in [S -> Int]
  OBVIOUS
<1>2. PICK x \in S : \A y \in S : g[y] <= g[x]
  BY <1>1, LargestElement
<1> QED BY <1>2

LEMMA ImageIsFinite ==
  ASSUME NEW S, IsFiniteSet(S), NEW f
  PROVE  IsFiniteSet({f[x] : x \in S})
<1> DEFINE image == {f[x] : x \in S}
           g == [x \in S |-> f[x]]
<1>1. g \in Surjection(S, image)
  BY DEF Surjection
<1> HIDE DEF image, g
<1>2. IsFiniteSet(image)
  BY <1>1, FS_Surjection
<1> QED BY <1>2 DEF image

(* A set of naturals, finite or not, has a least one. *)
LEMMA LeastNatural ==
  ASSUME NEW S \in SUBSET Nat, S # {}
  PROVE  \E n \in S : \A k \in S : n <= k
<1>1. PICK top \in S : TRUE
  OBVIOUS
<1> DEFINE low == {k \in S : k <= top}
           value == [k \in low |-> k]
<1>2. top \in low /\ low \subseteq 0 .. top /\ value \in [low -> Int]
  <2>1. top \in Nat /\ top <= top
    BY <1>1
  <2>2. ASSUME NEW k \in low PROVE k \in Nat /\ k <= top /\ k \in 0 .. top
    <3>1. k \in Nat /\ k <= top
      OBVIOUS
    <3> HIDE DEF low
    <3> QED BY <2>1, <3>1
  <2>3. top \in low
    BY <1>1, <2>1
  <2> HIDE DEF low
  <2>4. low \subseteq 0 .. top
    BY <2>2
  <2>5. value \in [low -> Int]
    BY <2>2
  <2> QED BY <2>3, <2>4, <2>5
<1>3. IsFiniteSet(low)
  <2>1. 0 \in Int /\ top \in Int
    BY <1>1
  <2>2. IsFiniteSet(0 .. top)
    BY <2>1, FS_Interval
  <2> HIDE DEF low
  <2> QED BY <1>2, <2>2, FS_Subset
<1>4. PICK n \in low : \A k \in low : value[n] <= value[k]
  <2> HIDE DEF low, value
  <2> QED BY <1>2, <1>3, SmallestElement
<1>5. \A k \in S : n <= k
  <2>1. TAKE k \in S
  <2>2. CASE k <= top
    BY <1>4, <2>2
  <2>3. CASE ~ k <= top
    BY <1>1, <1>4, <2>3
  <2> QED BY <2>2, <2>3
<1> QED BY <1>4, <1>5

-----------------------------------------------------------------------------
(* The numbers of a problem. *)

LEMMA ProblemFacts ==
  /\ None \notin Ops /\ None \notin Int
  /\ \A o \in Ops, m \in Machines : Duration[o][m] \in Int /\ Duration[o][m] > 0
  /\ \A m \in Machines, x, y \in Ops : SetupBetween(m, x, y) \in Nat
  /\ \A o \in Ops : LatestFinish[o] \in Int \cup {None}
BY DispatchTimelineAssumption DEF DispatchTimelineAssumption, SetupBetween

LEMMA SetupAfterIsNat ==
  ASSUME NEW m \in Machines, NEW p \in Ops \cup {None}, NEW o \in Ops
  PROVE  SetupAfter(m, p, o) \in Nat
BY ProblemFacts DEF SetupAfter

LEMMA OpenStartsFacts ==
  ASSUME NEW m \in Machines, NEW start \in Int, NEW length, NEW t \in First(OpenStarts(m, start, length))
  PROVE  t \in Int /\ start <= t
<1>1. t \in OpenStarts(m, start, length)
  BY DEF First
<1>2. Calendar[m] \subseteq [open : Int, close : Int]
  BY DispatchTimelineAssumption DEF DispatchTimelineAssumption
<1> QED BY <1>1, <1>2 DEF OpenStarts, Larger

(* The gap of an operation: a neighbour on either side, or none. *)
Neighbour(placed, m, x) == x \in On(placed, m) \cup {None}

EndsAreTimes(windows) == \A x \in DOMAIN windows : windows[x].to \in Int

(* What the evaluation of a gap guarantees of the slot it returns. *)
SlotFits(placed, o, m, earliest, p, f, slot) ==
  /\ slot \in Assignment
  /\ slot.wc = m /\ slot.start \in Int /\ slot.setup \in Nat
  /\ slot.end = slot.start + Duration[o][m]
  /\ earliest <= slot.start
  /\ p # None => placed[p].end + SetupBetween(m, p, o) <= slot.start
  /\ f # None => slot.end + SetupBetween(m, o, f) <= placed[f].start
  /\ LatestFinish[o] # None => slot.end <= LatestFinish[o]

LEMMA GapStartsFacts ==
  ASSUME NEW placed, Timeline(placed), NEW o \in Ops, NEW m \in Machines, NEW earliest \in Int,
         NEW p, Neighbour(placed, m, p), NEW g \in GapStarts(placed, o, m, earliest, p)
  PROVE  /\ g \in Int /\ earliest <= g
         /\ p # None => placed[p].end + SetupBetween(m, p, o) <= g
<1> DEFINE setup == SetupAfter(m, p, o)
           previousEnd == IF p = None THEN 0 ELSE placed[p].end
           occupancy == Larger(previousEnd, earliest - setup)
<1>1. p \in Ops \cup {None}
  BY DEF Neighbour, On, Timeline
<1>2. setup \in Nat
  BY <1>1, SetupAfterIsNat
<1>3. previousEnd \in Int
  <2>1. p # None => placed[p].start \in Int /\ placed[p].wc \in Machines
                    /\ placed[p].end = placed[p].start + Duration[p][placed[p].wc]
    BY DEF Neighbour, On, Timeline
  <2> QED BY <1>1, <2>1, ProblemFacts
<1>4. occupancy \in Int /\ previousEnd <= occupancy /\ earliest - setup <= occupancy
  BY <1>2, <1>3 DEF Larger
<1>5. PICK t \in First(OpenStarts(m, occupancy, Duration[o][m] + setup)) : g = t + setup
  BY DEF GapStarts
<1>6. t \in Int /\ occupancy <= t
  <2> HIDE DEF occupancy, setup
  <2> QED BY <1>4, <1>5, OpenStartsFacts
<1>7. p # None => setup = SetupBetween(m, p, o) /\ previousEnd = placed[p].end
  BY DEF SetupAfter
<1> HIDE DEF setup, previousEnd, occupancy
<1> QED BY <1>2, <1>3, <1>4, <1>5, <1>6, <1>7

LEMMA SlotInGapFits ==
  ASSUME NEW placed, Timeline(placed), NEW o \in Ops, NEW m \in Machines, NEW earliest \in Int,
         NEW windows, EndsAreTimes(windows),
         NEW p, Neighbour(placed, m, p), NEW f, Neighbour(placed, m, f),
         NEW slot \in SlotsInGap(placed, windows, o, m, earliest, p, f)
  PROVE  SlotFits(placed, o, m, earliest, p, f, slot)
<1> DEFINE setup == SetupAfter(m, p, o)
<1>1. PICK t \in UNION {CandidateStarts(windows, g, setup) : g \in GapStarts(placed, o, m, earliest, p)} :
        EndsInTime(placed, o, m, f, t) /\ slot = Slot(m, t, Duration[o][m], setup)
  BY DEF SlotsInGap, First
<1>2. PICK g \in GapStarts(placed, o, m, earliest, p) : t \in CandidateStarts(windows, g, setup)
  BY <1>1
<1>3. setup \in Nat
  BY SetupAfterIsNat DEF Neighbour, On, Timeline
<1>4. /\ g \in Int /\ earliest <= g
      /\ p # None => placed[p].end + SetupBetween(m, p, o) <= g
  BY GapStartsFacts
<1>5. t \in Int /\ g <= t
  BY <1>2, <1>3, <1>4 DEF CandidateStarts, EndsAreTimes
<1>6. Duration[o][m] \in Int
  BY ProblemFacts
<1>7. p # None => placed[p].end + SetupBetween(m, p, o) <= t
  <2>1. p # None => placed[p].end + SetupBetween(m, p, o) \in Int
    <3>1. p # None => /\ p \in Ops /\ placed[p].start \in Int /\ placed[p].wc \in Machines
                      /\ placed[p].end = placed[p].start + Duration[p][placed[p].wc]
      BY DEF Neighbour, On, Timeline
    <3> QED BY <3>1, ProblemFacts
  <2> QED BY <1>4, <1>5, <2>1
<1>8. f # None => t + Duration[o][m] + SetupBetween(m, o, f) <= placed[f].start
  BY <1>1 DEF EndsInTime
<1>9. LatestFinish[o] # None => t + Duration[o][m] <= LatestFinish[o]
  BY <1>1 DEF EndsInTime
<1>10. /\ slot.wc = m /\ slot.start = t /\ slot.setup = setup
       /\ slot.end = t + Duration[o][m]
  BY <1>1 DEF Slot
<1>11. slot \in Assignment
  BY <1>1, <1>3, <1>5, <1>6 DEF Slot, Assignment
<1> HIDE DEF setup
<1> QED BY <1>3, <1>4, <1>5, <1>6, <1>7, <1>8, <1>9, <1>10, <1>11 DEF SlotFits

-----------------------------------------------------------------------------
(* Inserting between two neighbours. *)

(* Every operation of the machine is on one side of the gap. *)
Splits(placed, m, p, f) ==
  \A x \in On(placed, m) :
    \/ p # None /\ placed[x].start <= placed[p].start
    \/ f # None /\ placed[f].start <= placed[x].start

(* On a separated timeline no two operations of a machine start together. *)
LEMMA NoTies ==
  ASSUME NEW placed, Timeline(placed), Separated(placed),
         NEW x \in DOMAIN placed, NEW y \in DOMAIN placed,
         placed[x].wc = placed[y].wc, placed[x].start = placed[y].start
  PROVE  x = y
<1>1. placed[x].start \in Int /\ x \in Ops /\ placed[x].wc \in Machines
      /\ placed[x].end = placed[x].start + Duration[x][placed[x].wc]
  BY DEF Timeline
<1>2. Duration[x][placed[x].wc] \in Int /\ Duration[x][placed[x].wc] > 0
  BY <1>1, ProblemFacts
<1>3. x # y => placed[x].end <= placed[y].start
  BY <1>1 DEF Separated
<1> QED BY <1>1, <1>2, <1>3

LEMMA PlaceAtIsTimeline ==
  ASSUME NEW placed, Timeline(placed), NEW o \in Ops \ DOMAIN placed, NEW m \in Machines,
         NEW earliest, NEW p, NEW f, NEW slot, SlotFits(placed, o, m, earliest, p, f, slot)
  PROVE  Timeline(PlaceAt(placed, o, slot))
<1>1. slot.wc = m /\ slot.start \in Int /\ slot.end = slot.start + Duration[o][m]
  BY DEF SlotFits
<1> DEFINE new == PlaceAt(placed, o, slot)
<1>2. /\ DOMAIN new = DOMAIN placed \cup {o} /\ new[o] = slot
      /\ \A x \in DOMAIN placed : new[x] = placed[x]
  BY DEF PlaceAt
<1>3. Timeline(new)
  <2> HIDE DEF new
  <2> QED BY <1>1, <1>2 DEF Timeline
<1> QED BY <1>3

(* The main lemma: a slot that fits a gap which splits the machine keeps   *)
(* the timeline separated, the setup of the operation behind it included.  *)
LEMMA InsertionKeepsSeparated ==
  ASSUME NEW placed, Timeline(placed), Separated(placed),
         NEW o \in Ops \ DOMAIN placed, NEW m \in Machines, NEW earliest \in Int,
         NEW p, Neighbour(placed, m, p), NEW f, Neighbour(placed, m, f), Splits(placed, m, p, f),
         NEW slot, SlotFits(placed, o, m, earliest, p, f, slot)
  PROVE  Separated(PlaceAt(placed, o, slot))
<1> DEFINE new == PlaceAt(placed, o, slot)
<1>1. /\ DOMAIN new = DOMAIN placed \cup {o} /\ new[o] = slot
      /\ \A x \in DOMAIN placed : new[x] = placed[x]
  BY DEF PlaceAt
<1>2. /\ slot.wc = m /\ slot.start \in Int /\ slot.end = slot.start + Duration[o][m]
      /\ Duration[o][m] \in Int /\ Duration[o][m] > 0
  BY ProblemFacts DEF SlotFits
<1>3. \A x \in DOMAIN placed :
        /\ x \in Ops /\ x # o /\ x # None
        /\ placed[x].start \in Int /\ placed[x].end \in Int /\ placed[x].start < placed[x].end
        /\ \A y \in DOMAIN placed :
             placed[x].wc \in Machines /\ SetupBetween(placed[x].wc, x, y) \in Nat
  BY ProblemFacts DEF Timeline
<1>4. p # None => /\ p \in DOMAIN placed /\ placed[p].wc = m
                  /\ SetupBetween(m, p, o) \in Nat
                  /\ placed[p].end + SetupBetween(m, p, o) <= slot.start
  BY ProblemFacts DEF Neighbour, On, SlotFits, Timeline
<1>5. f # None => /\ f \in DOMAIN placed /\ placed[f].wc = m
                  /\ SetupBetween(m, o, f) \in Nat
                  /\ slot.end + SetupBetween(m, o, f) <= placed[f].start
  BY ProblemFacts DEF Neighbour, On, SlotFits, Timeline
<1>6. \A x \in DOMAIN placed : placed[x].wc = m =>
        \/ p # None /\ placed[x].start <= placed[p].start
        \/ f # None /\ placed[f].start <= placed[x].start
  BY DEF Splits, On
<1>7. \A x, y \in DOMAIN placed :
        x # y /\ placed[x].wc = placed[y].wc /\ placed[x].start <= placed[y].start
          => placed[x].end <= placed[y].start
  BY DEF Separated
<1>8. ASSUME NEW x \in DOMAIN new, NEW y \in DOMAIN new, x # y,
             new[x].wc = new[y].wc, new[x].start <= new[y].start
      PROVE  /\ new[x].end <= new[y].start
             /\ Follows(new, new[x].wc, x, y) =>
                  new[x].end + SetupBetween(new[x].wc, x, y) <= new[y].start
  <2>1. CASE x # o /\ y # o
    <3>1. x \in DOMAIN placed /\ y \in DOMAIN placed /\ new[x] = placed[x] /\ new[y] = placed[y]
      BY <1>1, <2>1
    <3>2. Follows(new, new[x].wc, x, y) => Follows(placed, placed[x].wc, x, y)
      <4>1. x # None
        BY <1>3, <3>1
      <4>2. \A z \in On(placed, placed[x].wc) : z \in On(new, new[x].wc) /\ new[z] = placed[z]
        BY <1>1, <3>1 DEF On
      <4>3. y \in On(placed, placed[x].wc) /\ x \in On(placed, placed[x].wc)
        BY <1>8, <3>1 DEF On
      <4> HIDE DEF new
      <4> QED BY <3>1, <4>1, <4>2, <4>3 DEF Follows
    <3> QED BY <1>8, <3>1, <3>2 DEF Separated
  <2>2. CASE x = o /\ y # o
    <3>1. y \in DOMAIN placed /\ new[x] = slot /\ new[y] = placed[y] /\ placed[y].wc = m
      BY <1>1, <1>2, <1>8, <2>2
    <3>2. f # None /\ placed[f].start <= placed[y].start
      <4>1. p # None => ~ placed[y].start <= placed[p].start
        BY <1>2, <1>3, <1>4, <1>8, <3>1
      <4> QED BY <1>6, <3>1, <4>1
    <3>3. new[x].end <= new[y].start
      BY <1>2, <1>3, <1>5, <3>1, <3>2
    <3>4. ASSUME Follows(new, m, x, y) PROVE y = f
      <4>1. f \in On(new, m) /\ new[f] = placed[f]
        BY <1>1, <1>5, <3>2 DEF On
      <4>2. placed[f].start <= slot.start \/ placed[y].start <= placed[f].start
        <5>1. x # None
          BY <2>2, ProblemFacts
        <5> HIDE DEF new
        <5> QED BY <3>1, <3>4, <4>1, <5>1 DEF Follows
      <4>3. placed[y].start <= placed[f].start
        BY <1>2, <1>3, <1>5, <3>2, <4>2
      <4> QED BY <1>3, <1>5, <3>1, <3>2, <4>3, NoTies
    <3> HIDE DEF new
    <3> QED BY <1>2, <1>5, <2>2, <3>1, <3>2, <3>3, <3>4
  <2>3. CASE y = o /\ x # o
    <3>1. x \in DOMAIN placed /\ new[y] = slot /\ new[x] = placed[x] /\ placed[x].wc = m
      BY <1>1, <1>2, <1>8, <2>3
    <3>2. p # None /\ placed[x].start <= placed[p].start
      <4>1. f # None => ~ placed[f].start <= placed[x].start
        BY <1>2, <1>3, <1>5, <1>8, <3>1
      <4> QED BY <1>6, <3>1, <4>1
    <3>3. x = p \/ placed[x].end <= placed[p].start
      BY <1>4, <1>7, <3>1, <3>2
    <3>4. new[x].end <= new[y].start
      <4> HIDE DEF new
      <4> QED BY <1>2, <1>3, <1>4, <3>1, <3>2, <3>3
    <3>5. ASSUME Follows(new, m, x, y) PROVE x = p
      <4>1. p \in On(new, m) /\ new[p] = placed[p]
        BY <1>1, <1>4, <3>2 DEF On
      <4>2. placed[p].start <= placed[x].start \/ slot.start <= placed[p].start
        <5>1. x # None
          BY <1>3, <3>1
        <5> HIDE DEF new
        <5> QED BY <3>1, <3>5, <4>1, <5>1 DEF Follows
      <4>3. placed[p].start <= placed[x].start
        BY <1>2, <1>3, <1>4, <3>2, <4>2
      <4> QED BY <1>3, <1>4, <3>1, <3>2, <4>3, NoTies
    <3> HIDE DEF new
    <3> QED BY <1>2, <1>4, <2>3, <3>1, <3>2, <3>4, <3>5
  <2> QED BY <1>8, <2>1, <2>2, <2>3
<1>9. Separated(new)
  <2> HIDE DEF new
  <2> QED BY <1>8 DEF Separated
<1> QED BY <1>9

-----------------------------------------------------------------------------
(* The gaps the scans look at. *)

LEMMA OnIsFinite ==
  ASSUME NEW placed, Timeline(placed), NEW m
  PROVE  IsFiniteSet(On(placed, m))
<1>1. On(placed, m) \subseteq Ops
  BY DEF On, Timeline
<1> QED BY <1>1, FS_Subset, DispatchTimelineAssumption DEF DispatchTimelineAssumption

(* Among some operations of a machine one starts last, and one first. *)
LEMMA LastOf ==
  ASSUME NEW placed, Timeline(placed), NEW m, NEW S, S \subseteq On(placed, m), S # {}
  PROVE  \E x \in S : \A y \in S : placed[y].start <= placed[x].start
<1> DEFINE f == [x \in S |-> placed[x].start]
<1>1. f \in [S -> Int]
  BY DEF On, Timeline
<1>2. IsFiniteSet(S)
  BY OnIsFinite, FS_Subset
<1>3. PICK x \in S : \A y \in S : f[y] <= f[x]
  BY <1>1, <1>2, LargestElement
<1> QED BY <1>3

LEMMA FirstOf ==
  ASSUME NEW placed, Timeline(placed), NEW m, NEW S, S \subseteq On(placed, m), S # {}
  PROVE  \E x \in S : \A y \in S : placed[x].start <= placed[y].start
<1> DEFINE f == [x \in S |-> placed[x].start]
<1>1. f \in [S -> Int]
  BY DEF On, Timeline
<1>2. IsFiniteSet(S)
  BY OnIsFinite, FS_Subset
<1>3. PICK x \in S : \A y \in S : f[x] <= f[y]
  BY <1>1, <1>2, SmallestElement
<1> QED BY <1>3

LEMMA FollowsSplits ==
  ASSUME NEW placed, NEW m, NEW p, NEW f, f # None, p = None \/ p \in Ops, None \notin Ops,
         Follows(placed, m, p, f), Timeline(placed)
  PROVE  Splits(placed, m, p, f)
<1>1. CASE p \in On(placed, m)
  <2>1. p # None
    BY <1>1 DEF On, Timeline
  <2> QED BY <1>1, <2>1 DEF Follows, Splits
<1>2. CASE p = None
  <2>1. None \notin On(placed, m)
    BY DEF On, Timeline
  <2> QED BY <1>2, <2>1 DEF Follows, Splits
<1> QED BY <1>1, <1>2 DEF Follows

LEMMA LastSplits ==
  ASSUME NEW placed, NEW m, NEW p, IsLast(placed, On(placed, m), p), Timeline(placed)
  PROVE  Splits(placed, m, p, None)
<1>1. None \notin On(placed, m)
  BY ProblemFacts DEF On, Timeline
<1> QED BY <1>1 DEF IsLast, Splits

(* The slice of a hard window leaves out what follows it on the machine;   *)
(* a slot that ends by the latest finish ends before any of that.          *)
LEMMA SliceSplits ==
  ASSUME NEW placed, Timeline(placed), NEW m \in Machines, NEW o \in Ops, NEW earliest \in Int,
         NEW p, IsLast(placed, {x \in On(placed, m) : InSlice(placed, m, earliest, LatestFinish[o], x)}, p),
         NEW slot, SlotFits(placed, o, m, earliest, p, None, slot)
  PROVE  Splits(placed, m, p, None)
<1> DEFINE latest == LatestFinish[o]
           slice == {x \in On(placed, m) : InSlice(placed, m, earliest, latest, x)}
<1>1. /\ slot.start \in Int /\ earliest <= slot.start /\ slot.start < slot.end /\ slot.end \in Int
      /\ latest # None => slot.end <= latest
      /\ latest \in Int \cup {None}
  BY ProblemFacts DEF SlotFits
<1>2. \A x \in On(placed, m) :
        /\ x # None /\ x \in Ops /\ placed[x].start \in Int
        /\ placed[x].start < placed[x].end /\ placed[x].end \in Int
        /\ SetupBetween(m, x, o) \in Nat
  BY ProblemFacts DEF On, Timeline
<1>3. p \in slice => p # None /\ placed[p].end <= slot.start
  <2>1. ASSUME p \in slice PROVE p # None /\ placed[p].end <= slot.start
    <3>1. p \in On(placed, m)
      BY <2>1
    <3>2. p # None /\ placed[p].end + SetupBetween(m, p, o) <= slot.start
      BY <1>2, <3>1 DEF SlotFits
    <3> QED BY <1>1, <1>2, <3>1, <3>2
  <2> QED BY <2>1
<1>4. \A x \in slice : p \in slice /\ placed[x].start <= placed[p].start
  BY DEF IsLast
(* Nothing on the machine starts after the latest finish.                  *)
<1>5. latest # None => \A x \in On(placed, m) : placed[x].start <= latest
  <2> DEFINE behind == {x \in On(placed, m) : latest < placed[x].start}
  <2>1. SUFFICES ASSUME latest # None, behind # {} PROVE FALSE
    BY <1>1, <1>2
  <2>2. PICK n \in behind : \A x \in behind : placed[n].start <= placed[x].start
    <3>1. behind \subseteq On(placed, m)
      OBVIOUS
    <3> HIDE DEF behind
    <3> QED BY <2>1, <3>1, FirstOf
  <2>3. earliest <= placed[n].start
    BY <1>1, <1>2, <2>1, <2>2
  <2>4. n \in slice
    BY <2>2, <2>3 DEF InSlice
  <2>5. p \in slice /\ placed[n].start <= placed[p].start
    BY <1>4, <2>4
  <2> QED BY <1>1, <1>2, <1>3, <2>1, <2>2, <2>5
<1>6. \A x \in On(placed, m) : earliest <= placed[x].start => x \in slice
  BY <1>5 DEF InSlice
<1>7. CASE \E x \in On(placed, m) : earliest <= placed[x].start
  <2>1. PICK y \in On(placed, m) : earliest <= placed[y].start
    BY <1>7
  <2>2. p \in slice /\ placed[y].start <= placed[p].start
    BY <1>4, <1>6, <2>1
  <2>3. \A x \in On(placed, m) : placed[x].start <= placed[p].start
    <3>1. TAKE x \in On(placed, m)
    <3>2. CASE earliest <= placed[x].start
      BY <1>4, <1>6, <3>2
    <3>3. CASE placed[x].start < earliest
      <4>1. p \in On(placed, m)
        BY <2>2
      <4> QED BY <1>2, <2>1, <2>2, <3>3, <4>1
    <3> QED BY <1>2, <3>2, <3>3
  <2> QED BY <1>3, <2>2, <2>3 DEF Splits
<1>8. CASE \A x \in On(placed, m) : placed[x].start < earliest
  <2>1. CASE On(placed, m) = {}
    BY <2>1 DEF Splits
  <2>2. CASE On(placed, m) # {}
    <3>1. PICK z \in On(placed, m) : \A y \in On(placed, m) : placed[y].start <= placed[z].start
      BY <2>2, LastOf
    <3>2. z \in slice
      BY <1>5, <1>8, <3>1 DEF InSlice
    <3>3. p \in slice /\ placed[z].start <= placed[p].start
      BY <1>4, <3>2
    <3>4. \A x \in On(placed, m) : placed[x].start <= placed[p].start
      <4>1. p \in On(placed, m)
        BY <3>3
      <4> QED BY <1>2, <3>1, <3>3, <4>1
    <3> QED BY <1>3, <3>3, <3>4 DEF Splits
  <2> QED BY <2>1, <2>2
<1> QED BY <1>2, <1>7, <1>8

LEMMA ScannedGapSplits ==
  ASSUME NEW placed, Timeline(placed), NEW o \in Ops, NEW m \in Machines, NEW earliest \in Int,
         NEW scan \in {"all", "append", "window"}, NEW g \in GapsScanned(placed, scan, o, m, earliest),
         NEW slot, SlotFits(placed, o, m, earliest, g[1], g[2], slot)
  PROVE  Splits(placed, m, g[1], g[2])
<1>1. ASSUME g \in AllGaps(placed, m) PROVE Splits(placed, m, g[1], g[2])
  <2>1. CASE g[2] = None
    BY <1>1, <2>1, LastSplits DEF AllGaps
  <2>2. CASE g[2] # None
    <3>1. Follows(placed, m, g[1], g[2]) /\ g[1] \in On(placed, m) \cup {None}
      BY <1>1, <2>2 DEF AllGaps
    <3>2. g[1] = None \/ g[1] \in Ops
      BY <3>1 DEF On, Timeline
    <3> QED BY <2>2, <3>1, <3>2, FollowsSplits, ProblemFacts
  <2> QED BY <2>1, <2>2
<1>2. CASE scan = "all"
  BY <1>1, <1>2 DEF GapsScanned
<1>3. CASE scan = "append"
  BY <1>1, <1>3 DEF GapsScanned, AppendGap
<1>4. CASE scan = "window"
  <2> DEFINE slice == {x \in On(placed, m) : InSlice(placed, m, earliest, LatestFinish[o], x)}
  <2>1. /\ g[1] \in On(placed, m) \cup {None} /\ g[2] \in slice \cup {None}
        /\ g[2] = None => IsLast(placed, slice, g[1])
        /\ g[2] # None => Follows(placed, m, g[1], g[2])
    BY <1>4 DEF GapsScanned, WindowGaps
  <2>2. CASE g[2] = None
    BY <2>1, <2>2, SliceSplits
  <2>3. CASE g[2] # None
    <3>1. g[1] = None \/ g[1] \in Ops
      BY <2>1 DEF On, Timeline
    <3> QED BY <2>1, <2>3, <3>1, FollowsSplits, ProblemFacts
  <2> QED BY <2>2, <2>3
<1> QED BY <1>2, <1>3, <1>4

LEMMA ScannedGapIsBounded ==
  ASSUME NEW placed, NEW o, NEW m, NEW earliest, NEW scan \in {"all", "append", "window"},
         NEW g \in GapsScanned(placed, scan, o, m, earliest)
  PROVE  Neighbour(placed, m, g[1]) /\ Neighbour(placed, m, g[2])
BY DEF GapsScanned, AllGaps, AppendGap, WindowGaps, Neighbour

-----------------------------------------------------------------------------
(* find_earliest_feasible_slot, whichever gaps it scans: its slot respects *)
(* the bounds it was given and keeps the timeline separated.               *)
THEOREM EarliestSlotIsSound ==
  ASSUME NEW placed, Timeline(placed), Separated(placed),
         NEW o \in Ops \ DOMAIN placed, NEW m \in Machines, NEW earliest \in Int,
         NEW windows, EndsAreTimes(windows), NEW scan \in {"all", "append", "window"},
         NEW slot \in EarliestSlots(placed, windows, scan, o, m, earliest)
  PROVE  /\ Timeline(PlaceAt(placed, o, slot))
         /\ Separated(PlaceAt(placed, o, slot))
         /\ \E p, f : SlotFits(placed, o, m, earliest, p, f, slot)
<1>1. PICK g \in GapsScanned(placed, scan, o, m, earliest) :
        slot \in SlotsInGap(placed, windows, o, m, earliest, g[1], g[2])
  BY DEF EarliestSlots
<1>2. Neighbour(placed, m, g[1]) /\ Neighbour(placed, m, g[2])
  BY ScannedGapIsBounded
<1>3. SlotFits(placed, o, m, earliest, g[1], g[2], slot)
  BY <1>1, <1>2, SlotInGapFits
<1>4. Splits(placed, m, g[1], g[2])
  BY <1>3, ScannedGapSplits
<1>5. Separated(PlaceAt(placed, o, slot))
  BY <1>2, <1>3, <1>4, InsertionKeepsSeparated
<1>6. Timeline(PlaceAt(placed, o, slot))
  BY <1>3, PlaceAtIsTimeline
<1> QED BY <1>3, <1>5, <1>6

(* Recomputing the setups moves nothing. *)
LEMMA RecomputeKeepsTimes ==
  ASSUME NEW placed, \A o \in DOMAIN placed : placed[o] \in Assignment
  PROVE  /\ DOMAIN RecomputeSetups(placed) = DOMAIN placed
         /\ \A o \in DOMAIN placed :
              /\ RecomputeSetups(placed)[o].wc = placed[o].wc
              /\ RecomputeSetups(placed)[o].start = placed[o].start
              /\ RecomputeSetups(placed)[o].end = placed[o].end
BY DEF RecomputeSetups, Assignment

(* An operation has a neighbour before it, or is the first of its machine. *)
LEMMA PredecessorFollows ==
  ASSUME NEW placed, Timeline(placed), NEW o \in DOMAIN placed
  PROVE  /\ Predecessor(placed, o) \in On(placed, placed[o].wc) \cup {None}
         /\ Predecessor(placed, o) \in DOMAIN placed \cup {None}
         /\ Follows(placed, placed[o].wc, Predecessor(placed, o), o)
<1> DEFINE m == placed[o].wc
           before == {x \in On(placed, m) : placed[x].start < placed[o].start}
<1>1. o \in On(placed, m) /\ o \in Ops /\ m \in Machines
  BY DEF On, Timeline
<1>2. \A x \in On(placed, m) : x \in DOMAIN placed /\ x \in Ops /\ placed[x].start \in Int
  BY DEF On, Timeline
<1>3. \E p \in On(placed, m) \cup {None} : Follows(placed, m, p, o)
  <2>1. CASE before = {}
    <3>1. \A x \in On(placed, m) : placed[o].start <= placed[x].start
      BY <1>1, <1>2, <2>1
    <3> QED BY <1>1, <3>1 DEF Follows
  <2>2. CASE before # {}
    <3>1. before \subseteq On(placed, m)
      OBVIOUS
    <3>2. PICK p \in before : \A x \in before : placed[x].start <= placed[p].start
      <4> HIDE DEF before, m
      <4> QED BY <2>2, <3>1, LastOf
    <3>3. \A x \in On(placed, m) :
            placed[x].start <= placed[p].start \/ placed[o].start <= placed[x].start
      BY <1>1, <1>2, <3>2
    <3> QED BY <1>1, <3>2, <3>3 DEF Follows
  <2> QED BY <2>1, <2>2
<1>4. Predecessor(placed, o) \in On(placed, m) \cup {None} /\ Follows(placed, m, Predecessor(placed, o), o)
  <2>1. Predecessor(placed, o) = CHOOSE p \in On(placed, m) \cup {None} : Follows(placed, m, p, o)
    BY DEF Predecessor
  <2> HIDE DEF m
  <2> QED BY <1>3, <2>1
<1> HIDE DEF before
<1> QED BY <1>2, <1>4

(* The setup of an operation: that of the neighbour before it, if any.     *)
LEMMA ActualSetupIsNat ==
  ASSUME NEW placed, Timeline(placed), NEW o \in DOMAIN placed
  PROVE  ActualSetup(placed, o) \in Nat
<1>1. o \in Ops /\ placed[o].wc \in Machines /\ Predecessor(placed, o) \in Ops \cup {None}
  BY PredecessorFollows DEF Timeline
<1> QED BY <1>1, SetupAfterIsNat DEF ActualSetup

LEMMA SameTimesKeepSeparated ==
  ASSUME NEW placed, Timeline(placed), Separated(placed), NEW new, DOMAIN new = DOMAIN placed,
         \A o \in DOMAIN placed :
           new[o].wc = placed[o].wc /\ new[o].start = placed[o].start /\ new[o].end = placed[o].end
  PROVE  Timeline(new) /\ Separated(new)
<1>1. Timeline(new)
  BY DEF Timeline
<1>2. \A m : On(new, m) = On(placed, m)
  BY DEF On
<1>3. ASSUME NEW m, NEW x \in DOMAIN placed, NEW y \in DOMAIN placed, Follows(new, m, x, y)
      PROVE  Follows(placed, m, x, y)
  <2>1. \A z \in On(placed, m) : z \in DOMAIN placed
    BY DEF On
  <2> QED BY <1>2, <1>3, <2>1 DEF Follows
<1>4. Separated(new)
  BY <1>3 DEF Separated
<1> QED BY <1>1, <1>4

-----------------------------------------------------------------------------
(* The occupancy the solvers keep ends at the end of an operation, however *)
(* stale its beginning is.                                                 *)

CachesTimes(cache) == \A k \in DOMAIN cache : EndsAreTimes(cache[k])

LEMMA WindowEndsAreTimes ==
  ASSUME NEW placed, Timeline(placed), NEW o \in DOMAIN placed
  PROVE  Window(placed, o).to \in Int
<1>1. o \in Ops /\ placed[o].wc \in Machines /\ placed[o].start \in Int
      /\ placed[o].end = placed[o].start + Duration[o][placed[o].wc]
  BY DEF Timeline
<1>2. placed[o].end \in Int
  BY <1>1, ProblemFacts
<1> QED BY <1>2 DEF Window

LEMMA CachedForKeepsTimes ==
  ASSUME NEW placed, Timeline(placed), NEW cache, CachesTimes(cache), NEW keys
  PROVE  CachesTimes(CachedFor(placed, cache, keys))
<1>1. ASSUME NEW k PROVE EndsAreTimes(FreshWindows(placed, k))
  BY WindowEndsAreTimes DEF EndsAreTimes, FreshWindows
<1> QED BY <1>1 DEF CachesTimes, CachedFor

LEMMA CacheAfterAddKeepsTimes ==
  ASSUME NEW new, Timeline(new), NEW cache, CachesTimes(cache), NEW o \in DOMAIN new
  PROVE  CachesTimes(CacheAfterAdd(cache, new, o))
<1> DEFINE added == CacheAfterAdd(cache, new, o)
<1>1. SUFFICES ASSUME NEW k \in DOMAIN added PROVE EndsAreTimes(added[k])
  BY DEF CachesTimes
<1>2. k \in DOMAIN cache /\ EndsAreTimes(cache[k])
  BY DEF CachesTimes, CacheAfterAdd
<1>3. CASE RequiredBy(o) \cap k = {}
  BY <1>2, <1>3 DEF CacheAfterAdd
<1>4. CASE RequiredBy(o) \cap k # {}
  <2>1. added[k] = [p \in DOMAIN cache[k] \cup {o} |->
                      IF p = o THEN Window(new, o) ELSE cache[k][p]]
    BY <1>2, <1>4 DEF CacheAfterAdd
  <2>2. Window(new, o).to \in Int
    BY WindowEndsAreTimes
  <2> HIDE DEF added
  <2> QED BY <1>2, <2>1, <2>2 DEF EndsAreTimes
<1> QED BY <1>3, <1>4

LEMMA SeenWindowsAreTimes ==
  ASSUME NEW cache, CachesTimes(cache), NEW o
  PROVE  EndsAreTimes(WindowsSeenBy(cache, o))
BY DEF CachesTimes, EndsAreTimes, WindowsSeenBy

-----------------------------------------------------------------------------
(* Folds over a finite set, in the order of the community modules: g has   *)
(* the fold of step, from base, over every subset of s.                    *)
Pick(u) == CHOOSE x \in u : TRUE

Folds(base, step, s, g) ==
  g = [u \in SUBSET s |-> IF u = {} THEN base ELSE step[Pick(u)][g[u \ {Pick(u)}]]]

LEMMA FoldEquation ==
  ASSUME NEW base, NEW step, NEW s, NEW g, Folds(base, step, s, g), NEW u \in SUBSET s
  PROVE  g[u] = IF u = {} THEN base ELSE step[Pick(u)][g[u \ {Pick(u)}]]
<1> DEFINE value(v) == IF v = {} THEN base ELSE step[Pick(v)][g[v \ {Pick(v)}]]
<1>1. g = [v \in SUBSET s |-> value(v)]
  BY DEF Folds
<1> HIDE DEF value
<1>2. g[u] = value(u)
  BY <1>1
<1> QED BY <1>2 DEF value

(* A nonempty family of subsets of a finite set has a minimal one. *)
LEMMA MinimalSubset ==
  ASSUME NEW S, IsFiniteSet(S), NEW Family \in SUBSET SUBSET S, Family # {}
  PROVE  \E u \in Family : \A v \in SUBSET u : v \in Family => v = u
<1>1. Family \subseteq FiniteSubsetsOf(S)
  BY FS_Subset DEF FiniteSubsetsOf
<1>2. PICK u \in Family : \A v \in Family : <<v, u>> \notin StrictSubsetOrdering(S)
  BY <1>1, FS_StrictSubsetOrderingWellFounded, WFMin
<1>3. \A v \in SUBSET u : v \in Family /\ v # u => <<v, u>> \in StrictSubsetOrdering(S)
  BY <1>2 DEF StrictSubsetOrdering
<1>4. \A v \in SUBSET u : v \in Family => v = u
  BY <1>2, <1>3
<1> QED BY <1>2, <1>4

LEMMA PickIsElement ==
  ASSUME NEW u, u # {} PROVE Pick(u) \in u
BY DEF Pick

LEMMA FoldsAgree ==
  ASSUME NEW S, IsFiniteSet(S), NEW s \in SUBSET S, NEW t \in SUBSET S, NEW base, NEW step, NEW g, NEW h,
         Folds(base, step, s, g), Folds(base, step, t, h)
  PROVE  \A u \in SUBSET S : u \subseteq s /\ u \subseteq t => g[u] = h[u]
<1> DEFINE Bad == {u \in SUBSET S : u \subseteq s /\ u \subseteq t /\ g[u] # h[u]}
<1>1. SUFFICES ASSUME Bad # {} PROVE FALSE
  OBVIOUS
<1>2. PICK u \in Bad : \A v \in SUBSET u : v \in Bad => v = u
  <2>1. Bad \in SUBSET SUBSET S
    OBVIOUS
  <2> HIDE DEF Bad
  <2> QED BY <1>1, <2>1, MinimalSubset
<1>3. /\ g[u] = IF u = {} THEN base ELSE step[Pick(u)][g[u \ {Pick(u)}]]
      /\ h[u] = IF u = {} THEN base ELSE step[Pick(u)][h[u \ {Pick(u)}]]
  <2>1. u \in SUBSET s /\ u \in SUBSET t
    BY <1>2
  <2> QED BY <2>1, FoldEquation
<1>4. u # {}
  BY <1>2, <1>3
<1>5. u \ {Pick(u)} \notin Bad
  BY <1>2, <1>4, PickIsElement
<1>6. g[u \ {Pick(u)}] = h[u \ {Pick(u)}]
  BY <1>2, <1>5
<1> QED BY <1>2, <1>3, <1>6

LEMMA FoldExists ==
  ASSUME NEW S, IsFiniteSet(S), NEW base, NEW step
  PROVE  \E g : Folds(base, step, S, g)
<1> DEFINE Folded(s) == \E g : Folds(base, step, s, g)
           Bad == {s \in SUBSET S : ~ Folded(s)}
<1>1. SUFFICES ASSUME Bad # {} PROVE FALSE
  OBVIOUS
<1>2. PICK s \in Bad : \A v \in SUBSET s : v \in Bad => v = s
  <2>1. Bad \in SUBSET SUBSET S
    OBVIOUS
  <2> HIDE DEF Bad
  <2> QED BY <1>1, <2>1, MinimalSubset
<1> DEFINE At(v) == CHOOSE g : Folds(base, step, v, g)
           rest == s \ {Pick(s)}
           h == [v \in SUBSET s |-> IF v = s /\ s # {} THEN step[Pick(s)][At(rest)[rest]]
                                    ELSE IF v = {} THEN base ELSE At(v)[v]]
<1>3. \A v \in SUBSET s : v # s => Folds(base, step, v, At(v))
  BY <1>2
<1> HIDE DEF At
<1>4. ASSUME NEW v \in SUBSET s
      PROVE  h[v] = IF v = {} THEN base ELSE step[Pick(v)][h[v \ {Pick(v)}]]
  <2>1. CASE v = {}
    BY <2>1
  <2>2. CASE v # {}
    <3> DEFINE w == v \ {Pick(v)}
    <3>1. w \in SUBSET s /\ w # s /\ w \in SUBSET v
      BY <2>2, PickIsElement
    <3>2. Folds(base, step, w, At(w))
      BY <1>3, <3>1
    <3>3. h[w] = At(w)[w]
      <4>1. CASE w = {}
        <5>1. At(w)[w] = base
          BY <3>2, <4>1 DEF Folds
        <5> QED BY <3>1, <4>1, <5>1
      <4>2. CASE w # {}
        BY <3>1, <4>2
      <4> QED BY <4>1, <4>2
    <3>4. CASE v = s
      BY <2>2, <3>3, <3>4
    <3>5. CASE v # s
      <4>1. Folds(base, step, v, At(v)) /\ v \in SUBSET v
        BY <1>3, <3>5
      <4>2. At(v)[v] = step[Pick(v)][At(v)[w]]
        BY <2>2, <4>1 DEF Folds
      <4>3. At(v)[w] = At(w)[w]
        <5>1. v \in SUBSET S /\ w \in SUBSET S /\ w \subseteq v /\ w \subseteq w
          BY <1>2, <3>1
        <5> DEFINE gv == At(v)
                   gw == At(w)
        <5>2. Folds(base, step, v, gv) /\ Folds(base, step, w, gw)
          BY <3>2, <4>1
        <5> HIDE DEF w, gv, gw
        <5>3. gv[w] = gw[w]
          BY <5>1, <5>2, FoldsAgree
        <5> QED BY <5>3 DEF gv, gw
      <4> QED BY <2>2, <3>3, <3>5, <4>2, <4>3
    <3> QED BY <3>4, <3>5
  <2> QED BY <2>1, <2>2
<1>5. Folds(base, step, s, h)
  <2>1. h = [v \in SUBSET s |-> h[v]]
    OBVIOUS
  <2> HIDE DEF h
  <2> QED BY <1>4, <2>1 DEF Folds
<1> QED BY <1>2, <1>5

(* A fold stays in the set its base and its steps stay in. *)
LEMMA FoldIsTyped ==
  ASSUME NEW S, IsFiniteSet(S), NEW T, NEW base \in T, NEW step,
         \A x \in S, t \in T : step[x][t] \in T,
         NEW g, Folds(base, step, S, g)
  PROVE  \A u \in SUBSET S : g[u] \in T
<1> DEFINE Bad == {u \in SUBSET S : g[u] \notin T}
<1>1. SUFFICES ASSUME Bad # {} PROVE FALSE
  BY <1>1
<1>2. PICK u \in Bad : \A v \in SUBSET u : v \in Bad => v = u
  <2>1. Bad \in SUBSET SUBSET S
    OBVIOUS
  <2> HIDE DEF Bad
  <2> QED BY <1>1, <2>1, MinimalSubset
<1>3. g[u] = IF u = {} THEN base ELSE step[Pick(u)][g[u \ {Pick(u)}]]
  BY <1>2, FoldEquation
<1>4. u # {} /\ Pick(u) \in u
  BY <1>2, <1>3, PickIsElement
<1>5. u \ {Pick(u)} \notin Bad
  BY <1>2, <1>4
<1> QED BY <1>2, <1>3, <1>4, <1>5

-----------------------------------------------------------------------------
(* Sums over a finite set. *)
Sums(f, s, g) ==
  g = [u \in SUBSET s |-> IF u = {} THEN 0 ELSE f[Pick(u)] + g[u \ {Pick(u)}]]

Total(f, s) == (CHOOSE g : Sums(f, s, g))[s]

LEMMA SumEquation ==
  ASSUME NEW f, NEW s, NEW g, Sums(f, s, g), NEW u \in SUBSET s
  PROVE  g[u] = IF u = {} THEN 0 ELSE f[Pick(u)] + g[u \ {Pick(u)}]
<1> DEFINE value(v) == IF v = {} THEN 0 ELSE f[Pick(v)] + g[v \ {Pick(v)}]
<1>1. g = [v \in SUBSET s |-> value(v)]
  BY DEF Sums
<1> HIDE DEF value
<1>2. g[u] = value(u)
  BY <1>1
<1> QED BY <1>2 DEF value

LEMMA SumsExist ==
  ASSUME NEW S, IsFiniteSet(S), NEW f, \A x \in S : f[x] \in Nat
  PROVE  \E g : Sums(f, S, g) /\ \A u \in SUBSET S : g[u] \in Nat
<1> DEFINE step == [x \in S |-> [n \in Nat |-> f[x] + n]]
<1>1. \A x \in S, n \in Nat : step[x][n] \in Nat /\ step[x][n] = f[x] + n
  OBVIOUS
<1> HIDE DEF step
<1>2. PICK g : Folds(0, step, S, g)
  BY FoldExists
<1>3. \A u \in SUBSET S : g[u] \in Nat
  BY <1>1, <1>2, FoldIsTyped
<1>4. ASSUME NEW u \in SUBSET S, u # {} PROVE step[Pick(u)][g[u \ {Pick(u)}]] = f[Pick(u)] + g[u \ {Pick(u)}]
  <2>1. Pick(u) \in S /\ u \ {Pick(u)} \in SUBSET S
    BY <1>4, PickIsElement
  <2> QED BY <1>1, <1>3, <2>1
<1>5. Sums(f, S, g)
  <2>1. g = [u \in SUBSET S |-> IF u = {} THEN 0 ELSE step[Pick(u)][g[u \ {Pick(u)}]]]
    BY <1>2 DEF Folds
  <2>2. [u \in SUBSET S |-> IF u = {} THEN 0 ELSE step[Pick(u)][g[u \ {Pick(u)}]]]
        = [u \in SUBSET S |-> IF u = {} THEN 0 ELSE f[Pick(u)] + g[u \ {Pick(u)}]]
    BY <1>4
  <2> QED BY <2>1, <2>2 DEF Sums
<1> QED BY <1>3, <1>5

LEMMA SumsAgree ==
  ASSUME NEW S, IsFiniteSet(S), NEW s \in SUBSET S, NEW f, NEW g, NEW h,
         Sums(f, S, g), Sums(f, s, h)
  PROVE  \A u \in SUBSET s : g[u] = h[u]
<1> DEFINE Bad == {u \in SUBSET s : g[u] # h[u]}
<1>1. SUFFICES ASSUME Bad # {} PROVE FALSE
  BY <1>1
<1>2. PICK u \in Bad : \A v \in SUBSET u : v \in Bad => v = u
  <2>1. Bad \in SUBSET SUBSET S
    OBVIOUS
  <2> HIDE DEF Bad
  <2> QED BY <1>1, <2>1, MinimalSubset
<1>3. /\ g[u] = IF u = {} THEN 0 ELSE f[Pick(u)] + g[u \ {Pick(u)}]
      /\ h[u] = IF u = {} THEN 0 ELSE f[Pick(u)] + h[u \ {Pick(u)}]
  <2>1. u \in SUBSET s /\ u \in SUBSET S
    BY <1>2
  <2> QED BY <2>1, SumEquation
<1>4. u # {} /\ u \ {Pick(u)} \notin Bad
  BY <1>2, <1>3, PickIsElement
<1> QED BY <1>2, <1>3, <1>4

LEMMA TotalSteps ==
  ASSUME NEW S, IsFiniteSet(S), NEW f, \A x \in S : f[x] \in Nat
  PROVE  /\ Total(f, {}) = 0
         /\ S # {} => Total(f, S) = f[Pick(S)] + Total(f, S \ {Pick(S)})
<1> DEFINE At(v) == CHOOSE g : Sums(f, v, g)
           rest == S \ {Pick(S)}
<1>1. \A v \in SUBSET S : Sums(f, v, At(v))
  <2>1. ASSUME NEW v \in SUBSET S PROVE \E g : Sums(f, v, g)
    BY FS_Subset, SumsExist
  <2> QED BY <2>1
<1>2. Total(f, {}) = At({})[{}] /\ Total(f, S) = At(S)[S] /\ Total(f, rest) = At(rest)[rest]
  BY DEF Total
<1> HIDE DEF At
<1>3. At({})[{}] = 0
  <2>1. Sums(f, {}, At({}))
    BY <1>1
  <2> QED BY <2>1 DEF Sums
<1>4. S # {} => At(S)[S] = f[Pick(S)] + At(S)[rest]
  <2>1. Sums(f, S, At(S)) /\ S \in SUBSET S
    BY <1>1
  <2> QED BY <2>1 DEF Sums
<1>5. At(S)[rest] = At(rest)[rest]
  <2>1. Sums(f, S, At(S)) /\ Sums(f, rest, At(rest))
    BY <1>1
  <2>2. rest \in SUBSET S /\ S \in SUBSET S /\ rest \subseteq rest
    OBVIOUS
  <2> HIDE DEF rest
  <2> QED BY <2>1, <2>2, SumsAgree
<1> QED BY <1>2, <1>3, <1>4, <1>5

LEMMA TotalIsNat ==
  ASSUME NEW S, IsFiniteSet(S), NEW f, \A x \in S : f[x] \in Nat
  PROVE  Total(f, S) \in Nat
<1> DEFINE Bad == {u \in SUBSET S : Total(f, u) \notin Nat}
<1>1. SUFFICES ASSUME Bad # {} PROVE FALSE
  OBVIOUS
<1>2. PICK u \in Bad : \A v \in SUBSET u : v \in Bad => v = u
  <2>1. Bad \in SUBSET SUBSET S
    OBVIOUS
  <2> HIDE DEF Bad
  <2> QED BY <1>1, <2>1, MinimalSubset
<1>3. /\ Total(f, {}) = 0
      /\ u # {} => Total(f, u) = f[Pick(u)] + Total(f, u \ {Pick(u)})
  BY <1>2, FS_Subset, TotalSteps
<1>4. u # {}
  <2>1. Total(f, u) \notin Nat
    BY <1>2
  <2>2. u = {} => Total(f, u) = 0
    BY <1>3
  <2> QED BY <2>1, <2>2
<1>5. Total(f, u \ {Pick(u)}) \in Nat /\ Pick(u) \in S
  BY <1>2, <1>4, PickIsElement
<1> QED BY <1>2, <1>3, <1>4, <1>5

(* The order does not matter: any element may be taken out first.          *)
LEMMA TotalWithout ==
  ASSUME NEW S, IsFiniteSet(S), NEW f, \A x \in S : f[x] \in Nat, NEW x \in S
  PROVE  Total(f, S) = f[x] + Total(f, S \ {x})
<1> DEFINE Commutes(u) == \A y \in u : Total(f, u) = f[y] + Total(f, u \ {y})
           Bad == {u \in SUBSET S : ~ Commutes(u)}
<1>1. SUFFICES ASSUME Bad # {} PROVE FALSE
  BY <1>1
<1>2. PICK u \in Bad : \A v \in SUBSET u : v \in Bad => v = u
  <2>1. Bad \in SUBSET SUBSET S
    OBVIOUS
  <2> HIDE DEF Bad
  <2> QED BY <1>1, <2>1, MinimalSubset
<1>3. PICK y \in u : Total(f, u) # f[y] + Total(f, u \ {y})
  BY <1>2
<1> DEFINE p == Pick(u)
           both == (u \ {p}) \ {y}
<1>4. Total(f, u) = f[p] + Total(f, u \ {p}) /\ p \in u
  BY <1>2, <1>3, FS_Subset, TotalSteps, PickIsElement
<1>5. p # y
  BY <1>3, <1>4
<1>6. Total(f, u \ {p}) = f[y] + Total(f, both)
  <2>1. u \ {p} \notin Bad
    BY <1>2, <1>4
  <2> QED BY <1>2, <1>3, <1>5, <2>1
<1>7. Total(f, u \ {y}) = f[p] + Total(f, both)
  <2>1. u \ {y} \notin Bad /\ (u \ {y}) \ {p} = both
    BY <1>2, <1>3
  <2> QED BY <1>2, <1>4, <1>5, <2>1
<1>8. Total(f, both) \in Nat
  <2>1. both \in SUBSET S
    BY <1>2
  <2> HIDE DEF both
  <2> QED BY <2>1, FS_Subset, TotalIsNat
<1>9. f[p] \in Nat /\ f[y] \in Nat
  BY <1>2, <1>3, <1>4
<1> HIDE DEF both, p
<1> QED BY <1>3, <1>4, <1>6, <1>7, <1>8, <1>9

LEMMA TotalGrows ==
  ASSUME NEW S, IsFiniteSet(S), NEW f, \A x \in S : f[x] \in Nat, NEW s \in SUBSET S
  PROVE  Total(f, s) <= Total(f, S)
<1> DEFINE Bad == {t \in SUBSET S : s \subseteq t /\ ~ Total(f, s) <= Total(f, t)}
<1>1. SUFFICES ASSUME Bad # {} PROVE FALSE
  BY <1>1
<1>2. PICK t \in Bad : \A v \in SUBSET t : v \in Bad => v = t
  <2>1. Bad \in SUBSET SUBSET S
    OBVIOUS
  <2> HIDE DEF Bad
  <2> QED BY <1>1, <2>1, MinimalSubset
<1>3. \A v \in SUBSET S : Total(f, v) \in Nat
  <2>1. ASSUME NEW v \in SUBSET S PROVE Total(f, v) \in Nat
    BY FS_Subset, TotalIsNat
  <2> QED BY <2>1
<1>4. t # s
  <2>1. t \in SUBSET S /\ ~ Total(f, s) <= Total(f, t)
    BY <1>2
  <2>2. Total(f, s) \in Nat
    BY <1>3
  <2> HIDE DEF Bad
  <2> QED BY <2>1, <2>2
<1>5. PICK x \in t \ s : TRUE
  <2>1. s \subseteq t
    BY <1>2
  <2> HIDE DEF Bad
  <2> QED BY <1>4, <2>1
<1>6. Total(f, s) <= Total(f, t \ {x})
  <2>1. t \ {x} \notin Bad
    BY <1>2, <1>5
  <2> QED BY <1>2, <1>5, <2>1
<1>7. Total(f, t) = f[x] + Total(f, t \ {x})
  BY <1>2, <1>5, FS_Subset, TotalWithout
<1>8. f[x] \in Nat /\ Total(f, t \ {x}) \in Nat /\ Total(f, s) \in Nat
  BY <1>2, <1>3, <1>5
<1> QED BY <1>2, <1>6, <1>7, <1>8

(* Of two sums over the same set, the one of larger terms is larger.       *)
LEMMA TotalIsMonotone ==
  ASSUME NEW S, IsFiniteSet(S), NEW f, NEW h, \A x \in S : f[x] \in Nat /\ h[x] \in Nat /\ f[x] <= h[x]
  PROVE  Total(f, S) <= Total(h, S)
<1> DEFINE Bad == {u \in SUBSET S : ~ Total(f, u) <= Total(h, u)}
<1>1. SUFFICES ASSUME Bad # {} PROVE FALSE
  BY <1>1
<1>2. PICK u \in Bad : \A v \in SUBSET u : v \in Bad => v = u
  <2>1. Bad \in SUBSET SUBSET S
    OBVIOUS
  <2> HIDE DEF Bad
  <2> QED BY <1>1, <2>1, MinimalSubset
<1>3. u \in SUBSET S /\ ~ Total(f, u) <= Total(h, u)
  BY <1>2
<1>4. IsFiniteSet(u) /\ (\A x \in u : f[x] \in Nat) /\ (\A x \in u : h[x] \in Nat)
  BY <1>3, FS_Subset
<1>5. /\ Total(f, {}) = 0 /\ Total(h, {}) = 0
      /\ u # {} => /\ Total(f, u) = f[Pick(u)] + Total(f, u \ {Pick(u)})
                   /\ Total(h, u) = h[Pick(u)] + Total(h, u \ {Pick(u)})
  BY <1>4, TotalSteps
<1>6. u # {}
  <2>1. u = {} => Total(f, u) = 0 /\ Total(h, u) = 0
    BY <1>5
  <2> QED BY <1>3, <2>1
<1> DEFINE v == u \ {Pick(u)}
<1>7. v \in SUBSET u /\ v # u /\ Pick(u) \in u
  BY <1>6, PickIsElement
<1>8. Total(f, v) <= Total(h, v)
  <2>1. v \notin Bad
    BY <1>2, <1>7
  <2> QED BY <1>3, <1>7, <2>1
<1>9. Total(f, v) \in Nat /\ Total(h, v) \in Nat
  <2>1. IsFiniteSet(v) /\ (\A x \in v : f[x] \in Nat) /\ (\A x \in v : h[x] \in Nat)
    BY <1>4, <1>7, FS_Subset
  <2> HIDE DEF v
  <2> QED BY <2>1, TotalIsNat
<1>10. f[Pick(u)] \in Nat /\ h[Pick(u)] \in Nat /\ f[Pick(u)] <= h[Pick(u)]
  BY <1>3, <1>7
<1> HIDE DEF v, Bad
<1> QED BY <1>3, <1>5, <1>6, <1>8, <1>9, <1>10 DEF v

LEMMA TotalIsBounded ==
  ASSUME NEW S, IsFiniteSet(S), NEW f, NEW b \in Nat, \A x \in S : f[x] \in Nat /\ f[x] <= b
  PROVE  Total(f, S) <= b * Cardinality(S)
<1> DEFINE Bad == {u \in SUBSET S : ~ Total(f, u) <= b * Cardinality(u)}
<1>1. SUFFICES ASSUME Bad # {} PROVE FALSE
  BY <1>1
<1>2. PICK u \in Bad : \A v \in SUBSET u : v \in Bad => v = u
  <2>1. Bad \in SUBSET SUBSET S
    OBVIOUS
  <2> HIDE DEF Bad
  <2> QED BY <1>1, <2>1, MinimalSubset
<1>3. u \in SUBSET S /\ ~ Total(f, u) <= b * Cardinality(u)
  BY <1>2
<1>4. IsFiniteSet(u) /\ (\A x \in u : f[x] \in Nat)
  BY <1>3, FS_Subset
<1>5. /\ Total(f, {}) = 0
      /\ u # {} => Total(f, u) = f[Pick(u)] + Total(f, u \ {Pick(u)})
  BY <1>4, TotalSteps
<1>6. u # {}
  <2>1. Cardinality({}) = 0
    BY FS_EmptySet
  <2>2. b * 0 = 0
    OBVIOUS
  <2> QED BY <1>3, <1>5, <2>1, <2>2
<1> DEFINE v == u \ {Pick(u)}
<1>7. v \in SUBSET u /\ v # u /\ Pick(u) \in u
  BY <1>6, PickIsElement
<1>8. Total(f, v) <= b * Cardinality(v)
  <2>1. v \notin Bad
    BY <1>2, <1>7
  <2> QED BY <1>3, <1>7, <2>1
<1>9. IsFiniteSet(v) /\ Cardinality(v) = Cardinality(u) - 1 /\ Cardinality(u) \in Nat
  <2>1. Cardinality(u) \in Nat
    BY <1>4, FS_CardinalityType
  <2>2. IsFiniteSet(v) /\ Cardinality(v) = Cardinality(u) - 1
    BY <1>4, <1>7, FS_RemoveElement
  <2> QED BY <2>1, <2>2
<1>10. Total(f, v) \in Nat
  <2>1. \A x \in v : f[x] \in Nat
    BY <1>4
  <2> HIDE DEF v
  <2> QED BY <1>9, <2>1, TotalIsNat
<1>11. f[Pick(u)] \in Nat /\ f[Pick(u)] <= b
  BY <1>3, <1>7
<1> DEFINE n == Cardinality(u)
           first == f[Pick(u)]
           rest == Total(f, v)
<1>12. first \in Nat /\ first <= b /\ rest \in Nat /\ rest <= b * (n - 1) /\ n \in Nat
  BY <1>8, <1>9, <1>10, <1>11
<1>13. Total(f, u) = first + rest /\ ~ Total(f, u) <= b * n
  BY <1>3, <1>5, <1>6
<1> HIDE DEF n, first, rest, v, Bad
<1>14. b * (n - 1) + b = b * n /\ b * (n - 1) \in Int /\ b * n \in Int
  BY <1>12
<1> QED BY <1>12, <1>13, <1>14

(* Who needs nothing does not count.                                       *)
LEMMA TotalIgnoresZeros ==
  ASSUME NEW S, IsFiniteSet(S), NEW f, \A x \in S : f[x] \in Nat,
         NEW s \in SUBSET S, \A x \in S \ s : f[x] = 0
  PROVE  Total(f, S) = Total(f, s)
<1> DEFINE Bad == {t \in SUBSET S : s \subseteq t /\ Total(f, t) # Total(f, s)}
<1>1. SUFFICES ASSUME Bad # {} PROVE FALSE
  BY <1>1
<1>2. PICK t \in Bad : \A v \in SUBSET t : v \in Bad => v = t
  <2>1. Bad \in SUBSET SUBSET S
    OBVIOUS
  <2> HIDE DEF Bad
  <2> QED BY <1>1, <2>1, MinimalSubset
<1>3. PICK x \in t \ s : TRUE
  <2>1. Total(f, t) # Total(f, s) /\ s \subseteq t
    BY <1>2
  <2>2. t # s
    BY <2>1
  <2> QED BY <2>1, <2>2
<1>4. Total(f, t \ {x}) = Total(f, s)
  <2>1. t \ {x} \notin Bad
    BY <1>2, <1>3
  <2> QED BY <1>2, <1>3, <2>1
<1>5. Total(f, t) = f[x] + Total(f, t \ {x})
  BY <1>2, <1>3, FS_Subset, TotalWithout
<1>6. f[x] = 0
  BY <1>2, <1>3
<1>7. Total(f, t \ {x}) \in Nat
  <2> DEFINE u == t \ {x}
  <2>1. u \in SUBSET S
    BY <1>2
  <2> HIDE DEF u
  <2>2. Total(f, u) \in Nat
    BY <2>1, FS_Subset, TotalIsNat
  <2> QED BY <2>2 DEF u
<1> QED BY <1>2, <1>4, <1>5, <1>6, <1>7

(* The quantity of a resource that some operations hold together. *)
NeedOf(r) == [o \in Ops |-> Needs[o][r]]

Holders(windows, t) == {o \in DOMAIN windows : windows[o].from <= t /\ t < windows[o].to}

LEMMA HeldIsTotal ==
  ASSUME NEW windows, DOMAIN windows \subseteq Ops, NEW r, NEW t
  PROVE  Held(windows, r, t) = Total(NeedOf(r), Holders(windows, t))
<1> DEFINE S == Holders(windows, t)
           f == NeedOf(r)
<1>1. Held(windows, r, t) = MapThenSumSet(LAMBDA o : Needs[o][r], S)
  BY DEF Held, Holders
<1>2. S \subseteq Ops
  BY DEF Holders
<1> HIDE DEF S
<1>3. MapThenSumSet(LAMBDA o : Needs[o][r], S) = Total(f, S)
  <2> DEFINE g1 == CHOOSE g : g = [u \in SUBSET S |-> IF u = {} THEN 0 ELSE
                                Needs[CHOOSE x \in u : TRUE][r] + g[u \ {CHOOSE x \in u : TRUE}]]
  <2>1. MapThenSumSet(LAMBDA o : Needs[o][r], S) = g1[S]
    BY DEF MapThenSumSet, MapThenFoldSet
  <2>2. \A g : Sums(f, S, g) <=> g = [u \in SUBSET S |-> IF u = {} THEN 0 ELSE
                                Needs[CHOOSE x \in u : TRUE][r] + g[u \ {CHOOSE x \in u : TRUE}]]
    <3>1. TAKE g
    <3>2. \A u \in SUBSET S : u # {} => f[Pick(u)] = Needs[CHOOSE x \in u : TRUE][r]
      BY <1>2, PickIsElement DEF NeedOf, Pick
    <3>3. [u \in SUBSET S |-> IF u = {} THEN 0 ELSE f[Pick(u)] + g[u \ {Pick(u)}]]
          = [u \in SUBSET S |-> IF u = {} THEN 0 ELSE
                                Needs[CHOOSE x \in u : TRUE][r] + g[u \ {CHOOSE x \in u : TRUE}]]
      <4> DEFINE a(u) == IF u = {} THEN 0 ELSE f[Pick(u)] + g[u \ {Pick(u)}]
                 b(u) == IF u = {} THEN 0 ELSE
                           Needs[CHOOSE x \in u : TRUE][r] + g[u \ {CHOOSE x \in u : TRUE}]
      <4>1. \A u \in SUBSET S : a(u) = b(u)
        <5> HIDE DEF f
        <5> QED BY <3>2 DEF Pick
      <4> HIDE DEF a, b
      <4>2. [u \in SUBSET S |-> a(u)] = [u \in SUBSET S |-> b(u)]
        BY <4>1
      <4> QED BY <4>2 DEF a, b
    <3> QED BY <3>3 DEF Sums
  <2> HIDE DEF f
  <2>3. (CHOOSE g : Sums(f, S, g)) = g1
    BY <2>2
  <2> HIDE DEF g1
  <2> QED BY <2>1, <2>3 DEF Total
<1> QED BY <1>1, <1>3 DEF S

LEMMA HeldIsNat ==
  ASSUME NEW windows, DOMAIN windows \subseteq Ops, NEW r \in Resources, NEW t
  PROVE  Held(windows, r, t) \in Nat
<1> DEFINE f == NeedOf(r)
           h == Holders(windows, t)
<1>1. h \subseteq Ops /\ IsFiniteSet(h)
  BY FS_Subset, DispatchTimelineAssumption DEF DispatchTimelineAssumption, Holders
<1>2. \A x \in h : f[x] \in Nat
  BY <1>1, DispatchTimelineAssumption DEF DispatchTimelineAssumption, NeedOf
<1>3. Held(windows, r, t) = Total(f, h)
  BY HeldIsTotal
<1> HIDE DEF f, h
<1> QED BY <1>1, <1>2, <1>3, TotalIsNat

(* Whoever holds a resource besides o in one occupancy holds it in the     *)
(* other: the first asks for no more than the second and o together.       *)
LEMMA HeldWithOneMore ==
  ASSUME NEW v, DOMAIN v \subseteq Ops, NEW w, DOMAIN w \subseteq Ops,
         NEW r \in Resources, NEW t, NEW o \in Ops, Holders(w, t) \ {o} \subseteq Holders(v, t)
  PROVE  /\ Held(w, r, t) <= Held(v, r, t) + Needs[o][r]
         /\ o \notin Holders(w, t) => Held(w, r, t) <= Held(v, r, t)
<1> DEFINE f == NeedOf(r)
           hv == Holders(v, t)
           hw == Holders(w, t)
           rest == hw \ {o}
<1>1. hv \subseteq Ops /\ hw \subseteq Ops /\ IsFiniteSet(hv) /\ IsFiniteSet(hw)
  BY FS_Subset, DispatchTimelineAssumption DEF DispatchTimelineAssumption, Holders
<1>2. \A x \in Ops : f[x] \in Nat /\ f[x] = Needs[x][r]
  BY DispatchTimelineAssumption DEF DispatchTimelineAssumption, NeedOf
<1>3. Held(v, r, t) = Total(f, hv) /\ Held(w, r, t) = Total(f, hw)
  BY HeldIsTotal
<1>4. rest \in SUBSET hv /\ (o \notin hw => rest = hw)
  OBVIOUS
<1>5. o \in hw => Total(f, hw) = f[o] + Total(f, rest)
  <2>1. \A x \in hw : f[x] \in Nat
    BY <1>1, <1>2
  <2> HIDE DEF f, hw
  <2> QED BY <1>1, <2>1, TotalWithout
<1> HIDE DEF f, hv, hw, rest
<1>6. Total(f, rest) <= Total(f, hv)
  <2>1. \A x \in hv : f[x] \in Nat
    BY <1>1, <1>2
  <2> QED BY <1>1, <1>4, <2>1, TotalGrows
<1>7. Total(f, hv) \in Nat /\ Total(f, rest) \in Nat
  <2>1. rest \subseteq Ops /\ IsFiniteSet(rest)
    BY <1>1, <1>4, FS_Subset
  <2>2. (\A x \in hv : f[x] \in Nat) /\ (\A x \in rest : f[x] \in Nat)
    BY <1>1, <1>2, <2>1
  <2> QED BY <1>1, <2>1, <2>2, TotalIsNat
<1>8. o \in hw => Held(w, r, t) <= Held(v, r, t) + Needs[o][r]
  BY <1>2, <1>3, <1>5, <1>6, <1>7
<1>9. o \notin hw => Held(w, r, t) <= Held(v, r, t)
  BY <1>3, <1>4, <1>6
<1>10. Held(v, r, t) \in Nat /\ Held(w, r, t) \in Nat /\ Needs[o][r] \in Nat
  BY <1>2, HeldIsNat
<1> QED BY <1>8, <1>9, <1>10 DEF hw

-----------------------------------------------------------------------------
(* Behind the last operation of a machine nothing changes for the others.  *)

(* On a separated timeline an operation has one neighbour before it.       *)
LEMMA OneNeighbourBefore ==
  ASSUME NEW at, Timeline(at), Separated(at), NEW x \in DOMAIN at,
         NEW p \in On(at, at[x].wc) \cup {None}, Follows(at, at[x].wc, p, x)
  PROVE  p = Predecessor(at, x)
<1> DEFINE m == at[x].wc
           q == Predecessor(at, x)
<1>1. q \in On(at, m) \cup {None} /\ Follows(at, m, q, x)
  BY PredecessorFollows
<1>2. \A z \in On(at, m) : z \in DOMAIN at /\ at[z].wc = m /\ at[z].start \in Int /\ z # None
  BY ProblemFacts DEF On, Timeline
<1> HIDE DEF m, q
<1>3. Follows(at, m, p, x) /\ p \in On(at, m) \cup {None} /\ at[x].start \in Int
  BY DEF m, Timeline
<1>4. CASE p \in On(at, m) /\ q \in On(at, m)
  <2>1. at[p].start = at[q].start
    BY <1>1, <1>2, <1>3, <1>4 DEF Follows
  <2> QED BY <1>2, <1>4, <2>1, NoTies DEF q
<1>5. CASE p = None \/ q = None
  BY <1>1, <1>2, <1>3, <1>5 DEF Follows, q
<1> QED BY <1>1, <1>3, <1>4, <1>5

LEMMA AppendKeepsSetups ==
  ASSUME NEW at, Timeline(at), Separated(at), NEW o \in Ops \ DOMAIN at, NEW m \in Machines,
         NEW earliest \in Int, NEW p, Neighbour(at, m, p), IsLast(at, On(at, m), p),
         NEW slot, SlotFits(at, o, m, earliest, p, None, slot),
         NEW new, new = PlaceAt(at, o, slot)
  PROVE  /\ Timeline(new) /\ Separated(new)
         /\ \A x \in DOMAIN at : ActualSetup(new, x) = ActualSetup(at, x)
         /\ ActualSetup(new, o) = SetupAfter(m, p, o)
<1>1. Timeline(new)
  BY PlaceAtIsTimeline
<1>2. Separated(new)
  <2>1. Splits(at, m, p, None) /\ Neighbour(at, m, None)
    BY LastSplits DEF Neighbour
  <2> QED BY <2>1, InsertionKeepsSeparated
<1>3. /\ DOMAIN new = DOMAIN at \cup {o} /\ new[o] = slot
      /\ \A x \in DOMAIN at : new[x] = at[x]
  BY DEF PlaceAt
<1>4. slot.wc = m /\ slot.start \in Int /\ o \notin DOMAIN at /\ o # None
  BY ProblemFacts DEF SlotFits
<1>5. \A x \in DOMAIN at : at[x].start \in Int /\ x # None
  BY ProblemFacts DEF Timeline
<1>6. p \in On(at, m) => at[p].start < slot.start
  <2>1. p \in On(at, m) => /\ p \in Ops /\ at[p].start \in Int /\ p # None
                           /\ at[p].end = at[p].start + Duration[p][m]
    BY ProblemFacts DEF On, Timeline
  <2> QED BY <1>4, <2>1, ProblemFacts DEF SlotFits
<1>7. \A x \in On(at, m) : at[x].start < slot.start
  <2>1. \A x \in On(at, m) : x \in DOMAIN at
    BY DEF On
  <2>2. p \in On(at, m) => \A x \in On(at, m) : at[x].start <= at[p].start
    BY <1>5, <2>1 DEF IsLast
  <2>3. p \notin On(at, m) => On(at, m) = {}
    BY DEF IsLast
  <2> QED BY <1>4, <1>5, <1>6, <2>1, <2>2, <2>3
<1>8. \A n : On(new, n) = IF n = m THEN On(at, m) \cup {o} ELSE On(at, n)
  BY <1>3, <1>4 DEF On
<1>9. ASSUME NEW x \in DOMAIN at PROVE ActualSetup(new, x) = ActualSetup(at, x)
  <2> DEFINE n == at[x].wc
             q == Predecessor(at, x)
  <2>1. q \in On(at, n) \cup {None} /\ Follows(at, n, q, x)
    BY PredecessorFollows
  <2>2. \A z \in On(at, n) : z \in DOMAIN at /\ z # o /\ new[z] = at[z]
    BY <1>3, <1>4 DEF On
  <2>3. x \in On(at, n) /\ (n = m => at[x].start < slot.start)
    BY <1>7 DEF On
  <2> HIDE DEF n, q
  <2>4. On(at, n) \subseteq On(new, n) /\ On(new, n) \subseteq On(at, n) \cup {o}
        /\ (o \in On(new, n) => new[x].start <= new[o].start)
    BY <1>3, <1>4, <1>5, <1>8, <2>2, <2>3
  <2>5. None \notin On(at, n) /\ x \in On(new, n)
    BY <1>5, <2>2, <2>3, <2>4
  <2>6. Follows(new, n, q, x)
    <3>1. CASE q \in On(at, n)
      <4>1. \A z \in On(new, n) : new[z].start <= new[q].start \/ new[x].start <= new[z].start
        BY <2>1, <2>2, <2>3, <2>4, <2>5, <3>1 DEF Follows
      <4>2. new[q].start < new[x].start /\ q \in On(new, n)
        BY <2>1, <2>2, <2>3, <2>4, <2>5, <3>1 DEF Follows
      <4> QED BY <2>5, <4>1, <4>2 DEF Follows
    <3>2. CASE q = None
      <4>1. \A z \in On(new, n) : new[x].start <= new[z].start
        BY <2>1, <2>2, <2>3, <2>4, <2>5, <3>2 DEF Follows
      <4> QED BY <2>5, <3>2, <4>1 DEF Follows
    <3> QED BY <2>1, <3>1, <3>2
  <2>7. new[x].wc = n /\ q \in On(new, n) \cup {None} /\ x \in DOMAIN new
    BY <1>3, <2>1, <2>4 DEF n
  <2>8. q = Predecessor(new, x)
    BY <1>1, <1>2, <2>6, <2>7, OneNeighbourBefore
  <2> QED BY <2>7, <2>8 DEF ActualSetup, n, q
<1>10. ActualSetup(new, o) = SetupAfter(m, p, o)
  <2>1. p \in On(at, m) \cup {None} /\ \A z \in On(at, m) : z \in DOMAIN at /\ new[z] = at[z]
    BY <1>3 DEF On, Neighbour
  <2>2. o \in On(new, m) /\ On(new, m) = On(at, m) \cup {o}
    BY <1>8
  <2>3. Follows(new, m, p, o)
    <3>1. CASE p \in On(at, m)
      <4>1. \A z \in On(at, m) : at[z].start <= at[p].start
        BY <1>5, <2>1, <3>1 DEF IsLast
      <4>2. new[p].start < new[o].start
        BY <1>3, <1>6, <2>1, <3>1
      <4> QED BY <1>3, <1>4, <2>1, <2>2, <3>1, <4>1, <4>2 DEF Follows
    <3>2. CASE p = None
      <4>1. On(at, m) = {}
        BY <1>5, <2>1, <3>2 DEF IsLast
      <4> QED BY <1>3, <1>4, <2>2, <3>2, <4>1 DEF Follows
    <3> QED BY <2>1, <3>1, <3>2
  <2>4. new[o].wc = m /\ p \in On(new, m) \cup {None} /\ o \in DOMAIN new
    BY <1>3, <1>4, <2>1, <2>2
  <2>5. p = Predecessor(new, o)
    BY <1>1, <1>2, <2>3, <2>4, OneNeighbourBefore
  <2> QED BY <2>4, <2>5 DEF ActualSetup
<1> QED BY <1>1, <1>2, <1>9, <1>10

(* Who is whose neighbour is a matter of machines and starts alone.        *)
LEMMA SameTimesKeepSetups ==
  ASSUME NEW at, Timeline(at), Separated(at), NEW new, DOMAIN new = DOMAIN at,
         \A o \in DOMAIN at :
           new[o].wc = at[o].wc /\ new[o].start = at[o].start /\ new[o].end = at[o].end,
         NEW x \in DOMAIN at
  PROVE  ActualSetup(new, x) = ActualSetup(at, x)
<1> DEFINE q == Predecessor(at, x)
           m == at[x].wc
<1>1. Timeline(new) /\ Separated(new)
  BY SameTimesKeepSeparated
<1>2. \A n : On(new, n) = On(at, n)
  BY DEF On
<1>3. q \in On(at, m) \cup {None} /\ Follows(at, m, q, x)
  BY PredecessorFollows
<1> HIDE DEF q
<1>4. \A z \in On(at, m) : z \in DOMAIN at
  BY DEF On
<1>5. Follows(new, m, q, x)
  BY <1>2, <1>3, <1>4 DEF Follows
<1>6. q = Predecessor(new, x)
  BY <1>1, <1>2, <1>3, <1>5, OneNeighbourBefore
<1> QED BY <1>6 DEF ActualSetup, q

(* Only what is held when matters to a pool.                               *)
LEMMA SameOccupancyKeepsPools ==
  ASSUME NEW at, NEW new, PoolsRespected(at),
         \A r : FreshWindows(new, {r}) = FreshWindows(at, {r})
  PROVE  PoolsRespected(new)
<1>1. SUFFICES ASSUME NEW r \in Resources, NEW x \in DOMAIN FreshWindows(new, {r}),
                      NEW t \in FreshWindows(new, {r})[x].from .. FreshWindows(new, {r})[x].to - 1
               PROVE  Held(FreshWindows(new, {r}), r, t) <= PoolSize[r]
  BY DEF PoolsRespected
<1>2. FreshWindows(new, {r}) = FreshWindows(at, {r})
  OBVIOUS
<1>3. \A y \in DOMAIN FreshWindows(at, {r}) :
        \A n \in FreshWindows(at, {r})[y].from .. FreshWindows(at, {r})[y].to - 1 :
          Held(FreshWindows(at, {r}), r, n) <= PoolSize[r]
  BY DEF PoolsRespected
<1> QED BY <1>1, <1>2, <1>3

-----------------------------------------------------------------------------
(* The notary. *)

Typed(at) == Timeline(at) /\ \A o \in DOMAIN at : at[o] \in Assignment

LEMMA TypedFacts ==
  ASSUME NEW at, Typed(at), NEW o \in DOMAIN at
  PROVE  /\ o \in Ops /\ o # None
         /\ at[o].wc \in Machines
         /\ at[o].start \in Int /\ at[o].end \in Int /\ at[o].start < at[o].end
         /\ at[o].setup \in Nat
<1>1. at[o] \in Assignment /\ at[o].end = at[o].start + Duration[o][at[o].wc] /\ o \in Ops
  BY DEF Typed, Timeline
<1>2. at[o].wc \in Machines
  BY <1>1 DEF Assignment
<1>3. Duration[o][at[o].wc] \in Int /\ Duration[o][at[o].wc] > 0 /\ o # None
  BY <1>1, <1>2, ProblemFacts
<1> QED BY <1>1, <1>2, <1>3 DEF Assignment

-----------------------------------------------------------------------------
(* What an overlap check promises about one machine. *)

NoOverlapOn(at, m) ==
  \A x, p \in On(at, m) : x # p =>
    ~ (at[p].start <= at[x].start /\ at[x].start < at[p].end)

LEMMA WalkedMachine ==
  ASSUME NEW at, Typed(at), NEW scope, NEW m \in scope.machines, Overlaps(at, scope) = {}
  PROVE  NoOverlapOn(at, m)
<1>1. SUFFICES ASSUME NEW x \in On(at, m), NEW p \in On(at, m), x # p,
                      at[p].start <= at[x].start, at[x].start < at[p].end
               PROVE  FALSE
  BY DEF NoOverlapOn
<1>2. x \in DOMAIN at /\ at[x].wc = m /\ p \in On(at, at[x].wc) \ {x}
  BY <1>1 DEF On
<1>3. <<"MACHINE_OVERLAP", x>> \in Overlaps(at, scope)
  BY <1>1, <1>2 DEF Overlaps
<1> QED BY <1>3

(* Without overlaps an operation has one neighbour before it. *)
LEMMA OnePredecessor ==
  ASSUME NEW at, Typed(at), NEW x \in DOMAIN at, NoOverlapOn(at, at[x].wc),
         NEW p \in On(at, at[x].wc) \cup {None}, Follows(at, at[x].wc, p, x)
  PROVE  p = Predecessor(at, x)
<1> DEFINE m == at[x].wc
           q == Predecessor(at, x)
<1>1. q \in On(at, m) \cup {None} /\ Follows(at, m, q, x)
  BY PredecessorFollows DEF Typed
<1>2. \A o \in On(at, m) :
        /\ o # None /\ at[o].start \in Int /\ at[o].end \in Int /\ at[o].start < at[o].end
  BY TypedFacts DEF On
<1>3. ASSUME NEW a \in On(at, m), Follows(at, m, a, x), Follows(at, m, None, x) PROVE FALSE
  BY <1>2, <1>3 DEF Follows
<1>4. ASSUME NEW a \in On(at, m), NEW b \in On(at, m), a # b,
             Follows(at, m, a, x), Follows(at, m, b, x)
      PROVE  FALSE
  <2>1. at[a].start <= at[b].start /\ at[b].start <= at[a].start
    BY <1>2, <1>4 DEF Follows
  <2> QED BY <1>2, <1>4, <2>1 DEF NoOverlapOn
<1> HIDE DEF q
<1>5. p = q
  BY <1>1, <1>3, <1>4
<1> QED BY <1>5 DEF q

(* An operation and the neighbour before it, in a walked sequence. *)
LEMMA WalkedNeighbours ==
  ASSUME NEW at, Typed(at), NEW x \in DOMAIN at, NoOverlapOn(at, at[x].wc),
         Predecessor(at, x) # None
  PROVE  /\ Predecessor(at, x) \in DOMAIN at
         /\ at[Predecessor(at, x)].wc = at[x].wc
         /\ at[Predecessor(at, x)].end <= at[x].start
<1> DEFINE p == Predecessor(at, x)
<1>1. p \in On(at, at[x].wc) /\ Follows(at, at[x].wc, p, x) /\ x \in On(at, at[x].wc)
  BY PredecessorFollows DEF Typed, On
<1>2. at[p].start < at[x].start
  <2>1. p # None
    OBVIOUS
  <2> HIDE DEF p
  <2> QED BY <1>1, <2>1 DEF Follows
<1>3. /\ at[p].start \in Int /\ at[p].end \in Int /\ at[x].start \in Int
      /\ p \in DOMAIN at /\ at[p].wc = at[x].wc
  BY <1>1, TypedFacts DEF On
<1> HIDE DEF p
<1>4. at[p].end <= at[x].start
  BY <1>1, <1>2, <1>3 DEF NoOverlapOn
<1> QED BY <1>3, <1>4 DEF p

(* Sequences without overlaps or short gaps are separated. *)
LEMMA CleanSequencesAreSeparated ==
  ASSUME NEW at, Typed(at), \A m \in Machines : NoOverlapOn(at, m),
         ShortGaps(at, Everything) = {}
  PROVE  Separated(at)
<1>1. SUFFICES ASSUME NEW x \in DOMAIN at, NEW y \in DOMAIN at, x # y,
                      at[x].wc = at[y].wc, at[x].start <= at[y].start
               PROVE  /\ at[x].end <= at[y].start
                      /\ Follows(at, at[x].wc, x, y) =>
                           at[x].end + SetupBetween(at[x].wc, x, y) <= at[y].start
  BY DEF Separated
<1> DEFINE m == at[y].wc
<1>2. /\ m \in Machines /\ x \in On(at, m) /\ y \in On(at, m)
      /\ x # None /\ x \in Ops /\ y \in Ops
      /\ at[x].start \in Int /\ at[x].end \in Int /\ at[y].start \in Int
  BY <1>1, TypedFacts DEF On
<1>3. NoOverlapOn(at, m)
  BY <1>2
<1> HIDE DEF m
<1>4. at[x].end <= at[y].start
  BY <1>1, <1>2, <1>3 DEF NoOverlapOn
<1>5. ASSUME Follows(at, m, x, y) PROVE at[x].end + SetupBetween(m, x, y) <= at[y].start
  <2>1. x = Predecessor(at, y)
    BY <1>2, <1>3, <1>5, OnePredecessor DEF m
  <2>2. ActualSetup(at, y) = SetupBetween(m, x, y)
    BY <1>2, <2>1 DEF ActualSetup, SetupAfter, m
  <2>3. SetupBetween(m, x, y) \in Nat
    BY <1>2, ProblemFacts
  <2>4. ~ at[y].start < at[x].end + ActualSetup(at, y)
    <3>1. SUFFICES ASSUME at[y].start < at[x].end + ActualSetup(at, y) PROVE FALSE
      OBVIOUS
    <3>2. at[y].wc \in Everything.machines
      BY <1>2 DEF Everything, m
    <3>3. <<"SETUP_GAP_VIOLATION", y>> \in ShortGaps(at, Everything)
      BY <1>2, <1>4, <2>1, <3>1, <3>2 DEF ShortGaps
    <3> QED BY <3>3
  <2> QED BY <1>2, <2>2, <2>3, <2>4
<1> QED BY <1>1, <1>4, <1>5 DEF m

(* On a walked machine without overlaps the notary derives the window that *)
(* the operation really has.                                               *)
LEMMA DerivedWindow ==
  ASSUME NEW at, Typed(at), NEW scope, NEW x \in DOMAIN at,
         at[x].wc \in scope.machines, NoOverlapOn(at, at[x].wc)
  PROVE  OccupiedFrom(at, scope, x) = at[x].start - ActualSetup(at, x)
<1> DEFINE p == Predecessor(at, x)
<1>1. CASE p = None
  BY <1>1 DEF OccupiedFrom, ActualSetup, SetupAfter
<1>2. CASE p # None
  <2>1. p \in DOMAIN at /\ at[p].end <= at[x].start
    BY <1>2, WalkedNeighbours
  <2>2. ~ at[p].end > at[x].start
    <3>1. at[p].end \in Int /\ at[x].start \in Int
      BY <2>1, TypedFacts
    <3> HIDE DEF p
    <3> QED BY <2>1, <3>1
  <2> QED BY <1>2, <2>2 DEF OccupiedFrom, ActualSetup, SetupAfter
<1> QED BY <1>1, <1>2

-----------------------------------------------------------------------------
(* A pool is at its fullest when one of its users begins. *)
LEMMA PoolsAtTheirFullest ==
  ASSUME NEW windows, DOMAIN windows \subseteq Ops, NEW r \in Resources,
         \A o \in DOMAIN windows : windows[o].from \in Int /\ windows[o].to \in Int,
         \A o \in DOMAIN windows : r \in RequiredBy(o) => Held(windows, r, windows[o].from) <= PoolSize[r],
         NEW users, DOMAIN users = {o \in DOMAIN windows : r \in RequiredBy(o)},
         \A o \in DOMAIN users : users[o] = windows[o],
         NEW t \in Int
  PROVE  Held(users, r, t) <= PoolSize[r]
<1> DEFINE now == Holders(users, t)
<1>1. now \subseteq DOMAIN users /\ DOMAIN users \subseteq Ops /\ IsFiniteSet(Ops)
  BY DispatchTimelineAssumption DEF Holders, DispatchTimelineAssumption
<1>2. \A o \in Ops : NeedOf(r)[o] \in Nat
  BY DispatchTimelineAssumption DEF NeedOf, DispatchTimelineAssumption
<1>3. PoolSize[r] \in Nat
  BY DispatchTimelineAssumption DEF DispatchTimelineAssumption
<1>4. Held(users, r, t) = Total(NeedOf(r), now)
  BY <1>1, HeldIsTotal
<1>5. CASE now = {}
  <2>1. Total(NeedOf(r), {}) = 0
    BY FS_EmptySet, TotalSteps
  <2> QED BY <1>3, <1>4, <1>5, <2>1
<1>6. CASE now # {}
  <2> DEFINE begin == [o \in now |-> users[o].from]
  <2>1. begin \in [now -> Int] /\ IsFiniteSet(now)
    BY <1>1, FS_Subset
  <2>2. PICK h \in now : \A o \in now : begin[o] <= begin[h]
    <3> HIDE DEF now, begin
    <3> QED BY <1>6, <2>1, LargestElement
  <2>3. h \in DOMAIN windows /\ r \in RequiredBy(h) /\ users[h] = windows[h]
    BY <1>1, <2>2
  <2> DEFINE then == Holders(windows, windows[h].from)
  <2>4. \A o \in now : o \in then
    <3>1. TAKE o \in now
    <3>2. o \in DOMAIN windows /\ users[o] = windows[o]
      BY <1>1
    <3>3. windows[o].from <= windows[h].from
      BY <2>2, <2>3, <3>2
    <3>4. windows[h].from <= t /\ t < windows[o].to
      BY <2>2, <2>3, <3>1, <3>2 DEF Holders
    <3>5. windows[h].from < windows[o].to
      BY <2>3, <3>2, <3>4
    <3> QED BY <3>2, <3>3, <3>5 DEF Holders
  <2>5. then \subseteq Ops /\ IsFiniteSet(then)
    <3>1. then \subseteq Ops
      BY DEF Holders
    <3> QED BY <1>1, <3>1, FS_Subset
  <2>6. Held(windows, r, windows[h].from) = Total(NeedOf(r), then)
    BY HeldIsTotal
  <2> HIDE DEF now, then
  <2>7. Total(NeedOf(r), now) <= Total(NeedOf(r), then)
    BY <1>2, <2>4, <2>5, TotalGrows
  <2>8. Total(NeedOf(r), now) \in Nat /\ Total(NeedOf(r), then) \in Nat
    <3>1. \A o \in now : NeedOf(r)[o] \in Nat
      BY <1>1, <1>2
    <3>2. \A o \in then : NeedOf(r)[o] \in Nat
      BY <1>2, <2>5
    <3> QED BY <2>1, <2>5, <3>1, <3>2, TotalIsNat
  <2>9. Held(windows, r, windows[h].from) <= PoolSize[r]
    BY <2>3
  <2> QED BY <1>3, <1>4, <2>6, <2>7, <2>8, <2>9
<1> QED BY <1>5, <1>6

(* The occupancy a family of violations looks at, named. *)
Occupancy(at, scope) ==
  [o \in DOMAIN at |-> [from |-> OccupiedFrom(at, scope, o), to |-> at[o].end]]

LEMMA PoolsAreRespected ==
  ASSUME NEW at, Typed(at), \A m \in Machines : NoOverlapOn(at, m),
         OverloadedPools(at, Everything) = {}
  PROVE  PoolsRespected(at)
<1>1. SUFFICES \A r \in Resources, t \in Int : Held(FreshWindows(at, {r}), r, t) <= PoolSize[r]
  <2>1. \A i, j : \A t \in i .. j : t \in Int
    OBVIOUS
  <2> QED BY <2>1 DEF PoolsRespected
<1> SUFFICES ASSUME NEW r \in Resources
             PROVE  \A t \in Int : Held(FreshWindows(at, {r}), r, t) <= PoolSize[r]
  OBVIOUS
<1> DEFINE windows == Occupancy(at, Everything)
           users == FreshWindows(at, {r})
<1>2. ASSUME NEW o \in DOMAIN at
      PROVE  windows[o] = Window(at, o) /\ windows[o].from \in Int /\ windows[o].to \in Int
  <2>1. at[o].wc \in Everything.machines /\ NoOverlapOn(at, at[o].wc)
    BY TypedFacts DEF Everything
  <2>2. OccupiedFrom(at, Everything, o) = at[o].start - ActualSetup(at, o)
    BY <2>1, DerivedWindow
  <2>3. at[o].start \in Int /\ at[o].end \in Int /\ ActualSetup(at, o) \in Nat
    BY TypedFacts, ActualSetupIsNat DEF Typed
  <2>4. windows[o] = [from |-> OccupiedFrom(at, Everything, o), to |-> at[o].end]
    BY DEF Occupancy
  <2> HIDE DEF windows
  <2> QED BY <2>2, <2>3, <2>4 DEF Window
<1>3. DOMAIN windows = DOMAIN at /\ DOMAIN at \subseteq Ops
  BY DEF Occupancy, Typed, Timeline
<1>4. /\ DOMAIN users = {o \in DOMAIN windows : r \in RequiredBy(o)}
      /\ \A o \in DOMAIN users : users[o] = windows[o]
  BY <1>2, <1>3 DEF FreshWindows
<1>5. ASSUME NEW o \in DOMAIN windows, r \in RequiredBy(o)
      PROVE  Held(windows, r, windows[o].from) <= PoolSize[r]
  <2>1. SUFFICES ASSUME ~ Held(windows, r, windows[o].from) <= PoolSize[r] PROVE FALSE
    OBVIOUS
  <2>2. Held(windows, r, windows[o].from) > PoolSize[r]
    <3> DEFINE now == Holders(windows, windows[o].from)
    <3>1. now \subseteq Ops
      BY <1>3 DEF Holders
    <3>2. Held(windows, r, windows[o].from) = Total(NeedOf(r), now)
      BY <1>3, HeldIsTotal
    <3>3. IsFiniteSet(now) /\ (\A x \in now : NeedOf(r)[x] \in Nat) /\ PoolSize[r] \in Nat
      BY <3>1, FS_Subset, DispatchTimelineAssumption DEF NeedOf, DispatchTimelineAssumption
    <3> HIDE DEF now, windows
    <3>4. Total(NeedOf(r), now) \in Nat
      BY <3>3, TotalIsNat
    <3> QED BY <2>1, <3>2, <3>3, <3>4
  <2>3. <<"AUX_RESOURCE_CAPACITY_VIOLATION", o>> \in OverloadedPools(at, Everything)
    BY <1>3, <1>5, <2>2 DEF OverloadedPools, Occupancy
  <2> QED BY <2>3
<1> HIDE DEF windows, users
<1>6. ASSUME NEW t \in Int PROVE Held(users, r, t) <= PoolSize[r]
  BY <1>2, <1>3, <1>4, <1>5, PoolsAtTheirFullest
<1> QED BY <1>6 DEF users

(* A verdict without violations means a legal schedule: what the walks and *)
(* sweeps of FeasibilityChecker.check look at implies what Legal demands   *)
(* of every pair of operations and of every minute.                        *)
THEOREM NotaryIsSound ==
  ASSUME NEW at, Typed(at), NEW ops, Check(ops, at, Everything) = {}
  PROVE  Legal(ops, at)
<1>1. /\ Missing(ops, at) = {} /\ Ineligible(at, Everything) = {}
      /\ TornChains(at, Everything) = {} /\ BrokenEdges(at, Everything) = {}
      /\ Overlaps(at, Everything) = {} /\ ShortGaps(at, Everything) = {}
      /\ OverloadedPools(at, Everything) = {} /\ OutOfHorizon(at, Everything) = {}
      /\ BeforeRelease(at, Everything) = {} /\ OutOfShift(at, Everything) = {}
  BY DEF Check
<1>2. DOMAIN at \subseteq Everything.ops /\ Everything.machines = Machines /\ Everything.ops = Ops
  BY DEF Everything, Typed, Timeline
<1>3. ops \subseteq DOMAIN at
  BY <1>1 DEF Missing
<1>4. \A m \in Machines : NoOverlapOn(at, m)
  BY <1>1, <1>2, WalkedMachine
<1>5. Separated(at)
  BY <1>1, <1>4, CleanSequencesAreSeparated
<1>6. PoolsRespected(at)
  BY <1>1, <1>4, PoolsAreRespected
<1>7. ASSUME NEW o \in DOMAIN at
      PROVE  /\ at[o].wc \in EligibleFor[o]
             /\ WithinShift(at, o)
             /\ Release[o] <= at[o].start /\ at[o].end <= HorizonEnd
             /\ LatestFinish[o] # None => at[o].end <= LatestFinish[o]
             /\ PredecessorOf[o] \in DOMAIN at => at[PredecessorOf[o]].end <= at[o].start
  <2>1. /\ o \in Everything.ops /\ o \in Ops /\ at[o].wc \in Machines /\ at[o].start \in Int
        /\ at[o].end \in Int /\ at[o].setup \in Nat
        /\ HorizonEnd \in Int /\ Release[o] \in Int /\ LatestFinish[o] \in Int \cup {None}
    BY <1>2, TypedFacts, ProblemFacts, PrecedenceAssumption, FeasibilityCheckerAssumption
    DEF PrecedenceAssumption, FeasibilityCheckerAssumption
  <2>2. at[o].wc \in EligibleFor[o]
    <3>1. at[o].wc \notin EligibleFor[o] => <<"INELIGIBLE_MACHINE", o>> \in Ineligible(at, Everything)
      BY <2>1 DEF Ineligible
    <3> QED BY <1>1, <3>1
  <2>3. Release[o] <= at[o].start
    <3>1. at[o].start < Release[o] => <<"RELEASE_DATE_VIOLATION", o>> \in BeforeRelease(at, Everything)
      BY <2>1 DEF BeforeRelease
    <3> QED BY <1>1, <2>1, <3>1
  <2>4. at[o].end <= HorizonEnd /\ (LatestFinish[o] # None => at[o].end <= LatestFinish[o])
    <3>1. \/ at[o].end > HorizonEnd
          \/ LatestFinish[o] # None /\ at[o].end > LatestFinish[o]
          => <<"HORIZON_BOUND_VIOLATION", o>> \in OutOfHorizon(at, Everything)
      BY <2>1 DEF OutOfHorizon
    <3>2. ~ (at[o].end > HorizonEnd) /\ ~ (LatestFinish[o] # None /\ at[o].end > LatestFinish[o])
      BY <1>1, <3>1
    <3> QED BY <2>1, <3>2
  <2>5. PredecessorOf[o] \in DOMAIN at => at[PredecessorOf[o]].end <= at[o].start
    <3>1. SUFFICES ASSUME PredecessorOf[o] \in DOMAIN at, at[o].start < at[PredecessorOf[o]].end PROVE FALSE
      BY <2>1, TypedFacts
    <3>2. <<"PRECEDENCE_VIOLATION", o>> \in TornChains(at, Everything)
      BY <2>1, <3>1 DEF TornChains
    <3> QED BY <1>1, <3>2
  <2>6. WithinShift(at, o)
    <3>1. CASE Calendar[at[o].wc] = {}
      BY <3>1 DEF WithinShift
    <3>2. CASE Calendar[at[o].wc] # {}
      <4> DEFINE from == -Larger(at[o].setup - at[o].start, -OccupiedFrom(at, Everything, o))
      <4>1. \E shift \in Calendar[at[o].wc] : shift.open <= from /\ at[o].end <= shift.close
        <5>1. SUFFICES ASSUME ~ \E shift \in Calendar[at[o].wc] : shift.open <= from /\ at[o].end <= shift.close
                       PROVE  FALSE
          OBVIOUS
        <5>2. <<"CALENDAR_VIOLATION", o>> \in OutOfShift(at, Everything)
          BY <2>1, <3>2, <5>1 DEF OutOfShift
        <5> QED BY <1>1, <5>2
      <4>2. PICK shift \in Calendar[at[o].wc] : shift.open <= from /\ at[o].end <= shift.close
        BY <4>1
      <4>3. OccupiedFrom(at, Everything, o) = Window(at, o).from /\ Window(at, o).to = at[o].end
        BY <1>2, <1>4, <2>1, DerivedWindow DEF Window
      <4>4. Window(at, o).from \in Int
        <5>1. ActualSetup(at, o) \in Nat
          BY ActualSetupIsNat DEF Typed
        <5> QED BY <2>1, <5>1 DEF Window
      <4>5. shift.open \in Int
        BY <2>1, DispatchTimelineAssumption DEF DispatchTimelineAssumption
      <4>6. from <= Window(at, o).from /\ from \in Int
        <5> DEFINE a == at[o].setup - at[o].start
                   b == Window(at, o).from
        <5>1. a \in Int /\ b \in Int
          BY <2>1, <4>4
        <5>2. from = -Larger(a, -b)
          BY <4>3
        <5> HIDE DEF a, b, from
        <5>3. -Larger(a, -b) <= b /\ -Larger(a, -b) \in Int
          BY <5>1 DEF Larger
        <5> QED BY <5>2, <5>3 DEF b
      <4> HIDE DEF from
      <4>7. shift.open <= Window(at, o).from /\ Window(at, o).to <= shift.close
        BY <4>2, <4>3, <4>4, <4>5, <4>6
      <4> QED BY <4>7 DEF WithinShift
    <3> QED BY <3>1, <3>2
  <2> QED BY <2>2, <2>3, <2>4, <2>5, <2>6
<1>8. ASSUME NEW e \in Edges, {e.src, e.dst} \subseteq DOMAIN at
      PROVE  EdgeAnchors(at, e).src + e.min_lag <= EdgeAnchors(at, e).dst
  <2>1. /\ e.src \in DOMAIN at /\ e.dst \in DOMAIN at /\ e.min_lag \in Int /\ e.dst \in Ops
    BY <1>8, PrecedenceAssumption DEF PrecedenceAssumption
  <2>2. EdgeAnchors(at, e).src \in Int /\ EdgeAnchors(at, e).dst \in Int
    <3>1. /\ at[e.src].start \in Int /\ at[e.src].end \in Int
          /\ at[e.dst].start \in Int /\ at[e.dst].end \in Int
      BY <2>1, TypedFacts
    <3> QED BY <3>1 DEF EdgeAnchors
  <2>3. ~ EdgeAnchors(at, e).dst < EdgeAnchors(at, e).src + e.min_lag
    <3>1. SUFFICES ASSUME EdgeAnchors(at, e).dst < EdgeAnchors(at, e).src + e.min_lag PROVE FALSE
      OBVIOUS
    <3>2. {e.src, e.dst} \cap Everything.ops # {}
      BY <1>2, <2>1
    <3>3. <<"PRECEDENCE_EDGE_VIOLATION", e.dst>> \in BrokenEdges(at, Everything)
      BY <1>8, <3>1, <3>2 DEF BrokenEdges
    <3> QED BY <1>1, <3>3
  <2> QED BY <2>1, <2>2, <2>3
<1> QED BY <1>3, <1>5, <1>6, <1>7, <1>8 DEF Legal

-----------------------------------------------------------------------------
(* The schedules the CP-SAT fallback chooses from: one placement for every *)
(* operation it was given.                                                 *)
Extended(schedules, o) ==
  UNION {{PlaceAt(s, o, a) : a \in {b \in Placements(o) : Apart(s, o, b) /\ b.end <= HorizonEnd}} :
           s \in schedules}

Extensions(s, g) ==
  g = [u \in SUBSET s |-> IF u = {} THEN {Empty} ELSE Extended(g[u \ {Pick(u)}], Pick(u))]

Partials(ops) ==
  {s \in UNION {[d -> Assignment] : d \in SUBSET ops} : \A o \in DOMAIN s : s[o] \in Placements(o)}

LEMMA PlacementsAreTyped ==
  ASSUME NEW o \in Ops, NEW a \in Placements(o)
  PROVE  /\ a \in Assignment /\ a.wc \in Machines /\ a.start \in Int
         /\ a.end = a.start + Duration[o][a.wc]
<1>1. PICK m \in EligibleFor[o], t \in 0 .. HorizonEnd : a = Slot(m, t, Duration[o][m], 0)
  BY DEF Placements
<1>2. m \in Machines /\ t \in Int
  BY DispatchTimelineAssumption, FeasibilityCheckerAssumption
  DEF DispatchTimelineAssumption, FeasibilityCheckerAssumption
<1>3. Duration[o][m] \in Int
  BY <1>2, ProblemFacts
<1> QED BY <1>1, <1>2, <1>3 DEF Slot, Assignment

LEMMA ExtendedStaysPartial ==
  ASSUME NEW ops \in SUBSET Ops, NEW schedules \in SUBSET Partials(ops), NEW o \in ops
  PROVE  Extended(schedules, o) \in SUBSET Partials(ops)
<1>1. SUFFICES ASSUME NEW new \in Extended(schedules, o) PROVE new \in Partials(ops)
  OBVIOUS
<1>2. PICK s \in schedules, a \in Placements(o) : new = PlaceAt(s, o, a)
  BY <1>1 DEF Extended
<1>3. PICK d \in SUBSET ops : s \in [d -> Assignment] /\ \A x \in d : s[x] \in Placements(x)
  BY DEF Partials
<1>4. a \in Assignment
  BY PlacementsAreTyped
<1>5. new \in [d \cup {o} -> Assignment] /\ \A x \in d \cup {o} : new[x] \in Placements(x)
  BY <1>2, <1>3, <1>4 DEF PlaceAt
<1> QED BY <1>5 DEF Partials

LEMMA ExtensionEquation ==
  ASSUME NEW s, NEW g, Extensions(s, g), NEW u \in SUBSET s
  PROVE  g[u] = IF u = {} THEN {Empty} ELSE Extended(g[u \ {Pick(u)}], Pick(u))
<1> DEFINE value(v) == IF v = {} THEN {Empty} ELSE Extended(g[v \ {Pick(v)}], Pick(v))
<1>1. g = [v \in SUBSET s |-> value(v)]
  BY DEF Extensions
<1> HIDE DEF value
<1>2. g[u] = value(u)
  BY <1>1
<1> QED BY <1>2 DEF value

LEMMA ExtensionsEquation ==
  ASSUME NEW s, NEW g, Extensions(s, g)
  PROVE  \A u \in SUBSET s :
           g[u] = IF u = {} THEN {Empty} ELSE Extended(g[u \ {Pick(u)}], Pick(u))
BY ExtensionEquation

LEMMA ExtensionsExist ==
  ASSUME NEW ops \in SUBSET Ops
  PROVE  \E g : Extensions(ops, g)
<1> DEFINE T == SUBSET Partials(ops)
           step == [o \in ops |-> [schedules \in T |-> Extended(schedules, o)]]
           base == {Empty}
<1>1. IsFiniteSet(ops)
  BY DispatchTimelineAssumption, FS_Subset DEF DispatchTimelineAssumption
<1>2. base \in T
  <2>1. Empty \in [{} -> Assignment]
    BY DEF Empty
  <2>2. \A o \in DOMAIN Empty : Empty[o] \in Placements(o)
    BY DEF Empty
  <2> QED BY <2>1, <2>2 DEF Partials
<1>3. \A o \in ops, schedules \in T : step[o][schedules] = Extended(schedules, o)
  OBVIOUS
<1>4. \A o \in ops, schedules \in T : step[o][schedules] \in T
  BY <1>3, ExtendedStaysPartial
<1> HIDE DEF T, step, base
<1>5. PICK g : Folds(base, step, ops, g)
  BY <1>1, FoldExists
<1>6. \A u \in SUBSET ops : g[u] \in T
  BY <1>1, <1>2, <1>4, <1>5, FoldIsTyped
<1>7. g = [u \in SUBSET ops |-> IF u = {} THEN base ELSE step[Pick(u)][g[u \ {Pick(u)}]]]
  BY <1>5 DEF Folds
<1>8. \A u \in SUBSET ops :
        u # {} => step[Pick(u)][g[u \ {Pick(u)}]] = Extended(g[u \ {Pick(u)}], Pick(u))
  BY <1>3, <1>6, PickIsElement
<1>9. Extensions(ops, g)
  BY <1>7, <1>8 DEF Extensions, base
<1> QED BY <1>9

LEMMA SchedulesAreExtensions ==
  ASSUME NEW ops \in SUBSET Ops
  PROVE  \E g : Extensions(ops, g) /\ SchedulesOf(ops) = g[ops]
<1> DEFINE g == CHOOSE g : Extensions(ops, g)
<1>1. SchedulesOf(ops)
      = (CHOOSE h : h = [u \in SUBSET ops |->
           IF u = {} THEN {Empty}
           ELSE Extended(h[u \ {CHOOSE x \in u : TRUE}], CHOOSE x \in u : TRUE)])[ops]
  BY DEF SchedulesOf, FoldSet, MapThenFoldSet, Extended, Empty
<1>2. SchedulesOf(ops) = g[ops]
  BY <1>1 DEF Extensions, Pick
<1>3. Extensions(ops, g)
  BY ExtensionsExist
<1> QED BY <1>2, <1>3

LEMMA SchedulesPlaceAll ==
  ASSUME NEW ops \in SUBSET Ops, NEW s \in SchedulesOf(ops)
  PROVE  s \in [ops -> Assignment] /\ DOMAIN s = ops /\ \A o \in ops : s[o] \in Placements(o)
<1>1. PICK g : Extensions(ops, g) /\ SchedulesOf(ops) = g[ops]
  BY SchedulesAreExtensions
<1>2. IsFiniteSet(ops)
  BY DispatchTimelineAssumption, FS_Subset DEF DispatchTimelineAssumption
<1> DEFINE Places(u, t) == t \in [u -> Assignment] /\ \A o \in u : t[o] \in Placements(o)
           Bad == {u \in SUBSET ops : ~ \A t \in g[u] : Places(u, t)}
<1>3. SUFFICES ASSUME Bad # {} PROVE FALSE
  BY <1>1, <1>3
<1>4. PICK u \in Bad : \A v \in SUBSET u : v \in Bad => v = u
  <2>1. Bad \in SUBSET SUBSET ops
    OBVIOUS
  <2> HIDE DEF Bad
  <2> QED BY <1>2, <1>3, <2>1, MinimalSubset
<1>5. u \in SUBSET ops /\ ~ \A t \in g[u] : Places(u, t)
  BY <1>4
<1>6. PICK t \in g[u] : ~ Places(u, t)
  BY <1>5
<1>7. g[u] = IF u = {} THEN {Empty} ELSE Extended(g[u \ {Pick(u)}], Pick(u))
  <2>1. \A w \in SUBSET ops :
          g[w] = IF w = {} THEN {Empty} ELSE Extended(g[w \ {Pick(w)}], Pick(w))
    BY <1>1, ExtensionEquation
  <2> QED BY <1>5, <2>1
<1>8. CASE u = {}
  <2>1. Empty \in [{} -> Assignment]
    BY DEF Empty
  <2> QED BY <1>6, <1>7, <1>8, <2>1
<1>9. CASE u # {}
  <2> DEFINE o == Pick(u)
             v == u \ {o}
  <2>1. o \in u
    BY <1>9, PickIsElement
  <2>2. v \in SUBSET u /\ v # u /\ v \in SUBSET ops
    BY <1>5, <2>1
  <2>3. \A r \in g[v] : Places(v, r)
    BY <1>4, <2>2
  <2>4. t \in Extended(g[v], o)
    BY <1>6, <1>7, <1>9
  <2>5. u = v \cup {o} /\ o \notin v
    BY <2>1
  <2> HIDE DEF o, v, Bad
  <2>6. PICK r \in g[v], a \in Placements(o) : t = PlaceAt(r, o, a)
    BY <2>4 DEF Extended
  <2>7. Places(v, r)
    BY <2>3
  <2>8. a \in Assignment
    BY <1>5, <2>1, PlacementsAreTyped
  <2>9. t \in [u -> Assignment] /\ \A x \in u : t[x] \in Placements(x)
    BY <2>5, <2>6, <2>7, <2>8 DEF PlaceAt
  <2> QED BY <1>6, <2>9
<1> QED BY <1>8, <1>9

-----------------------------------------------------------------------------
(* The constraint model, without fixed work.  It is written from the       *)
(* encoding and Legal from the checker; for schedules of the same times    *)
(* they say the same.                                                      *)

LEMMA PlacedIsTyped ==
  ASSUME NEW ops \in SUBSET Ops, NEW at, DOMAIN at = ops, \A o \in ops : at[o] \in Placements(o)
  PROVE  Typed(at) /\ \A o \in ops : at[o].wc \in EligibleFor[o]
<1>1. ASSUME NEW o \in ops
      PROVE  /\ at[o] \in Assignment /\ at[o].wc \in Machines /\ at[o].start \in Int
             /\ at[o].end = at[o].start + Duration[o][at[o].wc] /\ at[o].wc \in EligibleFor[o]
  <2>1. at[o] \in Placements(o) /\ o \in Ops
    OBVIOUS
  <2>2. at[o].wc \in EligibleFor[o]
    BY <2>1 DEF Placements, Slot
  <2> QED BY <2>1, <2>2, PlacementsAreTyped
<1> QED BY <1>1 DEF Typed, Timeline

Busy(at) == [o \in DOMAIN at |-> Window(at, o)]

LEMMA PoolsFitIsBusy ==
  ASSUME NEW at
  PROVE  PoolsFit(Empty, at) <=>
           \A r \in Resources, o \in DOMAIN at : Held(Busy(at), r, Busy(at)[o].from) <= PoolSize[r]
<1> DEFINE windows == [o \in DOMAIN Empty \cup DOMAIN at |->
           IF o \in DOMAIN at
             THEN [from |-> at[o].start - ArcSetup(at, o), to |-> at[o].end]
             ELSE [from |-> Empty[o].start - Empty[o].setup, to |-> Empty[o].end]]
<1>1. windows = Busy(at)
  BY DEF Busy, Window, ArcSetup, ActualSetup, Empty
<1>2. PoolsFit(Empty, at) <=>
        \A r \in Resources, o \in DOMAIN windows : Held(windows, r, windows[o].from) <= PoolSize[r]
  BY DEF PoolsFit
<1>3. DOMAIN Busy(at) = DOMAIN at
  BY DEF Busy
<1> HIDE DEF windows
<1> QED BY <1>1, <1>2, <1>3

LEMMA BusyIsTyped ==
  ASSUME NEW at, Typed(at)
  PROVE  /\ DOMAIN Busy(at) = DOMAIN at /\ DOMAIN Busy(at) \subseteq Ops
         /\ \A o \in DOMAIN at : /\ Busy(at)[o] = Window(at, o)
                                 /\ Window(at, o).from \in Int /\ Window(at, o).to \in Int
                                 /\ Window(at, o).from < Window(at, o).to
<1>1. DOMAIN Busy(at) = DOMAIN at /\ \A o \in DOMAIN at : Busy(at)[o] = Window(at, o)
  BY DEF Busy
<1>2. ASSUME NEW o \in DOMAIN at
      PROVE  /\ Window(at, o).from \in Int /\ Window(at, o).to \in Int
             /\ Window(at, o).from < Window(at, o).to
  <2>1. ActualSetup(at, o) \in Nat
    BY ActualSetupIsNat DEF Typed
  <2> QED BY <2>1, TypedFacts DEF Window
<1> QED BY <1>1, <1>2 DEF Typed, Timeline

(* The users of a pool are all that counts of what is busy.                *)
LEMMA UsersAreBusy ==
  ASSUME NEW at, Typed(at), NEW r \in Resources, NEW t
  PROVE  Held(Busy(at), r, t) = Held(FreshWindows(at, {r}), r, t)
<1> DEFINE users == FreshWindows(at, {r})
           all == Holders(Busy(at), t)
           some == Holders(users, t)
           f == NeedOf(r)
<1>1. DOMAIN Busy(at) = DOMAIN at /\ DOMAIN at \subseteq Ops
  BY BusyIsTyped
<1>2. DOMAIN users = {o \in DOMAIN at : r \in RequiredBy(o)} /\ \A o \in DOMAIN users : users[o] = Busy(at)[o]
  BY DEF FreshWindows, Busy
<1>3. DOMAIN users \subseteq Ops
  BY <1>1, <1>2
<1>4. Held(Busy(at), r, t) = Total(f, all) /\ Held(users, r, t) = Total(f, some)
  BY <1>1, <1>3, HeldIsTotal
<1>5. all \subseteq Ops /\ IsFiniteSet(all)
  BY <1>1, FS_Subset, DispatchTimelineAssumption DEF DispatchTimelineAssumption, Holders
<1>6. some \in SUBSET all /\ \A x \in all \ some : r \notin RequiredBy(x)
  BY <1>1, <1>2 DEF Holders
<1>7. \A x \in Ops : f[x] \in Nat /\ (r \notin RequiredBy(x) => f[x] = 0)
  BY DispatchTimelineAssumption DEF DispatchTimelineAssumption, NeedOf, RequiredBy
<1> HIDE DEF users, all, some, f
<1>8. (\A x \in all : f[x] \in Nat) /\ (\A x \in all \ some : f[x] = 0)
  BY <1>5, <1>6, <1>7
<1>9. Total(f, all) = Total(f, some)
  BY <1>5, <1>6, <1>8, TotalIgnoresZeros
<1> QED BY <1>4, <1>9 DEF users

LEMMA PoolsFitMeansRespected ==
  ASSUME NEW at, Typed(at)
  PROVE  PoolsFit(Empty, at) <=> PoolsRespected(at)
<1> DEFINE all == Busy(at)
<1>1. /\ DOMAIN all = DOMAIN at /\ DOMAIN all \subseteq Ops
      /\ \A o \in DOMAIN at : /\ all[o] = Window(at, o)
                              /\ Window(at, o).from \in Int /\ Window(at, o).to \in Int
                              /\ Window(at, o).from < Window(at, o).to
  BY BusyIsTyped
<1> HIDE DEF all
<1>2. ASSUME PoolsFit(Empty, at), NEW r \in Resources, NEW t \in Int
      PROVE  Held(FreshWindows(at, {r}), r, t) <= PoolSize[r]
  <2> DEFINE users == FreshWindows(at, {r})
  <2>1. /\ DOMAIN users = {o \in DOMAIN all : r \in RequiredBy(o)}
        /\ \A o \in DOMAIN users : users[o] = all[o]
    BY <1>1 DEF FreshWindows
  <2>2. \A o \in DOMAIN all : r \in RequiredBy(o) => Held(all, r, all[o].from) <= PoolSize[r]
    BY <1>1, <1>2, PoolsFitIsBusy DEF all
  <2>3. \A o \in DOMAIN all : all[o].from \in Int /\ all[o].to \in Int
    BY <1>1
  <2> HIDE DEF users
  <2>4. Held(users, r, t) <= PoolSize[r]
    BY <1>1, <2>1, <2>2, <2>3, PoolsAtTheirFullest
  <2> QED BY <2>4 DEF users
<1>3. PoolsFit(Empty, at) => PoolsRespected(at)
  <2>1. \A i, j : \A t \in i .. j : t \in Int
    OBVIOUS
  <2> QED BY <1>2, <2>1 DEF PoolsRespected
<1>4. ASSUME PoolsRespected(at), NEW r \in Resources, NEW o \in DOMAIN at
      PROVE  Held(all, r, all[o].from) <= PoolSize[r]
  <2> DEFINE t == all[o].from
             users == FreshWindows(at, {r})
             now == Holders(users, t)
  <2>1. t \in Int
    BY <1>1
  <2>2. Held(all, r, t) = Held(users, r, t)
    BY UsersAreBusy DEF all
  <2>3. /\ DOMAIN users = {x \in DOMAIN at : r \in RequiredBy(x)}
        /\ \A x \in DOMAIN users : users[x] = Window(at, x)
    BY DEF FreshWindows
  <2>4. DOMAIN users \subseteq Ops
    BY <1>1, <2>3
  <2>5. \A x \in DOMAIN users : \A n \in users[x].from .. users[x].to - 1 : Held(users, r, n) <= PoolSize[r]
    BY <1>4 DEF PoolsRespected
  <2> HIDE DEF t, users
  <2>6. CASE now = {}
    <3>1. Held(users, r, t) = Total(NeedOf(r), {})
      BY <2>4, <2>6, HeldIsTotal
    <3>2. Total(NeedOf(r), {}) = 0
      BY FS_EmptySet, TotalSteps
    <3>3. PoolSize[r] \in Nat
      BY DispatchTimelineAssumption DEF DispatchTimelineAssumption
    <3> QED BY <2>2, <3>1, <3>2, <3>3 DEF t
  <2>7. CASE now # {}
    <3>1. PICK x \in now : TRUE
      BY <2>7
    <3>2. x \in DOMAIN users /\ users[x].from <= t /\ t < users[x].to
      BY <3>1 DEF Holders
    <3>3. users[x].from \in Int /\ users[x].to \in Int
      BY <1>1, <2>3, <3>2
    <3>4. t \in users[x].from .. users[x].to - 1
      BY <2>1, <3>2, <3>3
    <3> QED BY <2>2, <2>5, <3>2, <3>4 DEF t
  <2> QED BY <2>6, <2>7
<1>5. PoolsRespected(at) => PoolsFit(Empty, at)
  <2>1. PoolsRespected(at) => \A r \in Resources, o \in DOMAIN at : Held(all, r, all[o].from) <= PoolSize[r]
    BY <1>4
  <2> QED BY <2>1, PoolsFitIsBusy DEF all
<1> QED BY <1>3, <1>5

LEMMA ShiftsAgree ==
  ASSUME NEW at, NEW o \in DOMAIN at
  PROVE  InOneShift(at, o) <=> WithinShift(at, o)
BY DEF InOneShift, WithinShift, Window, ArcSetup, ActualSetup

LEMMA AloneIsFree ==
  ASSUME NEW ops, NEW at \in [ops -> Assignment]
  PROVE  Around(Empty, at) = at /\ \A o \in ops : ClearOfFixed(Empty, at, o)
<1>1. Around(Empty, at) = [o \in ops |-> at[o]]
  BY DEF Around, Empty
<1> QED BY <1>1 DEF ClearOfFixed, On, Empty

(* Admitted or legal is the same of a schedule whose operations have their *)
(* predecessors in the problem.                                            *)
LEMMA AdmittedMeansLegal ==
  ASSUME NEW ops \in SUBSET Ops, \A o \in ops : PredecessorOf[o] \in ops \cup {None},
         NEW at \in [ops -> Assignment], \A o \in ops : at[o] \in Placements(o)
  PROVE  Admits(Empty, at, Edges) <=> Legal(ops, at)
<1>1. Typed(at) /\ \A o \in ops : at[o].wc \in EligibleFor[o]
  <2>1. DOMAIN at = ops
    OBVIOUS
  <2> QED BY <2>1, PlacedIsTyped
<1>3. Around(Empty, at) = at /\ \A o \in ops : ClearOfFixed(Empty, at, o)
  BY AloneIsFree
<1>4. PoolsFit(Empty, at) <=> PoolsRespected(at)
  BY <1>1, PoolsFitMeansRespected
<1>5. \A o \in ops : InOneShift(at, o) <=> WithinShift(at, o)
  BY ShiftsAgree
<1>6. None \notin ops
  BY ProblemFacts
<1>7. ASSUME NEW o \in ops
      PROVE  WithinTimeBounds(Empty, at, o) <=>
               /\ Release[o] <= at[o].start /\ at[o].end <= HorizonEnd
               /\ LatestFinish[o] # None => at[o].end <= LatestFinish[o]
               /\ PredecessorOf[o] \in DOMAIN at => at[PredecessorOf[o]].end <= at[o].start
  <2>1. PredecessorOf[o] # None <=> PredecessorOf[o] \in DOMAIN at
    BY <1>6
  <2> QED BY <1>3, <2>1 DEF WithinTimeBounds
<1>8. EdgesHold(at, Edges) <=>
        \A e \in Edges :
          {e.src, e.dst} \subseteq DOMAIN at =>
            EdgeAnchors(at, e).src + e.min_lag <= EdgeAnchors(at, e).dst
  BY DEF EdgesHold
<1> QED BY <1>1, <1>3, <1>4, <1>5, <1>7, <1>8 DEF Admits, Legal

(* Every way of placing the operations two by two apart is tried.          *)
LEMMA SchedulesMissNothing ==
  ASSUME NEW ops \in SUBSET Ops, NEW at \in [ops -> Assignment],
         \A o \in ops : at[o] \in Placements(o) /\ at[o].end <= HorizonEnd,
         \A x, y \in ops : x # y /\ at[x].wc = at[y].wc =>
           at[x].end <= at[y].start \/ at[y].end <= at[x].start
  PROVE  at \in SchedulesOf(ops)
<1> DEFINE part(u) == [o \in u |-> at[o]]
<1>1. PICK g : Extensions(ops, g) /\ SchedulesOf(ops) = g[ops]
  BY SchedulesAreExtensions
<1> DEFINE Bad == {u \in SUBSET ops : part(u) \notin g[u]}
<1>2. SUFFICES ASSUME Bad # {} PROVE FALSE
  <2>1. part(ops) = at
    OBVIOUS
  <2>2. ops \notin Bad => part(ops) \in g[ops]
    OBVIOUS
  <2> HIDE DEF part, Bad
  <2> QED BY <1>1, <1>2, <2>1, <2>2
<1>3. PICK u \in Bad : \A v \in SUBSET u : v \in Bad => v = u
  <2>1. Bad \in SUBSET SUBSET ops
    OBVIOUS
  <2>2. IsFiniteSet(ops)
    BY DispatchTimelineAssumption, FS_Subset DEF DispatchTimelineAssumption
  <2> HIDE DEF Bad
  <2> QED BY <1>2, <2>1, <2>2, MinimalSubset
<1>4. u \in SUBSET ops /\ part(u) \notin g[u]
  BY <1>3
<1>5. g[u] = IF u = {} THEN {Empty} ELSE Extended(g[u \ {Pick(u)}], Pick(u))
  <2> HIDE DEF part, Bad
  <2>1. Extensions(ops, g)
    BY <1>1
  <2>2. \A w \in SUBSET ops :
          g[w] = IF w = {} THEN {Empty} ELSE Extended(g[w \ {Pick(w)}], Pick(w))
    BY <2>1, ExtensionsEquation, Zenon
  <2> QED BY <1>4, <2>2
<1>6. CASE u = {}
  <2>1. part(u) = Empty
    BY <1>6 DEF Empty
  <2> HIDE DEF part
  <2> QED BY <1>4, <1>5, <1>6, <2>1
<1>7. CASE u # {}
  <2> DEFINE o == Pick(u)
             v == u \ {o}
             a == at[o]
             r == part(v)
  <2>1. o \in u
    BY <1>7, PickIsElement
  <2>2. v \in SUBSET u /\ v # u /\ v \in SUBSET ops /\ o \in ops
    BY <1>4, <2>1
  <2>3. r \in g[v]
    BY <1>3, <2>2
  <2>4. g[u] = Extended(g[v], o)
    BY <1>5, <1>7
  <2> HIDE DEF o, Bad
  <2>5. DOMAIN r = v /\ (\A x \in v : r[x] = at[x]) /\ o \notin v
    OBVIOUS
  <2>6. PlaceAt(r, o, a) = part(u)
    BY <2>1, <2>5 DEF PlaceAt
  <2> HIDE DEF v, r, part
  <2>7. Apart(r, o, a)
    BY <2>2, <2>5 DEF Apart
  <2>8. a \in Placements(o) /\ a.end <= HorizonEnd
    BY <2>2
  <2>9. PlaceAt(r, o, a) \in Extended(g[v], o)
    BY <2>3, <2>7, <2>8 DEF Extended
  <2> QED BY <1>4, <2>4, <2>6, <2>9
<1> QED BY <1>6, <1>7

(* The setups written in a plan do not make it legal or illegal.           *)
LEMMA LegalIgnoresStamps ==
  ASSUME NEW ops, NEW at, Typed(at), Legal(ops, at), NEW new, DOMAIN new = DOMAIN at,
         \A o \in DOMAIN at :
           new[o].wc = at[o].wc /\ new[o].start = at[o].start /\ new[o].end = at[o].end
  PROVE  Legal(ops, new)
<1>1. Timeline(at) /\ Separated(at)
  BY DEF Typed, Legal
<1>2. Separated(new)
  BY <1>1, SameTimesKeepSeparated
<1>3. \A x \in DOMAIN at : Window(new, x) = Window(at, x)
  <2>1. ASSUME NEW x \in DOMAIN at PROVE Window(new, x) = Window(at, x)
    <3>1. ActualSetup(new, x) = ActualSetup(at, x)
      BY <1>1, SameTimesKeepSetups
    <3> QED BY <3>1 DEF Window
  <2> QED BY <2>1
<1>4. PoolsRespected(new)
  <2>1. ASSUME NEW r PROVE FreshWindows(new, {r}) = FreshWindows(at, {r})
    <3> DEFINE users == {p \in DOMAIN at : RequiredBy(p) \cap {r} # {}}
    <3>1. /\ FreshWindows(at, {r}) = [x \in users |-> Window(at, x)]
          /\ FreshWindows(new, {r}) = [x \in users |-> Window(new, x)]
      BY DEF FreshWindows
    <3>2. \A x \in users : Window(new, x) = Window(at, x)
      BY <1>3
    <3> HIDE DEF users
    <3> QED BY <3>1, <3>2
  <2>2. PoolsRespected(at)
    BY DEF Legal
  <2> QED BY <2>1, <2>2, SameOccupancyKeepsPools
<1>5. \A o \in DOMAIN at : WithinShift(at, o) => WithinShift(new, o)
  BY <1>3 DEF WithinShift
<1>6. \A e \in Edges : {e.src, e.dst} \subseteq DOMAIN at => EdgeAnchors(new, e) = EdgeAnchors(at, e)
  BY DEF EdgeAnchors
<1> QED BY <1>2, <1>4, <1>5, <1>6 DEF Legal

(* A plan without its setups, as CP-SAT returns one. *)
Unstamped(at) == [o \in DOMAIN at |-> Slot(at[o].wc, at[o].start, Duration[o][at[o].wc], 0)]

(* What the constraint model is worth when nothing is frozen: a schedule   *)
(* it admits is legal once its setups are written in, and it admits every  *)
(* legal plan, so that "infeasible" and "optimal" are about legal plans    *)
(* and not about what the encoding happens to allow.                       *)
THEOREM ModelIsExact ==
  ASSUME NEW ops \in SUBSET Ops, \A o \in ops : PredecessorOf[o] \in ops \cup {None}
  PROVE  /\ \A s \in Admitted(Empty, ops, Edges) : Legal(ops, RecomputeSetups(s))
         /\ \A at \in [ops -> Assignment] :
              Typed(at) /\ Legal(ops, at) => Unstamped(at) \in Admitted(Empty, ops, Edges)
<1>1. ASSUME NEW s \in Admitted(Empty, ops, Edges) PROVE Legal(ops, RecomputeSetups(s))
  <2>1. s \in SchedulesOf(ops) /\ Admits(Empty, s, Edges)
    BY DEF Admitted
  <2>2. s \in [ops -> Assignment] /\ DOMAIN s = ops /\ \A o \in ops : s[o] \in Placements(o)
    BY <2>1, SchedulesPlaceAll
  <2>3. Legal(ops, s) /\ Typed(s)
    BY <2>1, <2>2, AdmittedMeansLegal, PlacedIsTyped
  <2>4. \A o \in DOMAIN s : s[o] \in Assignment
    BY <2>2
  <2> QED BY <2>3, <2>4, RecomputeKeepsTimes, LegalIgnoresStamps
<1>2. ASSUME NEW at \in [ops -> Assignment], Typed(at), Legal(ops, at)
      PROVE  Unstamped(at) \in Admitted(Empty, ops, Edges)
  <2> DEFINE bare == Unstamped(at)
  <2>1. DOMAIN at = ops
    OBVIOUS
  <2>2. DOMAIN bare = ops
    BY <2>1 DEF Unstamped
  <2>3. ASSUME NEW o \in ops
        PROVE  /\ bare[o].wc = at[o].wc /\ bare[o].start = at[o].start /\ bare[o].end = at[o].end
               /\ bare[o] \in Placements(o) /\ bare[o].end <= HorizonEnd /\ bare[o] \in Assignment
               /\ bare[o].start < bare[o].end /\ bare[o].start \in Int /\ bare[o].end \in Int
    <3>1. bare[o] = Slot(at[o].wc, at[o].start, Duration[o][at[o].wc], 0)
      BY <2>1 DEF Unstamped
    <3>2. at[o].end = at[o].start + Duration[o][at[o].wc] /\ at[o].wc \in EligibleFor[o]
          /\ Release[o] <= at[o].start /\ at[o].end <= HorizonEnd
      BY <1>2, <2>1 DEF Legal, Typed, Timeline
    <3>3. /\ at[o].start \in Int /\ at[o].end \in Int /\ at[o].start < at[o].end
          /\ at[o].wc \in Machines /\ o \in Ops
      BY <1>2, <2>1, TypedFacts
    <3>4. Release[o] \in Nat /\ HorizonEnd \in Nat
      BY <3>3, PrecedenceAssumption, FeasibilityCheckerAssumption
      DEF PrecedenceAssumption, FeasibilityCheckerAssumption
    <3>5. at[o].start \in 0 .. HorizonEnd
      BY <3>2, <3>3, <3>4
    <3>6. bare[o] \in Placements(o)
      BY <3>1, <3>2, <3>5 DEF Placements
    <3>7. bare[o].wc = at[o].wc /\ bare[o].start = at[o].start /\ bare[o].end = at[o].end
      BY <3>1, <3>2 DEF Slot
    <3>8. bare[o] \in Assignment
      BY <3>3, <3>6, PlacementsAreTyped
    <3> QED BY <3>2, <3>3, <3>6, <3>7, <3>8
  <2>4. bare \in [ops -> Assignment]
    <3>1. bare = [o \in ops |-> bare[o]]
      BY <2>1 DEF Unstamped
    <3> HIDE DEF bare
    <3> QED BY <2>3, <3>1
  <2> HIDE DEF bare
  <2>5. Legal(ops, bare)
    BY <1>2, <2>1, <2>2, <2>3, LegalIgnoresStamps
  <2>6. Admits(Empty, bare, Edges)
    BY <2>3, <2>4, <2>5, AdmittedMeansLegal
  <2>7. \A x, y \in ops : x # y /\ bare[x].wc = bare[y].wc =>
          bare[x].end <= bare[y].start \/ bare[y].end <= bare[x].start
    <3>1. Separated(bare)
      BY <2>5 DEF Legal
    <3> QED BY <2>2, <2>3, <3>1 DEF Separated
  <2>8. bare \in SchedulesOf(ops)
    BY <2>3, <2>4, <2>7, SchedulesMissNothing
  <2> QED BY <2>6, <2>8 DEF Admitted, bare
<1> QED BY <1>1, <1>2

(* Around frozen work that is itself apart, a schedule the model admits    *)
(* leaves every changeover its time, those to and from frozen work         *)
(* included, although the circuits do not know that work.                  *)
THEOREM FrozenWorkStaysClear ==
  ASSUME NEW fixed, Typed(fixed), Separated(fixed), NEW ops \in SUBSET (Ops \ DOMAIN fixed),
         NEW edges, NEW free \in Admitted(fixed, ops, edges)
  PROVE  Separated(Around(fixed, free))
<1> DEFINE whole == Around(fixed, free)
<1>1. free \in SchedulesOf(ops) /\ Admits(fixed, free, edges)
  BY DEF Admitted
<1>2. DOMAIN free = ops /\ Typed(free)
  <2>1. ops \in SUBSET Ops
    OBVIOUS
  <2> QED BY <1>1, <2>1, SchedulesPlaceAll, PlacedIsTyped
<1>3. Separated(free) /\ \A o \in DOMAIN free : ClearOfFixed(fixed, free, o)
  BY <1>1 DEF Admits
<1>4. /\ DOMAIN whole = DOMAIN fixed \cup DOMAIN free
      /\ \A o \in DOMAIN free : whole[o] = free[o]
      /\ \A o \in DOMAIN fixed : whole[o] = fixed[o] /\ o \notin DOMAIN free
  BY <1>2 DEF Around
<1> HIDE DEF whole
<1>5. \A m : On(free, m) \subseteq On(whole, m) /\ On(fixed, m) \subseteq On(whole, m)
  BY <1>4 DEF On
<1>6. SUFFICES ASSUME NEW x \in DOMAIN whole, NEW y \in DOMAIN whole, x # y,
                      whole[x].wc = whole[y].wc, whole[x].start <= whole[y].start
               PROVE  /\ whole[x].end <= whole[y].start
                      /\ Follows(whole, whole[x].wc, x, y) =>
                           whole[x].end + SetupBetween(whole[x].wc, x, y) <= whole[y].start
  BY DEF Separated, whole
<1>7. /\ whole[x].start \in Int /\ whole[x].end \in Int /\ whole[x].start < whole[x].end
      /\ whole[y].start \in Int /\ whole[y].end \in Int /\ whole[y].start < whole[y].end
      /\ whole[x].wc \in Machines /\ x \in Ops /\ y \in Ops /\ x # None
  BY <1>2, <1>4, <1>6, TypedFacts
<1>8. SetupBetween(whole[x].wc, x, y) \in Nat /\ SetupBetween(whole[x].wc, y, x) \in Nat
  BY <1>7, ProblemFacts
<1>9. ASSUME NEW part, DOMAIN part \subseteq DOMAIN whole, Separated(part),
             \A o \in DOMAIN part : whole[o] = part[o],
             x \in DOMAIN part, y \in DOMAIN part
      PROVE  /\ whole[x].end <= whole[y].start
             /\ Follows(whole, whole[x].wc, x, y) =>
                  whole[x].end + SetupBetween(whole[x].wc, x, y) <= whole[y].start
  <2> DEFINE m == whole[x].wc
  <2>1. On(part, m) \subseteq On(whole, m) /\ (\A o \in On(part, m) : whole[o] = part[o])
    BY <1>9 DEF On
  <2>2. x \in On(part, m) /\ y \in On(part, m) /\ m = part[x].wc
    BY <1>6, <1>9 DEF On
  <2>3. Follows(whole, m, x, y) => Follows(part, m, x, y)
    BY <1>7, <2>1, <2>2 DEF Follows
  <2> QED BY <1>6, <1>9, <2>2, <2>3 DEF Separated
<1>10. CASE x \in DOMAIN free /\ y \in DOMAIN free
  <2>1. DOMAIN free \subseteq DOMAIN whole
    BY <1>4
  <2> QED BY <1>3, <1>4, <1>9, <1>10, <2>1
<1>11. CASE x \in DOMAIN fixed /\ y \in DOMAIN fixed
  <2>1. DOMAIN fixed \subseteq DOMAIN whole
    BY <1>4
  <2> QED BY <1>4, <1>9, <1>11, <2>1
<1>12. CASE x \in DOMAIN free /\ y \in DOMAIN fixed
  <2>1. y \in On(fixed, free[x].wc) /\ ClearOfFixed(fixed, free, x)
    BY <1>3, <1>4, <1>6, <1>12 DEF On
  <2>2. whole[x].end + SetupBetween(whole[x].wc, x, y) <= whole[y].start
        \/ whole[y].end + SetupBetween(whole[x].wc, y, x) <= whole[x].start
    BY <1>4, <1>12, <2>1 DEF ClearOfFixed
  <2> QED BY <1>6, <1>7, <1>8, <2>2
<1>13. CASE x \in DOMAIN fixed /\ y \in DOMAIN free
  <2>1. x \in On(fixed, free[y].wc) /\ ClearOfFixed(fixed, free, y)
    BY <1>3, <1>4, <1>6, <1>13 DEF On
  <2>2. whole[y].end + SetupBetween(whole[x].wc, y, x) <= whole[x].start
        \/ whole[x].end + SetupBetween(whole[x].wc, x, y) <= whole[y].start
    BY <1>4, <1>6, <1>13, <2>1 DEF ClearOfFixed
  <2> QED BY <1>6, <1>7, <1>8, <2>2
<1> QED BY <1>4, <1>10, <1>11, <1>12, <1>13

-----------------------------------------------------------------------------
(* Loops: a step repeated n times has a sequence of states. *)

HasRun(T, base, step, n) ==
  \E f \in [0 .. n -> T] : f[0] = base /\ \A k \in 1 .. n : f[k] = step[f[k - 1]]

LEMMA IterationExists ==
  ASSUME NEW T, NEW base \in T, NEW step \in [T -> T], NEW n \in Nat
  PROVE  HasRun(T, base, step, n)
<1> DEFINE Runs(m, f) == f \in [0 .. m -> T] /\ f[0] = base /\ \A k \in 1 .. m : f[k] = step[f[k - 1]]
           Bad == {m \in Nat : ~ \E f : Runs(m, f)}
<1>1. SUFFICES ASSUME Bad # {} PROVE FALSE
  BY DEF HasRun
<1>2. PICK m \in Bad : \A k \in Bad : m <= k
  <2>1. Bad \in SUBSET Nat
    OBVIOUS
  <2> HIDE DEF Bad
  <2> QED BY <1>1, <2>1, LeastNatural
<1>3. m # 0
  <2> DEFINE f == [k \in 0 .. 0 |-> base]
  <2>1. Runs(0, f)
    OBVIOUS
  <2> HIDE DEF Runs
  <2>2. 0 \notin Bad
    BY <2>1
  <2> QED BY <1>2, <2>2
<1>4. m - 1 \in Nat /\ m - 1 \notin Bad /\ m \in Nat
  <2>1. m \in Nat /\ m - 1 \in Nat
    BY <1>2, <1>3
  <2> HIDE DEF Bad
  <2> QED BY <1>2, <2>1
<1>5. PICK g : Runs(m - 1, g)
  BY <1>4
<1> DEFINE f == [k \in 0 .. m |-> IF k = m THEN step[g[m - 1]] ELSE g[k]]
<1>6. g \in [0 .. m - 1 -> T] /\ g[0] = base /\ \A k \in 1 .. m - 1 : g[k] = step[g[k - 1]]
  BY <1>5
<1>7. g[m - 1] \in T /\ step[g[m - 1]] \in T
  BY <1>4, <1>6
<1>8. f \in [0 .. m -> T] /\ f[0] = base
  BY <1>3, <1>4, <1>6, <1>7
<1>9. ASSUME NEW k \in 1 .. m PROVE f[k] = step[f[k - 1]]
  <2>1. k - 1 \in 0 .. m /\ k - 1 # m /\ k \in 0 .. m
    BY <1>4
  <2>2. f[k - 1] = g[k - 1]
    BY <2>1
  <2>3. CASE k = m
    BY <2>1, <2>2, <2>3
  <2>4. CASE k # m
    <3>1. k \in 1 .. m - 1
      BY <1>4, <2>4
    <3> QED BY <1>6, <2>1, <2>2, <2>4, <3>1
  <2> QED BY <2>3, <2>4
<1>10. Runs(m, f)
  <2> HIDE DEF f
  <2> QED BY <1>8, <1>9
<1>11. m \notin Bad
  <2> HIDE DEF Runs
  <2> QED BY <1>10
<1> QED BY <1>2, <1>11

-----------------------------------------------------------------------------
(* More about sums. *)

LEMMA TotalsAgree ==
  ASSUME NEW S, IsFiniteSet(S), NEW f, NEW h, \A x \in S : f[x] \in Nat /\ h[x] = f[x]
  PROVE  Total(f, S) = Total(h, S)
<1>1. \A x \in S : f[x] \in Nat /\ h[x] \in Nat /\ f[x] <= h[x] /\ h[x] <= f[x]
  OBVIOUS
<1>2. Total(f, S) \in Nat /\ Total(h, S) \in Nat
  BY <1>1, TotalIsNat
<1>3. Total(f, S) <= Total(h, S) /\ Total(h, S) <= Total(f, S)
  BY <1>1, TotalIsMonotone
<1> QED BY <1>2, <1>3

LEMMA TotalOfUnion ==
  ASSUME NEW S, IsFiniteSet(S), NEW f, \A x \in S : f[x] \in Nat,
         NEW s \in SUBSET S, NEW t \in SUBSET S, s \cap t = {}
  PROVE  Total(f, s \cup t) = Total(f, s) + Total(f, t)
<1> DEFINE Bad == {u \in SUBSET t : Total(f, s \cup u) # Total(f, s) + Total(f, u)}
<1>1. SUFFICES ASSUME Bad # {} PROVE FALSE
  BY <1>1
<1>2. PICK u \in Bad : \A v \in SUBSET u : v \in Bad => v = u
  <2>1. Bad \in SUBSET SUBSET t /\ IsFiniteSet(t)
    BY FS_Subset
  <2> HIDE DEF Bad
  <2> QED BY <1>1, <2>1, MinimalSubset
<1>3. \A v \in SUBSET S : IsFiniteSet(v) /\ Total(f, v) \in Nat
  <2>1. ASSUME NEW v \in SUBSET S PROVE IsFiniteSet(v) /\ Total(f, v) \in Nat
    BY FS_Subset, TotalIsNat
  <2> QED BY <2>1
<1>4. u \in SUBSET t /\ Total(f, s \cup u) # Total(f, s) + Total(f, u)
  BY <1>2
<1>5. u # {}
  <2>1. Total(f, {}) = 0
    BY TotalSteps
  <2>2. s \cup {} = s /\ Total(f, s) \in Nat
    BY <1>3
  <2> QED BY <1>4, <2>1, <2>2
<1>6. PICK x \in u : TRUE
  BY <1>5
<1> DEFINE v == u \ {x}
<1>7. Total(f, s \cup v) = Total(f, s) + Total(f, v)
  <2>1. v \notin Bad
    BY <1>2, <1>6
  <2> QED BY <1>4, <2>1
<1>8. x \in S /\ f[x] \in Nat /\ v \in SUBSET S /\ s \cup u \in SUBSET S /\ u \in SUBSET S /\ x \in s \cup u
  BY <1>4, <1>6
<1>9. Total(f, u) = f[x] + Total(f, v)
  BY <1>3, <1>6, <1>8, TotalWithout
<1>10. Total(f, s \cup u) = f[x] + Total(f, s \cup v)
  <2>1. Total(f, s \cup u) = f[x] + Total(f, (s \cup u) \ {x})
    <3> DEFINE all == s \cup u
    <3>1. all \in SUBSET S /\ x \in all /\ IsFiniteSet(all) /\ \A y \in all : f[y] \in Nat
      BY <1>3, <1>8
    <3> HIDE DEF all
    <3>2. Total(f, all) = f[x] + Total(f, all \ {x})
      BY <3>1, TotalWithout
    <3> QED BY <3>2 DEF all
  <2>2. (s \cup u) \ {x} = s \cup v
    BY <1>4, <1>6
  <2> QED BY <2>1, <2>2
<1> DEFINE a == Total(f, s)
           b == Total(f, v)
<1>11. a \in Nat /\ b \in Nat
  BY <1>3, <1>8
<1>12. Total(f, s \cup u) # a + Total(f, u) /\ Total(f, u) = f[x] + b /\ Total(f, s \cup u) = f[x] + (a + b)
  BY <1>4, <1>7, <1>9, <1>10
<1> HIDE DEF a, b, v, Bad
<1> QED BY <1>8, <1>11, <1>12

(* The sum the community modules form over the values of a function. *)
LEMMA FunctionSumIsTotal ==
  ASSUME NEW f, NEW S
  PROVE  MapThenSumSet(LAMBDA x : f[x], S) = Total(f, S)
<1> DEFINE term(u) == f[CHOOSE x \in u : TRUE]
           rest(u) == u \ {CHOOSE x \in u : TRUE}
           g1 == CHOOSE g : g = [u \in SUBSET S |-> IF u = {} THEN 0 ELSE term(u) + g[rest(u)]]
<1>1. MapThenSumSet(LAMBDA x : f[x], S) = g1[S]
  BY DEF MapThenSumSet, MapThenFoldSet
<1>2. g1 = CHOOSE g : Sums(f, S, g)
  BY DEF Sums, Pick
<1> QED BY <1>1, <1>2 DEF Total
=============================================================================
