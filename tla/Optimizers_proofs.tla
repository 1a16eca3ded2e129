------------------------- MODULE Optimizers_proofs --------------------------
(***************************************************************************)
(* What the two optimizers may claim: CP-SAT with the two-stage solver     *)
(* over it, for every problem, setting and grid, and the ALNS search, for  *)
(* every window, whatever is drawn, repaired and accepted.                 *)
(*                                                                         *)
(* CP-SAT.  A schedule that is returned was admitted by the model, so that *)
(* it is legal and clear of frozen work (AnswersAreLegal).  Every legal    *)
(* schedule is a solution of the model (LegalIsSolution), and a secondary  *)
(* term never reaches the multiplier of the primary one                    *)
(* (SecondaryIsBounded); so an optimum of the scalar cost is one of the    *)
(* hierarchy, and a bound in makespan minutes is one (OptimaAreProved), as *)
(* long as no symmetry cut is asked for.  The slices are compared          *)
(* pairwise; the one that is kept beats the last, and the last beats every *)
(* legal schedule within its cap (SlicesAreBest), as long as the primary   *)
(* objective can be scaled without overflow.                               *)
(*                                                                         *)
(* ALNS.  A set of operations is closed after as many layers of successors *)
(* as there are operations, and taking back roots keeps it so              *)
(* (DestroyedStaysClosed).  The objective adds up over machines and        *)
(* orders, and a move changes only machines it left or joined              *)
(* (UpdateIsExact); so the costs that are compared are the true ones       *)
(* (CostsStayTrue), the best schedule is never worse than the seed, and    *)
(* neither is what is returned (AnswerNeverCostsMore).  The notary of a    *)
(* window sees no setup next to frozen work, so that its silence is weaker *)
(* than legality; but what was valid as a seed stays clean, and what the   *)
(* search kept was separated with every setup, so that the final status is *)
(* true (RunStatusIsTrue).                                                 *)
(***************************************************************************)
EXTENDS CpSatSolver, AlnsRun, CpSatModel_proofs

(* The numbers a problem is given with. *)
LEMMA SolverFacts ==
  /\ HorizonEnd \in Nat /\ SafeMax \in Nat
  /\ IsFiniteSet(Ops) /\ IsFiniteSet(Machines) /\ IsFiniteSet(States) /\ IsFiniteSet(Orders)
  /\ \A r \in Orders : Due[r] \in Int
BY DispatchTimelineAssumption, FeasibilityCheckerAssumption, CpSatSolverAssumption, ObjectiveAssumption
DEF DispatchTimelineAssumption, FeasibilityCheckerAssumption, CpSatSolverAssumption, ObjectiveAssumption

LEMMA ProblemOps ==
  ASSUME NEW q \in Problems
  PROVE  /\ q.ops \in SUBSET Ops /\ IsFiniteSet(q.ops) /\ q.ops \in SUBSET (Ops \ DOMAIN q.fixed)
         /\ Typed(q.fixed)
         /\ \A o \in q.ops : PredecessorOf[o] \in q.ops \cup DOMAIN q.fixed \cup {None}
<1>1. /\ q.ops \subseteq Ops /\ DOMAIN q.fixed \subseteq Ops \ q.ops
      /\ \A f \in DOMAIN q.fixed :
           /\ q.fixed[f] \in Assignment
           /\ q.fixed[f].end = q.fixed[f].start + Duration[f][q.fixed[f].wc]
      /\ \A o \in q.ops : PredecessorOf[o] \in q.ops \cup DOMAIN q.fixed \cup {None}
  BY CpSatSolverAssumption DEF CpSatSolverAssumption
<1>2. IsFiniteSet(q.ops)
  BY <1>1, SolverFacts, FS_Subset
<1>3. Typed(q.fixed)
  BY <1>1 DEF Typed, Timeline, Assignment
<1> QED BY <1>1, <1>2, <1>3

-----------------------------------------------------------------------------
(* The largest of some times. *)

LEMMA LatestIsLargest ==
  ASSUME NEW T \in SUBSET Int, IsFiniteSet(T), T # {}
  PROVE  Latest(T) \in T /\ \A t \in T : t <= Latest(T)
<1> DEFINE f == [t \in T |-> t]
<1>1. f \in [T -> Int]
  OBVIOUS
<1>2. PICK t \in T : \A u \in T : f[u] <= f[t]
  BY <1>1, LargestElement
<1>3. \A u \in T : u <= t
  BY <1>2
<1> QED BY <1>3 DEF Latest

(* With 0 among them, as makespan and completion take it. *)
LEMMA LatestOfTimes ==
  ASSUME NEW S, IsFiniteSet(S), NEW f, \A x \in S : f[x] \in Int
  PROVE  LET times == {f[x] : x \in S} \cup {0}
         IN  /\ Latest(times) \in Nat /\ \A x \in S : f[x] <= Latest(times)
             /\ \A n \in Nat : (\A x \in S : f[x] <= n) => Latest(times) <= n
<1> DEFINE image == {f[x] : x \in S}
           times == image \cup {0}
<1>1. IsFiniteSet(image)
  BY ImageIsFinite
<1>2. IsFiniteSet(times)
  <2> HIDE DEF image
  <2> QED BY <1>1, FS_AddElement
<1>3. times \in SUBSET Int /\ times # {}
  OBVIOUS
<1>4. \A t \in times : t = 0 \/ \E x \in S : t = f[x]
  OBVIOUS
<1>5. 0 \in times /\ \A x \in S : f[x] \in times
  OBVIOUS
<1> HIDE DEF image, times
<1>6. Latest(times) \in times /\ \A t \in times : t <= Latest(times)
  BY <1>2, <1>3, LatestIsLargest
<1>7. Latest(times) \in Int /\ 0 <= Latest(times)
  BY <1>3, <1>5, <1>6
<1>8. ASSUME NEW n \in Nat, \A x \in S : f[x] <= n PROVE Latest(times) <= n
  BY <1>4, <1>6, <1>8
<1>9. \A n \in Nat : (\A x \in S : f[x] <= n) => Latest(times) <= n
  BY <1>8
<1>10. \A x \in S : f[x] <= Latest(times)
  BY <1>5, <1>6
<1>11. Latest(times) \in Nat
  BY <1>7
<1> QED BY <1>9, <1>10, <1>11 DEF times, image

LEMMA MaxSetupBounds ==
  /\ MaxSetup \in Nat
  /\ \A m \in Machines, x, y \in Ops : SetupBetween(m, x, y) <= MaxSetup
<1> DEFINE cells == Machines \X (States \X States)
           entry == [c \in cells |-> SetupMinutes[c[1]][c[2][1]][c[2][2]]]
           all == UNION {{SetupMinutes[m][s][t] : s \in States, t \in States} : m \in Machines}
<1>1. IsFiniteSet(cells)
  BY SolverFacts, FS_Product
<1>2. ASSUME NEW m \in Machines, NEW s \in States, NEW t \in States
      PROVE  /\ <<m, <<s, t>>>> \in cells
             /\ entry[<<m, <<s, t>>>>] = SetupMinutes[m][s][t] /\ SetupMinutes[m][s][t] \in Nat
  <2>1. SetupMinutes[m][s][t] \in Nat
    BY DispatchTimelineAssumption DEF DispatchTimelineAssumption
  <2> QED BY <2>1
<1>3. \A c \in cells : entry[c] \in Int
  <2>1. ASSUME NEW c \in cells PROVE entry[c] \in Int
    <3>1. PICK m \in Machines, s \in States, t \in States : c = <<m, <<s, t>>>>
      OBVIOUS
    <3>2. entry[c] = SetupMinutes[m][s][t] /\ SetupMinutes[m][s][t] \in Nat
      BY <1>2, <3>1
    <3> HIDE DEF entry
    <3> QED BY <3>2
  <2> QED BY <2>1
<1>4. {0} \cup all = {entry[c] : c \in cells} \cup {0}
  <2>1. ASSUME NEW v \in all PROVE v \in {entry[c] : c \in cells}
    <3>1. PICK m \in Machines, s \in States, t \in States : v = SetupMinutes[m][s][t]
      OBVIOUS
    <3> DEFINE cell == <<m, <<s, t>>>>
               image == {entry[c] : c \in cells}
    <3> HIDE DEF entry, cells
    <3>2. cell \in cells /\ entry[cell] = SetupMinutes[m][s][t]
      BY <1>2
    <3> HIDE DEF cell
    <3>3. entry[cell] \in image
      BY <3>2
    <3> QED BY <3>1, <3>2, <3>3
  <2>2. ASSUME NEW c \in cells PROVE entry[c] \in all
    <3>1. PICK m \in Machines, s \in States, t \in States : c = <<m, <<s, t>>>>
      OBVIOUS
    <3> HIDE DEF entry, cells
    <3>2. entry[c] = SetupMinutes[m][s][t]
      BY <1>2, <3>1
    <3>3. SetupMinutes[m][s][t] \in {SetupMinutes[m][x][y] : x \in States, y \in States}
      OBVIOUS
    <3>4. SetupMinutes[m][s][t] \in all
      BY <3>3
    <3> QED BY <3>2, <3>4
  <2> DEFINE image == {entry[c] : c \in cells}
  <2> HIDE DEF all, entry, cells
  <2>3. all \subseteq image
    BY <2>1
  <2>4. image \subseteq all
    BY <2>2
  <2> HIDE DEF image
  <2>5. all = image
    BY <2>3, <2>4
  <2> QED BY <2>5 DEF image
<1>5. MaxSetup = Latest({entry[c] : c \in cells} \cup {0})
  <2>1. MaxSetup = Latest({0} \cup all)
    BY DEF MaxSetup
  <2> HIDE DEF cells, entry, all
  <2> QED BY <1>4, <2>1
<1> HIDE DEF cells, entry, all
<1>6. MaxSetup \in Nat /\ \A c \in cells : entry[c] <= MaxSetup
  BY <1>1, <1>3, <1>5, LatestOfTimes
<1>7. ASSUME NEW m \in Machines, NEW x \in Ops, NEW y \in Ops PROVE SetupBetween(m, x, y) <= MaxSetup
  <2>1. StateOf[x] \in States /\ StateOf[y] \in States
    BY DispatchTimelineAssumption DEF DispatchTimelineAssumption
  <2> QED BY <1>2, <1>6, <2>1 DEF SetupBetween
<1> QED BY <1>6, <1>7

-----------------------------------------------------------------------------
(* The objective's sums, as sums of functions. *)

SetupOf(at) == [o \in DOMAIN at |-> ActualSetup(at, o)]

LEMMA SetupIsTotal ==
  ASSUME NEW at
  PROVE  TotalSetup(at) = Total(SetupOf(at), DOMAIN at)
<1> DEFINE S == DOMAIN at
           f == SetupOf(at)
           term(u) == ActualSetup(at, CHOOSE x \in u : TRUE)
           rest(u) == u \ {CHOOSE x \in u : TRUE}
           g1 == CHOOSE g : g = [u \in SUBSET S |-> IF u = {} THEN 0 ELSE term(u) + g[rest(u)]]
<1>1. TotalSetup(at) = g1[S]
  BY DEF TotalSetup, MapThenSumSet, MapThenFoldSet
<1>2. \A u \in SUBSET S : u # {} => f[Pick(u)] = term(u)
  BY PickIsElement DEF SetupOf, Pick
<1>3. \A u : rest(u) = u \ {Pick(u)}
  BY DEF Pick
<1> HIDE DEF S, f, term, rest
<1>4. \A g : Sums(f, S, g) <=>
               g = [u \in SUBSET S |-> IF u = {} THEN 0 ELSE term(u) + g[rest(u)]]
  <2>1. TAKE g
  <2> DEFINE a(u) == IF u = {} THEN 0 ELSE f[Pick(u)] + g[u \ {Pick(u)}]
             b(u) == IF u = {} THEN 0 ELSE term(u) + g[rest(u)]
  <2>2. \A u \in SUBSET S : a(u) = b(u)
    BY <1>2, <1>3
  <2>3. Sums(f, S, g) <=> g = [u \in SUBSET S |-> a(u)]
    BY DEF Sums
  <2> HIDE DEF a, b
  <2>4. [u \in SUBSET S |-> a(u)] = [u \in SUBSET S |-> b(u)]
    BY <2>2
  <2>5. Sums(f, S, g) <=> g = [u \in SUBSET S |-> b(u)]
    BY <2>3, <2>4
  <2> QED BY <2>5 DEF b
<1>5. (CHOOSE g : Sums(f, S, g)) = g1
  BY <1>4
<1> QED BY <1>1, <1>5 DEF Total, S, f

OfOrder(at, r) == {x \in DOMAIN at : OrderOf[x] = r}
CompletionOf(at, r) == Latest({at[o].end : o \in OfOrder(at, r)} \cup {0})
TardinessOf(at) == [r \in Orders |-> Larger(CompletionOf(at, r) - Due[r], 0)]
WorstTardiness == [r \in Orders |-> HorizonEnd + Larger(0, -Due[r])]

LEMMA TardinessIsTotal ==
  ASSUME NEW at
  PROVE  ModelTardiness(at) = Total(TardinessOf(at), Orders)
<1> DEFINE S == Orders
           f == TardinessOf(at)
           term(u) == Larger(CompletionOf(at, CHOOSE x \in u : TRUE) - Due[CHOOSE x \in u : TRUE], 0)
           rest(u) == u \ {CHOOSE x \in u : TRUE}
           g1 == CHOOSE g : g = [u \in SUBSET S |-> IF u = {} THEN 0 ELSE term(u) + g[rest(u)]]
<1>1. ModelTardiness(at) = g1[S]
  BY DEF ModelTardiness, CompletionOf, OfOrder, MapThenSumSet, MapThenFoldSet
<1>2. \A u \in SUBSET S : u # {} => f[Pick(u)] = term(u)
  BY PickIsElement DEF TardinessOf, Pick
<1>3. \A u : rest(u) = u \ {Pick(u)}
  BY DEF Pick
<1> HIDE DEF S, f, term, rest
<1>4. \A g : Sums(f, S, g) <=>
               g = [u \in SUBSET S |-> IF u = {} THEN 0 ELSE term(u) + g[rest(u)]]
  <2>1. TAKE g
  <2> DEFINE a(u) == IF u = {} THEN 0 ELSE f[Pick(u)] + g[u \ {Pick(u)}]
             b(u) == IF u = {} THEN 0 ELSE term(u) + g[rest(u)]
  <2>2. \A u \in SUBSET S : a(u) = b(u)
    BY <1>2, <1>3
  <2>3. Sums(f, S, g) <=> g = [u \in SUBSET S |-> a(u)]
    BY DEF Sums
  <2> HIDE DEF a, b
  <2>4. [u \in SUBSET S |-> a(u)] = [u \in SUBSET S |-> b(u)]
    BY <2>2
  <2>5. Sums(f, S, g) <=> g = [u \in SUBSET S |-> b(u)]
    BY <2>3, <2>4
  <2> QED BY <2>5 DEF b
<1>5. (CHOOSE g : Sums(f, S, g)) = g1
  BY <1>4
<1> QED BY <1>1, <1>5 DEF Total, S, f

LEMMA WorstTardinessIsTotal ==
  ASSUME NEW q
  PROVE  TardinessBound(q) = Total(WorstTardiness, Orders)
<1> DEFINE S == Orders
           f == WorstTardiness
           term(u) == HorizonEnd + Larger(0, -Due[CHOOSE x \in u : TRUE])
           rest(u) == u \ {CHOOSE x \in u : TRUE}
           g1 == CHOOSE g : g = [u \in SUBSET S |-> IF u = {} THEN 0 ELSE term(u) + g[rest(u)]]
<1>1. TardinessBound(q) = g1[S]
  BY DEF TardinessBound, MapThenSumSet, MapThenFoldSet
<1>2. \A u \in SUBSET S : u # {} => f[Pick(u)] = term(u)
  BY PickIsElement DEF WorstTardiness, Pick
<1>3. \A u : rest(u) = u \ {Pick(u)}
  BY DEF Pick
<1> HIDE DEF S, f, term, rest
<1>4. \A g : Sums(f, S, g) <=>
               g = [u \in SUBSET S |-> IF u = {} THEN 0 ELSE term(u) + g[rest(u)]]
  <2>1. TAKE g
  <2> DEFINE a(u) == IF u = {} THEN 0 ELSE f[Pick(u)] + g[u \ {Pick(u)}]
             b(u) == IF u = {} THEN 0 ELSE term(u) + g[rest(u)]
  <2>2. \A u \in SUBSET S : a(u) = b(u)
    BY <1>2, <1>3
  <2>3. Sums(f, S, g) <=> g = [u \in SUBSET S |-> a(u)]
    BY DEF Sums
  <2> HIDE DEF a, b
  <2>4. [u \in SUBSET S |-> a(u)] = [u \in SUBSET S |-> b(u)]
    BY <2>2
  <2>5. Sums(f, S, g) <=> g = [u \in SUBSET S |-> b(u)]
    BY <2>3, <2>4
  <2> QED BY <2>5 DEF b
<1>5. (CHOOSE g : Sums(f, S, g)) = g1
  BY <1>4
<1> QED BY <1>1, <1>5 DEF Total, S, f

-----------------------------------------------------------------------------
(* The values of a schedule that ends within the horizon are below the     *)
(* bounds the multipliers are computed from.                               *)

LEMMA MakespanFacts ==
  ASSUME NEW at, Typed(at), IsFiniteSet(DOMAIN at)
  PROVE  /\ Makespan(at) \in Nat
         /\ (\A o \in DOMAIN at : at[o].end <= HorizonEnd) => Makespan(at) <= HorizonEnd
<1> DEFINE S == DOMAIN at
           f == [o \in S |-> at[o].end]
           times == {f[x] : x \in S} \cup {0}
<1>1. \A o \in S : f[o] = at[o].end /\ f[o] \in Int
  BY TypedFacts
<1>2. Makespan(at) = Latest(times)
  BY DEF Makespan
<1> HIDE DEF f
<1>3. /\ Latest(times) \in Nat
      /\ \A n \in Nat : (\A x \in S : f[x] <= n) => Latest(times) <= n
  BY <1>1, LatestOfTimes
<1> HIDE DEF times
<1>4. (\A o \in S : at[o].end <= HorizonEnd) => Makespan(at) <= HorizonEnd
  BY <1>1, <1>2, <1>3, SolverFacts
<1> QED BY <1>2, <1>3, <1>4

LEMMA CompletionFacts ==
  ASSUME NEW at, Typed(at), IsFiniteSet(DOMAIN at), NEW r
  PROVE  /\ CompletionOf(at, r) \in Nat
         /\ (\A o \in DOMAIN at : at[o].end <= HorizonEnd) => CompletionOf(at, r) <= HorizonEnd
<1> DEFINE S == OfOrder(at, r)
           f == [o \in S |-> at[o].end]
           times == {f[x] : x \in S} \cup {0}
<1>1. S \subseteq DOMAIN at
  BY DEF OfOrder
<1>2. \A o \in S : f[o] = at[o].end /\ f[o] \in Int
  BY <1>1, TypedFacts
<1>3. CompletionOf(at, r) = Latest(times)
  BY DEF CompletionOf
<1>4. IsFiniteSet(S)
  BY <1>1, FS_Subset
<1> HIDE DEF f, S
<1>5. /\ Latest(times) \in Nat
      /\ \A n \in Nat : (\A x \in S : f[x] <= n) => Latest(times) <= n
  BY <1>2, <1>4, LatestOfTimes
<1> HIDE DEF times
<1>6. (\A o \in DOMAIN at : at[o].end <= HorizonEnd) => CompletionOf(at, r) <= HorizonEnd
  BY <1>1, <1>2, <1>3, <1>5, SolverFacts
<1> QED BY <1>3, <1>5, <1>6

LEMMA SetupFacts ==
  ASSUME NEW q \in Problems, NEW at, Typed(at), DOMAIN at = q.ops
  PROVE  /\ TotalSetup(at) \in Nat /\ SetupBound(q) \in Nat
         /\ TotalSetup(at) <= SetupBound(q) /\ 1 <= SetupBound(q)
<1> DEFINE f == SetupOf(at)
           n == Cardinality(q.ops)
<1>1. IsFiniteSet(q.ops) /\ n \in Nat
  BY ProblemOps, FS_CardinalityType
<1>2. ASSUME NEW o \in q.ops PROVE f[o] \in Nat /\ f[o] <= MaxSetup
  <2>1. f[o] = ActualSetup(at, o) /\ f[o] \in Nat
    BY ActualSetupIsNat DEF SetupOf, Typed
  <2> DEFINE p == Predecessor(at, o)
             m == at[o].wc
  <2>2. o \in Ops /\ m \in Machines
    BY TypedFacts
  <2>3. p \in Ops \cup {None}
    <3>1. p \in On(at, m) \cup {None}
      BY PredecessorFollows DEF Typed
    <3> HIDE DEF p, m
    <3> QED BY <3>1, TypedFacts DEF On
  <2>4. ActualSetup(at, o) = SetupAfter(m, p, o)
    BY DEF ActualSetup
  <2> HIDE DEF p, m
  <2>5. SetupAfter(m, p, o) <= MaxSetup
    BY <2>2, <2>3, MaxSetupBounds DEF SetupAfter
  <2> QED BY <2>1, <2>4, <2>5
<1>3. TotalSetup(at) = Total(f, q.ops)
  BY SetupIsTotal
<1> HIDE DEF f
<1>4. Total(f, q.ops) \in Nat /\ Total(f, q.ops) <= MaxSetup * n
  BY <1>1, <1>2, MaxSetupBounds, TotalIsNat, TotalIsBounded
<1>5. SetupBound(q) = Larger(1, MaxSetup * Larger(n, 1))
  BY DEF SetupBound
<1> HIDE DEF n
<1>6. MaxSetup * n \in Nat /\ MaxSetup * 1 = MaxSetup
  BY <1>1, MaxSetupBounds
<1>7. MaxSetup * n <= MaxSetup * Larger(n, 1) /\ MaxSetup * Larger(n, 1) \in Nat
  <2>1. CASE n >= 1
    BY <1>1, <1>6, <2>1 DEF Larger
  <2>2. CASE ~ n >= 1
    <3>1. n = 0 /\ Larger(n, 1) = 1
      BY <1>1, <2>2 DEF Larger
    <3>2. MaxSetup * 0 = 0 /\ MaxSetup * 1 = MaxSetup
      BY MaxSetupBounds
    <3> QED BY <3>1, <3>2, MaxSetupBounds
  <2> QED BY <2>1, <2>2
<1> DEFINE most == MaxSetup * Larger(n, 1)
<1> HIDE DEF most
<1>8. SetupBound(q) = Larger(1, most) /\ most \in Nat /\ MaxSetup * n <= most
  BY <1>5, <1>7 DEF most
<1>9. SetupBound(q) \in Nat /\ most <= SetupBound(q) /\ 1 <= SetupBound(q)
  BY <1>8 DEF Larger
<1> QED BY <1>3, <1>4, <1>6, <1>8, <1>9

LEMMA TardinessFacts ==
  ASSUME NEW at, Typed(at), IsFiniteSet(DOMAIN at), NEW q
  PROVE  /\ ModelTardiness(at) \in Nat /\ TardinessBound(q) \in Nat
         /\ (\A o \in DOMAIN at : at[o].end <= HorizonEnd) => ModelTardiness(at) <= TardinessBound(q)
<1> DEFINE f == TardinessOf(at)
           h == WorstTardiness
<1>1. ASSUME NEW r \in Orders
      PROVE  /\ f[r] \in Nat /\ h[r] \in Nat
             /\ (\A o \in DOMAIN at : at[o].end <= HorizonEnd) => f[r] <= h[r]
  <2>1. f[r] = Larger(CompletionOf(at, r) - Due[r], 0) /\ h[r] = HorizonEnd + Larger(0, -Due[r])
    BY DEF TardinessOf, WorstTardiness
  <2>2. /\ CompletionOf(at, r) \in Nat
        /\ (\A o \in DOMAIN at : at[o].end <= HorizonEnd) => CompletionOf(at, r) <= HorizonEnd
    BY CompletionFacts
  <2>3. Due[r] \in Int /\ HorizonEnd \in Nat
    BY SolverFacts
  <2> HIDE DEF f, h
  <2> QED BY <2>1, <2>2, <2>3 DEF Larger
<1>2. ModelTardiness(at) = Total(f, Orders) /\ TardinessBound(q) = Total(h, Orders)
  BY TardinessIsTotal, WorstTardinessIsTotal
<1> HIDE DEF f, h
<1>3. Total(f, Orders) \in Nat /\ Total(h, Orders) \in Nat
  BY <1>1, SolverFacts, TotalIsNat
<1>4. (\A o \in DOMAIN at : at[o].end <= HorizonEnd) => Total(f, Orders) <= Total(h, Orders)
  BY <1>1, SolverFacts, TotalIsMonotone
<1> QED BY <1>2, <1>3, <1>4

-----------------------------------------------------------------------------
(* A setting of a solve, as the callers give them. *)
IsSetting(s) ==
  /\ s.mode \in {"weighted_sum", "epsilon_primary"}
  /\ s.primary \in {"makespan", "setup", "tardiness"}
  /\ s.cap \in Nat \cup {None} /\ s.setup \in Nat /\ s.tardiness \in Nat

Vectors == [makespan : Nat, setup : Nat, tardiness : Nat]

(* The vectors the multipliers were made for. *)
Bounded(q, v) ==
  /\ v \in Vectors /\ v.makespan <= HorizonEnd
  /\ v.setup <= SetupBound(q) /\ v.tardiness <= TardinessBound(q)

LEMMA ValuesFacts ==
  ASSUME NEW q \in Problems, NEW p, Typed(p), DOMAIN p = q.ops
  PROVE  /\ ValuesOf(p) \in Vectors
         /\ SetupBound(q) \in Nat \ {0} /\ TardinessBound(q) \in Nat
         /\ (\A o \in q.ops : p[o].end <= HorizonEnd) => Bounded(q, ValuesOf(p))
<1>1. IsFiniteSet(DOMAIN p)
  BY ProblemOps
<1>2. Makespan(p) \in Nat /\ ((\A o \in q.ops : p[o].end <= HorizonEnd) => Makespan(p) <= HorizonEnd)
  BY <1>1, MakespanFacts
<1>3. /\ TotalSetup(p) \in Nat /\ SetupBound(q) \in Nat \ {0} /\ TotalSetup(p) <= SetupBound(q)
  BY SetupFacts
<1>4. /\ ModelTardiness(p) \in Nat /\ TardinessBound(q) \in Nat
      /\ (\A o \in q.ops : p[o].end <= HorizonEnd) => ModelTardiness(p) <= TardinessBound(q)
  BY <1>1, TardinessFacts
<1>5. /\ ValuesOf(p) \in Vectors /\ ValuesOf(p).makespan = Makespan(p)
      /\ ValuesOf(p).setup = TotalSetup(p) /\ ValuesOf(p).tardiness = ModelTardiness(p)
  BY <1>2, <1>3, <1>4 DEF ValuesOf, Vectors
<1> QED BY <1>2, <1>3, <1>4, <1>5 DEF Bounded

(* _minimize_scalarized_objective: the sum of the secondary terms of a     *)
(* schedule stays below the multiplier of its makespan.                    *)
THEOREM SecondaryIsBounded ==
  ASSUME NEW q \in Problems, NEW s, IsSetting(s), NEW v, Bounded(q, v),
         SetupBound(q) \in Nat, TardinessBound(q) \in Nat
  PROVE  /\ SecondaryBound(q, s) \in Nat \ {0} /\ Secondary(s, v) \in Nat
         /\ Secondary(s, v) < SecondaryBound(q, s)
<1> DEFINE a == s.setup
           b == s.tardiness
           most == SetupBound(q)
           late == Larger(1, TardinessBound(q))
<1>1. a \in Nat /\ b \in Nat /\ most \in Nat
  BY DEF IsSetting
<1>2. late \in Nat /\ TardinessBound(q) <= late
  BY DEF Larger
<1>3. v.setup \in Nat /\ v.tardiness \in Nat /\ v.setup <= most /\ v.tardiness <= late
  BY <1>2 DEF Bounded, Vectors
<1>4. SecondaryBound(q, s) = a * most + b * late + 1 /\ Secondary(s, v) = a * v.setup + b * v.tardiness
  BY DEF SecondaryBound, Secondary
<1> DEFINE x == v.setup
           y == v.tardiness
<1>5. x \in Nat /\ y \in Nat /\ x <= most /\ y <= late
  BY <1>3
<1>6. Secondary(s, v) = a * x + b * y
  BY <1>4
<1> HIDE DEF a, b, most, late, x, y
<1>7. a * x \in Nat /\ a * most \in Nat /\ a * x <= a * most
  BY <1>1, <1>5
<1>8. b * y \in Nat /\ b * late \in Nat /\ b * y <= b * late
  BY <1>1, <1>2, <1>5
<1> QED BY <1>4, <1>6, <1>7, <1>8

-----------------------------------------------------------------------------
(* The solutions of the model. *)

LEMMA AdmittedFacts ==
  ASSUME NEW q \in Problems, NEW p \in Schedules[q]
  PROVE  /\ p \in Admitted(q.fixed, q.ops, Edges)
         /\ Typed(p) /\ DOMAIN p = q.ops /\ p \in [q.ops -> Assignment]
         /\ \A o \in q.ops : p[o] \in Placements(o)
<1>1. p \in Admitted(q.fixed, q.ops, Edges)
  BY DEF Schedules
<1>2. p \in SchedulesOf(q.ops)
  BY <1>1 DEF Admitted
<1>3. p \in [q.ops -> Assignment] /\ DOMAIN p = q.ops /\ \A o \in q.ops : p[o] \in Placements(o)
  BY <1>2, ProblemOps, SchedulesPlaceAll
<1>4. Typed(p)
  BY <1>3, ProblemOps, PlacedIsTyped
<1> QED BY <1>1, <1>3, <1>4

LEMMA LoosenedFacts ==
  ASSUME NEW v \in Vectors, NEW dm \in Nat, NEW dt \in Nat
  PROVE  Loosened(v, dm, dt) \in Vectors /\ Loosened(v, 0, 0) = v
<1>1. PICK m \in Nat, n \in Nat, t \in Nat : v = [makespan |-> m, setup |-> n, tardiness |-> t]
  <2>1. /\ v = [makespan |-> v.makespan, setup |-> v.setup, tardiness |-> v.tardiness]
        /\ v.makespan \in Nat /\ v.setup \in Nat /\ v.tardiness \in Nat
    BY DEF Vectors
  <2> QED BY <2>1
<1>2. ASSUME NEW a \in Nat, NEW b \in Nat
      PROVE  Loosened(v, a, b) = [makespan |-> m + a, setup |-> n, tardiness |-> t + b]
  <2> DEFINE more == [v EXCEPT !.makespan = @ + a]
  <2>1. more = [makespan |-> m + a, setup |-> n, tardiness |-> t]
    BY <1>1
  <2>2. Loosened(v, a, b) = [more EXCEPT !.tardiness = @ + b]
    BY DEF Loosened
  <2> QED BY <2>1, <2>2
<1>3. /\ Loosened(v, dm, dt) = [makespan |-> m + dm, setup |-> n, tardiness |-> t + dt]
      /\ Loosened(v, 0, 0) = [makespan |-> m + 0, setup |-> n, tardiness |-> t + 0]
  BY <1>2
<1>4. m + 0 = m /\ t + 0 = t /\ m + dm \in Nat /\ t + dt \in Nat
  OBVIOUS
<1> QED BY <1>1, <1>3, <1>4 DEF Vectors

LEMMA SolutionFacts ==
  ASSUME NEW q \in Problems, NEW s, NEW x \in Solutions(q, s)
  PROVE  /\ x.schedule \in Schedules[q] /\ x.values \in Vectors
         /\ SetupBound(q) \in Nat \ {0} /\ TardinessBound(q) \in Nat
<1>1. PICK p \in Schedules[q], dm \in Slacks, dt \in Slacks :
        x = [schedule |-> p, values |-> Loosened(ValuesOf(p), dm, dt)]
  BY DEF Solutions
<1>2. /\ ValuesOf(p) \in Vectors /\ SetupBound(q) \in Nat \ {0} /\ TardinessBound(q) \in Nat
  BY AdmittedFacts, ValuesFacts
<1>3. dm \in Nat /\ dt \in Nat
  BY CpSatSolverAssumption DEF CpSatSolverAssumption
<1>4. Loosened(ValuesOf(p), dm, dt) \in Vectors
  BY <1>2, <1>3, LoosenedFacts
<1> QED BY <1>1, <1>2, <1>4

LEMMA CostIsNat ==
  ASSUME NEW q, SetupBound(q) \in Nat, TardinessBound(q) \in Nat, NEW s, IsSetting(s),
         NEW v \in Vectors
  PROVE  Cost(q, s, v) \in Nat
<1>1. v.makespan \in Nat /\ v.setup \in Nat /\ v.tardiness \in Nat /\ v[s.primary] \in Nat
  BY DEF Vectors, IsSetting
<1>2. HorizonEnd + 1 \in Nat /\ v[s.primary] * (HorizonEnd + 1) \in Nat
  BY <1>1, SolverFacts
<1>3. Larger(1, TardinessBound(q)) \in Nat /\ s.setup \in Nat /\ s.tardiness \in Nat
  BY DEF Larger, IsSetting
<1>4. /\ s.setup * SetupBound(q) \in Nat /\ s.tardiness * Larger(1, TardinessBound(q)) \in Nat
      /\ s.setup * v.setup \in Nat /\ s.tardiness * v.tardiness \in Nat
  BY <1>1, <1>3
<1>5. SecondaryBound(q, s) \in Nat
  BY <1>4 DEF SecondaryBound
<1>6. v.makespan * SecondaryBound(q, s) \in Nat
  BY <1>1, <1>5
<1> QED BY <1>1, <1>2, <1>4, <1>6 DEF Cost

(* OPTIMAL is a solution of least cost. *)
LEMMA OptimumIsLeast ==
  ASSUME NEW q \in Problems, NEW s, IsSetting(s), NEW y \in Solutions(q, s)
  PROVE  /\ Optimum(q, s, Solutions(q, s)) \in Nat
         /\ Optimum(q, s, Solutions(q, s)) <= Cost(q, s, y.values)
<1> DEFINE costs == {Cost(q, s, x.values) : x \in Solutions(q, s)}
<1>1. costs \in SUBSET Nat
  BY SolutionFacts, CostIsNat
<1>2. Cost(q, s, y.values) \in costs
  OBVIOUS
<1>3. Optimum(q, s, Solutions(q, s)) = CHOOSE c \in costs : \A d \in costs : c <= d
  BY DEF Optimum
<1> HIDE DEF costs
<1>4. \E c \in costs : \A d \in costs : c <= d
  BY <1>1, <1>2, LeastNatural
<1> QED BY <1>1, <1>2, <1>3, <1>4

(* Every legal schedule is a solution, with its own values, when no cut is *)
(* asked for.                                                              *)
THEOREM LegalIsSolution ==
  ASSUME NEW q \in Problems, q.fixed = Empty, NEW p \in LegalSchedules[q], NEW s, ~ s.symmetry,
         Within(s, ValuesOf(p))
  PROVE  /\ Bounded(q, ValuesOf(p)) /\ FixedFits(q.fixed, q.ops)
         /\ [schedule |-> p, values |-> ValuesOf(p)] \in Solutions(q, s)
         /\ SetupBound(q) \in Nat \ {0} /\ TardinessBound(q) \in Nat
<1>1. p \in SchedulesOf(q.ops) /\ Legal(q.ops, p)
  BY DEF LegalSchedules
<1>2. /\ q.ops \in SUBSET Ops
      /\ \A o \in q.ops : PredecessorOf[o] \in q.ops \cup {None}
  BY ProblemOps DEF Empty
<1>3. p \in [q.ops -> Assignment] /\ DOMAIN p = q.ops /\ \A o \in q.ops : p[o] \in Placements(o)
  BY <1>1, <1>2, SchedulesPlaceAll
<1>4. Typed(p)
  BY <1>2, <1>3, PlacedIsTyped
<1>5. p \in Schedules[q]
  <2>1. Admits(Empty, p, Edges)
    BY <1>1, <1>2, <1>3, AdmittedMeansLegal
  <2> QED BY <1>1, <2>1 DEF Admitted, Schedules
<1>6. \A o \in q.ops : p[o].end <= HorizonEnd
  BY <1>1, <1>3 DEF Legal
<1>7. Bounded(q, ValuesOf(p)) /\ SetupBound(q) \in Nat \ {0} /\ TardinessBound(q) \in Nat
  BY <1>3, <1>4, <1>6, ValuesFacts
<1>8. FixedFits(q.fixed, q.ops)
  BY DEF FixedFits, Empty
<1>9. Loosened(ValuesOf(p), 0, 0) = ValuesOf(p)
  BY <1>7, LoosenedFacts DEF Bounded
<1>10. 0 \in Slacks
  BY CpSatSolverAssumption DEF CpSatSolverAssumption
<1>11. ValuesOf(p).makespan <= HorizonEnd
  BY <1>7 DEF Bounded
<1>12. [schedule |-> p, values |-> Loosened(ValuesOf(p), 0, 0)] \in Solutions(q, s)
  BY <1>5, <1>9, <1>10, <1>11 DEF Solutions
<1> QED BY <1>7, <1>8, <1>9, <1>12

-----------------------------------------------------------------------------
(* The answers of a single solve. *)

Success == {"optimal", "feasible"}

LEMMA SuccessIsSolution ==
  ASSUME NEW q \in Problems, NEW s, IsSetting(s), NEW a \in Answers(q, s), a.status \in Success
  PROVE  \E x \in Solutions(q, s) :
           /\ a.schedule = RecomputeSetups(x.schedule) /\ a.values = x.values
           /\ a.status = "optimal" => Cost(q, s, x.values) = Optimum(q, s, Solutions(q, s))
           /\ \E bound \in Nat : /\ a.bound = PublishedBound(q, s, bound)
                                 /\ bound <= Optimum(q, s, Solutions(q, s))
<1> DEFINE least == Optimum(q, s, Solutions(q, s))
<1>1. a \notin {NoAnswer("refused"), NoAnswer("infeasible"), NoAnswer("timeout")}
  BY DEF NoAnswer, Answer, Success
<1>2. \/ a \in {Found(q, s, "optimal", x, least) : x \in {y \in Solutions(q, s) : Cost(q, s, y.values) = least}}
      \/ a \in {Found(q, s, "feasible", x, Larger(least - g, 0)) : x \in Solutions(q, s), g \in Gaps}
  BY <1>1 DEF Answers
<1>3. \A x \in Solutions(q, s) : least \in Nat
  BY OptimumIsLeast
<1> HIDE DEF least
<1>4. CASE a \in {Found(q, s, "optimal", x, least) : x \in {y \in Solutions(q, s) : Cost(q, s, y.values) = least}}
  <2>1. PICK x \in Solutions(q, s) : Cost(q, s, x.values) = least /\ a = Found(q, s, "optimal", x, least)
    BY <1>4
  <2>2. /\ a.schedule = RecomputeSetups(x.schedule) /\ a.values = x.values
        /\ a.bound = PublishedBound(q, s, least)
    BY <2>1 DEF Found, Answer
  <2>3. least \in Nat /\ least <= least
    BY <1>3
  <2> QED BY <2>1, <2>2, <2>3 DEF least
<1>5. CASE a \in {Found(q, s, "feasible", x, Larger(least - g, 0)) : x \in Solutions(q, s), g \in Gaps}
  <2>1. PICK x \in Solutions(q, s), g \in Gaps : a = Found(q, s, "feasible", x, Larger(least - g, 0))
    BY <1>5
  <2> DEFINE bound == Larger(least - g, 0)
  <2>2. /\ a.schedule = RecomputeSetups(x.schedule) /\ a.values = x.values
        /\ a.bound = PublishedBound(q, s, bound) /\ a.status = "feasible"
    BY <2>1 DEF Found, Answer
  <2>3. g \in Nat
    BY CpSatSolverAssumption DEF CpSatSolverAssumption
  <2>4. bound \in Nat /\ bound <= least
    BY <1>3, <2>3 DEF Larger
  <2> HIDE DEF bound
  <2> QED BY <2>2, <2>4 DEF least
<1> QED BY <1>2, <1>4, <1>5

LEMMA InfeasibleIsEmpty ==
  ASSUME NEW q \in Problems, NEW s, NEW a \in Answers(q, s), a.status = "infeasible",
         FixedFits(q.fixed, q.ops)
  PROVE  Solutions(q, s) = {}
<1> DEFINE least == Optimum(q, s, Solutions(q, s))
<1>1. SUFFICES ASSUME Solutions(q, s) # {} PROVE FALSE
  OBVIOUS
<1>2. \/ a = NoAnswer("timeout")
      \/ a \in {Found(q, s, "optimal", x, least) : x \in {y \in Solutions(q, s) : Cost(q, s, y.values) = least}}
      \/ a \in {Found(q, s, "feasible", x, Larger(least - g, 0)) : x \in Solutions(q, s), g \in Gaps}
  BY <1>1 DEF Answers
<1> HIDE DEF least
<1>3. a.status # "infeasible"
  BY <1>2 DEF NoAnswer, Found, Answer
<1> QED BY <1>3

(* What a schedule of the model is once its setups are written in. *)
LEMMA ExtractedIsLegal ==
  ASSUME NEW q \in Problems, NEW free \in Schedules[q], NEW new, new = RecomputeSetups(free)
  PROVE  /\ Separated(q.fixed) => Separated(Around(q.fixed, new))
         /\ \A o \in q.ops : PredecessorOf[o] # None =>
              Around(q.fixed, new)[PredecessorOf[o]].end <= Around(q.fixed, new)[o].start
         /\ q.fixed = Empty => Legal(q.ops, new)
<1> DEFINE ops == q.ops
           fixed == q.fixed
           before == Around(fixed, free)
           after == Around(fixed, new)
<1>1. /\ free \in Admitted(fixed, ops, Edges) /\ Typed(free) /\ DOMAIN free = ops
  BY AdmittedFacts
<1>2. /\ DOMAIN new = ops
      /\ \A o \in ops : /\ new[o].wc = free[o].wc /\ new[o].start = free[o].start
                        /\ new[o].end = free[o].end
  BY <1>1, RecomputeKeepsTimes DEF Typed
<1>3. /\ ops \in SUBSET Ops /\ ops \in SUBSET (Ops \ DOMAIN fixed) /\ Typed(fixed)
      /\ \A o \in ops : PredecessorOf[o] \in ops \cup DOMAIN fixed \cup {None}
  BY ProblemOps
<1> HIDE DEF fixed, ops
<1>4. /\ DOMAIN before = DOMAIN fixed \cup ops /\ DOMAIN after = DOMAIN fixed \cup ops
      /\ \A o \in ops : before[o] = free[o] /\ after[o] = new[o]
      /\ \A o \in DOMAIN fixed : before[o] = fixed[o] /\ after[o] = fixed[o]
  BY <1>1, <1>2, <1>3 DEF Around
<1> HIDE DEF before, after
<1>5. \A o \in DOMAIN before :
        after[o].wc = before[o].wc /\ after[o].start = before[o].start /\ after[o].end = before[o].end
  BY <1>2, <1>4
<1>6. Timeline(before)
  BY <1>1, <1>3, <1>4 DEF Typed, Timeline
<1>7. ASSUME Separated(fixed) PROVE Separated(after)
  <2>1. Separated(before)
    BY <1>1, <1>3, <1>7, FrozenWorkStaysClear DEF before
  <2> QED BY <1>4, <1>5, <1>6, <2>1, SameTimesKeepSeparated
<1>8. ASSUME NEW o \in ops, PredecessorOf[o] # None
      PROVE  after[PredecessorOf[o]].end <= after[o].start
  <2>1. before[PredecessorOf[o]].end <= free[o].start
    <3>1. WithinTimeBounds(fixed, free, o)
      BY <1>1 DEF Admitted, Admits
    <3> QED BY <1>8, <3>1 DEF WithinTimeBounds, before
  <2>2. PredecessorOf[o] \in DOMAIN before /\ o \in DOMAIN before
    BY <1>3, <1>4, <1>8
  <2> QED BY <1>4, <1>5, <2>1, <2>2
<1>9. ASSUME fixed = Empty PROVE Legal(ops, new)
  <2>1. \A o \in ops : PredecessorOf[o] \in ops \cup {None}
    BY <1>3, <1>9 DEF Empty
  <2> QED BY <1>1, <1>3, <1>9, <2>1, ModelIsExact
<1> QED BY <1>7, <1>8, <1>9 DEF before, after, ops, fixed

-----------------------------------------------------------------------------
(* What is known of a single solve: its answer is one of the model's. *)

SolveInv ==
  /\ problem \in Problems
  /\ setting \in Settings \cup {None}
  /\ setting # None => stage # "slices"
  /\ stage = "done" /\ setting # None => answer \in Answers(problem, setting)

LEMMA SettingFacts ==
  ASSUME NEW s \in Settings PROVE IsSetting(s) /\ s.symmetry \in BOOLEAN
BY CpSatSolverAssumption DEF CpSatSolverAssumption, IsSetting

(* The invariant holds: each stage publishes what the model answered.     *)
THEOREM SolveInvHolds == Spec => []SolveInv
<1>1. Init => SolveInv
  BY DEF Init, SolveInv
<1>2. SolveInv /\ [Next]_vars => SolveInv'
  <2> SUFFICES ASSUME SolveInv, [Next]_vars PROVE SolveInv'
    OBVIOUS
  <2> USE DEF SolveInv
  <2>1. CASE SolveOnce
    BY <2>1 DEF SolveOnce
  <2>2. CASE Baseline
    BY <2>2 DEF Baseline
  <2>3. CASE Slice
    BY <2>3 DEF Slice
  <2>4. CASE SkipSlice
    BY <2>4 DEF SkipSlice
  <2>5. CASE Publish
    BY <2>5 DEF Publish
  <2>6. CASE UNCHANGED vars
    BY <2>6 DEF vars
  <2> QED BY <2>1, <2>2, <2>3, <2>4, <2>5, <2>6 DEF Next
<1> QED BY <1>1, <1>2, PTL DEF Spec

(* _extract_solution_and_objective: the schedule a solve returns is legal  *)
(* for the notary when nothing is frozen, keeps its chains, and leaves     *)
(* machines free of overlap, changeovers to frozen work included.          *)
THEOREM AnswersAreLegal == Spec => []AnswerIsLegal
<1>1. SolveInv => AnswerIsLegal
  <2>1. SUFFICES ASSUME SolveInv, Solved PROVE AnswerIsLegal
    BY DEF AnswerIsLegal
  <2>2. /\ problem \in Problems /\ setting \in Settings /\ answer \in Answers(problem, setting)
        /\ answer.status \in Success
    BY <2>1 DEF SolveInv, Solved, Success
  <2>3. PICK x \in Solutions(problem, setting) : answer.schedule = RecomputeSetups(x.schedule)
    BY <2>2, SettingFacts, SuccessIsSolution
  <2>4. x.schedule \in Schedules[problem]
    BY <2>2, SolutionFacts
  <2> QED BY <2>2, <2>3, <2>4, ExtractedIsLegal DEF AnswerIsLegal, WholePlan
<1> QED BY <1>1, SolveInvHolds, PTL

-----------------------------------------------------------------------------
(* A cost that counts the primary value by a multiplier above the          *)
(* secondary terms of the rival orders them one after the other.           *)
LEMMA MultiplierSeparates ==
  ASSUME NEW a \in Nat, NEW b \in Nat, NEW c \in Nat, NEW d \in Nat, NEW k \in Nat \ {0},
         d < k, a * k + c <= b * k + d
  PROVE  a <= b /\ (a = b => c <= d)
<1>1. a * k \in Nat /\ b * k \in Nat
  OBVIOUS
<1>2. a <= b
  <2>1. SUFFICES ASSUME b + 1 <= a PROVE FALSE
    OBVIOUS
  <2>2. (b + 1) * k <= a * k
    BY <2>1
  <2>3. (b + 1) * k = b * k + k
    OBVIOUS
  <2>4. k <= d
    BY <1>1, <2>2, <2>3
  <2> QED BY <2>4
<1>3. ASSUME a = b PROVE c <= d
  <2>1. a * k = b * k
    BY <1>3
  <2> QED BY <1>1, <2>1
<1> QED BY <1>2, <1>3

LEMMA QuotientIsBounded ==
  ASSUME NEW n \in Nat, NEW b \in Nat, NEW d \in Nat, NEW k \in Nat \ {0}, d < k, n <= b * k + d
  PROVE  n \div k <= b
<1> DEFINE m == n \div k
<1>1. m \in Nat /\ k * m <= n
  OBVIOUS
<1> HIDE DEF m
<1>2. SUFFICES ASSUME b + 1 <= m PROVE FALSE
  BY <1>1 DEF m
<1>3. k * (b + 1) <= k * m
  BY <1>1, <1>2
<1>4. k * (b + 1) = b * k + k
  OBVIOUS
<1>5. k * m \in Nat /\ b * k \in Nat
  BY <1>1
<1> QED BY <1>1, <1>3, <1>4, <1>5

(* A value of least cost is not preceded by a rival the bounds are made    *)
(* for, in the hierarchy of the setting.                                   *)
LEMMA LeastIsFirst ==
  ASSUME NEW s, IsSetting(s), problem \in Problems,
         SetupBound(problem) \in Nat \ {0}, TardinessBound(problem) \in Nat,
         NEW v, Bounded(problem, v), NEW w \in Vectors,
         Cost(problem, s, w) <= Cost(problem, s, v)
  PROVE  ~ Precedes(s, v, w)
<1>1. /\ v \in Vectors /\ v.makespan \in Nat /\ w.makespan \in Nat /\ v.makespan <= HorizonEnd
      /\ v[s.primary] \in Nat /\ w[s.primary] \in Nat
  BY DEF Bounded, Vectors, IsSetting
<1>2. CASE MakespanAlone(problem, s)
  BY <1>1, <1>2 DEF Cost, Precedes
<1>3. CASE ~ MakespanAlone(problem, s) /\ s.mode = "epsilon_primary"
  <2> DEFINE x == v[s.primary]
             y == w[s.primary]
             k == HorizonEnd + 1
  <2>1. w[s.primary] * (HorizonEnd + 1) + w.makespan <= v[s.primary] * (HorizonEnd + 1) + v.makespan
    BY <1>3 DEF Cost
  <2>2. y * k + w.makespan <= x * k + v.makespan /\ x \in Nat /\ y \in Nat
    BY <1>1, <2>1
  <2>3. k \in Nat \ {0} /\ v.makespan < k
    BY <1>1, SolverFacts
  <2> HIDE DEF x, y, k
  <2>4. y <= x /\ (y = x => w.makespan <= v.makespan)
    BY <1>1, <2>2, <2>3, MultiplierSeparates
  <2>5. ~ (x < y) /\ ~ (x = y /\ v.makespan < w.makespan)
    BY <1>1, <2>2, <2>4
  <2> QED BY <1>3, <2>5 DEF Precedes, x, y
<1>4. CASE ~ MakespanAlone(problem, s) /\ s.mode # "epsilon_primary"
  <2> DEFINE k == SecondaryBound(problem, s)
             c == Secondary(s, w)
             d == Secondary(s, v)
  <2>1. k \in Nat \ {0} /\ d \in Nat /\ d < k
    BY SecondaryIsBounded
  <2>2. c \in Nat
    <3>1. s.setup \in Nat /\ s.tardiness \in Nat /\ w.setup \in Nat /\ w.tardiness \in Nat
      BY DEF IsSetting, Vectors
    <3>2. s.setup * w.setup \in Nat /\ s.tardiness * w.tardiness \in Nat
      BY <3>1
    <3> QED BY <3>2 DEF Secondary
  <2>3. w.makespan * k \in Nat /\ v.makespan * k \in Nat
    BY <1>1, <2>1
  <2>4. w.makespan * k + c <= v.makespan * k + d
    <3>1. /\ s.setup * w.setup \in Nat /\ s.tardiness * w.tardiness \in Nat
          /\ s.setup * v.setup \in Nat /\ s.tardiness * v.tardiness \in Nat
      <4>1. /\ s.setup \in Nat /\ s.tardiness \in Nat /\ w.setup \in Nat /\ w.tardiness \in Nat
            /\ v.setup \in Nat /\ v.tardiness \in Nat
        BY <1>1 DEF IsSetting, Vectors
      <4> QED BY <4>1
    <3>2. /\ Cost(problem, s, w) = w.makespan * k + s.setup * w.setup + s.tardiness * w.tardiness
          /\ Cost(problem, s, v) = v.makespan * k + s.setup * v.setup + s.tardiness * v.tardiness
      BY <1>4 DEF Cost
    <3>3. c = s.setup * w.setup + s.tardiness * w.tardiness
          /\ d = s.setup * v.setup + s.tardiness * v.tardiness
      BY DEF Secondary
    <3> HIDE DEF c, d, k
    <3> QED BY <2>3, <3>1, <3>2, <3>3
  <2> HIDE DEF c, d, k
  <2>5. w.makespan <= v.makespan /\ (w.makespan = v.makespan => c <= d)
    BY <1>1, <2>1, <2>2, <2>4, MultiplierSeparates
  <2>6. ~ (v.makespan < w.makespan) /\ ~ (v.makespan = w.makespan /\ d < c)
    BY <1>1, <2>1, <2>2, <2>5
  <2> QED BY <1>4, <2>6 DEF Precedes, c, d
<1> QED BY <1>2, <1>3, <1>4

(* What bounds the cost of a value bounds its makespan, as published. *)
LEMMA BoundIsMakespan ==
  ASSUME NEW q \in Problems, NEW s, IsSetting(s), BoundsMakespan(s),
         SetupBound(q) \in Nat \ {0}, TardinessBound(q) \in Nat,
         NEW v, Bounded(q, v), NEW bound \in Nat, bound <= Cost(q, s, v)
  PROVE  PublishedBound(q, s, bound) <= v.makespan
<1> DEFINE k == SecondaryBound(q, s)
           d == Secondary(s, v)
           n == v.makespan
<1>1. n \in Nat
  BY DEF Bounded, Vectors
<1>2. k \in Nat \ {0} /\ d \in Nat /\ d < k
  BY SecondaryIsBounded
<1>3. CASE MakespanAlone(q, s)
  <2>1. bound <= n
    BY <1>3 DEF Cost
  <2>2. n * 1 <= n * k
    BY <1>1, <1>2
  <2>3. bound <= n * k + d /\ n * k \in Nat
    BY <1>1, <1>2, <2>1, <2>2
  <2> HIDE DEF n, k, d
  <2>4. bound \div k <= n
    BY <1>1, <1>2, <2>3, QuotientIsBounded
  <2> QED BY <2>1, <2>4 DEF PublishedBound, n, k
<1>4. CASE ~ MakespanAlone(q, s)
  <2>1. s.mode # "epsilon_primary" /\ s.mode = "weighted_sum" /\ s.cap = None
    BY <1>4 DEF MakespanAlone, BoundsMakespan, IsSetting
  <2>2. Cost(q, s, v) = n * k + s.setup * v.setup + s.tardiness * v.tardiness
    BY <1>4, <2>1 DEF Cost
  <2>3. /\ s.setup * v.setup \in Nat /\ s.tardiness * v.tardiness \in Nat
        /\ d = s.setup * v.setup + s.tardiness * v.tardiness
    <3>1. s.setup \in Nat /\ s.tardiness \in Nat /\ v.setup \in Nat /\ v.tardiness \in Nat
      BY DEF IsSetting, Bounded, Vectors
    <3> QED BY <3>1 DEF Secondary
  <2>4. n * k \in Nat
    BY <1>1, <1>2
  <2> HIDE DEF n, k, d
  <2>5. bound <= n * k + d
    BY <2>2, <2>3, <2>4
  <2>6. bound \div k <= n
    BY <1>1, <1>2, <2>5, QuotientIsBounded
  <2> QED BY <2>1, <2>6 DEF PublishedBound, n, k
<1> QED BY <1>3, <1>4

(* "optimal", "infeasible" and the bound in makespan minutes are true of   *)
(* every legal schedule within the cap, in the documented hierarchy: a     *)
(* makespan first, or the primary objective, and only then the rest.  The  *)
(* symmetry cut is left out, for calendars may set its machines apart.     *)
THEOREM OptimaAreProved ==
  Spec => []((setting # None => ~ setting.symmetry) => OptimumIsProved)
<1>1. ASSUME SolveInv, setting # None, ~ setting.symmetry, stage = "done", problem.fixed = Empty,
             NEW p \in LegalSchedules[problem], Within(setting, ValuesOf(p))
      PROVE  /\ answer.status # "infeasible"
             /\ answer.status = "optimal" => ~ Precedes(setting, ValuesOf(p), answer.values)
             /\ answer.status \in Success /\ BoundsMakespan(setting) => answer.bound <= Makespan(p)
  <2> DEFINE v == ValuesOf(p)
             y == [schedule |-> p, values |-> v]
             least == Optimum(problem, setting, Solutions(problem, setting))
  <2>1. /\ problem \in Problems /\ setting \in Settings /\ answer \in Answers(problem, setting)
        /\ IsSetting(setting)
    BY <1>1, SettingFacts DEF SolveInv
  <2>2. /\ Bounded(problem, v) /\ FixedFits(problem.fixed, problem.ops)
        /\ y \in Solutions(problem, setting)
        /\ SetupBound(problem) \in Nat \ {0} /\ TardinessBound(problem) \in Nat
    BY <1>1, <2>1, LegalIsSolution
  <2>3. y.values = v /\ v.makespan = Makespan(p)
    BY DEF ValuesOf
  <2> HIDE DEF v, y
  <2>4. answer.status # "infeasible"
    BY <2>1, <2>2, InfeasibleIsEmpty
  <2>5. least \in Nat /\ least <= Cost(problem, setting, v)
    BY <2>1, <2>2, <2>3, OptimumIsLeast
  <2>6. Cost(problem, setting, v) \in Nat
    BY <2>1, <2>2, CostIsNat DEF Bounded
  <2>7. ASSUME answer.status = "optimal" PROVE ~ Precedes(setting, v, answer.values)
    <3>1. answer.status \in Success
      BY <2>7 DEF Success
    <3>2. PICK x \in Solutions(problem, setting) :
            answer.values = x.values /\ Cost(problem, setting, x.values) = least
      BY <2>1, <2>7, <3>1, SuccessIsSolution
    <3>3. x.values \in Vectors
      BY <2>1, SolutionFacts
    <3> HIDE DEF least
    <3> QED BY <2>1, <2>2, <2>5, <3>2, <3>3, LeastIsFirst
  <2>8. ASSUME answer.status \in Success, BoundsMakespan(setting) PROVE answer.bound <= Makespan(p)
    <3>1. PICK bound \in Nat : answer.bound = PublishedBound(problem, setting, bound) /\ bound <= least
      BY <2>1, <2>8, SuccessIsSolution
    <3>2. bound <= Cost(problem, setting, v)
      BY <2>5, <2>6, <3>1
    <3>3. PublishedBound(problem, setting, bound) <= v.makespan
      BY <2>1, <2>2, <2>8, <3>2, BoundIsMakespan
    <3> QED BY <2>3, <3>1, <3>3
  <2> QED BY <2>4, <2>7, <2>8 DEF v
<1>2. SolveInv => ((setting # None => ~ setting.symmetry) => OptimumIsProved)
  BY <1>1 DEF OptimumIsProved, OptimalIsBest, BoundIsSound, Solved, Success
<1> QED BY <1>2, SolveInvHolds, PTL

-----------------------------------------------------------------------------
(* The slices of a Pareto request. *)

SettingOfSlice(b, ratio) ==
  [BaselineSetting EXCEPT !.mode = "epsilon_primary", !.primary = Primary,
                          !.cap = SliceCap(b.values.makespan, ratio)]

Statuses == {"optimal", "feasible", "infeasible", "timeout", "refused", "skipped_deadline"}

Points == [status : Statuses, values : Vectors \cup {None}]

(* Some slices have run: each point that was found is an outcome of its    *)
(* own setting, and the chosen one is not beaten by any of them.           *)
Sliced ==
  /\ baseline \in Outcomes(problem, BaselineSetting) /\ baseline.status \in Success
  /\ slices \in Seq(Points) /\ index \in Nat /\ index = Len(slices) + 1 /\ index <= Len(Grid) + 1
  /\ \A i \in 1 .. Len(slices) :
       slices[i].status \in Success => slices[i] \in Outcomes(problem, SettingOfSlice(baseline, Grid[i]))
  /\ chosen \in 0 .. Len(slices)
  /\ chosen # 0 => slices[chosen].status \in Success
  /\ \A i \in 1 .. Len(slices) :
       slices[i].status \in Success =>
         chosen # 0 /\ ~ IsBetter(slices[i].values, slices[chosen].values)

SlicesInv ==
  /\ problem \in Problems
  /\ stage = "asked" => slices = << >> /\ index = 1 /\ chosen = 0 /\ baseline = None
  /\ stage = "slices" => Sliced
  /\ stage = "done" /\ setting = None /\ baseline # None =>
       /\ Sliced /\ index > Len(Grid)
       /\ chosen # 0 => answer.values = slices[chosen].values

LEMMA BaselineIsSetting ==
  /\ IsSetting(BaselineSetting) /\ ~ BaselineSetting.symmetry
BY DEF IsSetting, BaselineSetting

LEMMA SliceIsSetting ==
  ASSUME NEW q \in Problems, NEW b \in Outcomes(q, BaselineSetting), b.status \in Success,
         NEW i \in 1 .. Len(Grid)
  PROVE  /\ IsSetting(SettingOfSlice(b, Grid[i])) /\ ~ SettingOfSlice(b, Grid[i]).symmetry
         /\ SettingOfSlice(b, Grid[i]).mode = "epsilon_primary"
         /\ SettingOfSlice(b, Grid[i]).primary = Primary
         /\ SettingOfSlice(b, Grid[i]).cap = SliceCap(b.values.makespan, Grid[i])
<1>1. PICK a \in Answers(q, BaselineSetting) : b = [status |-> a.status, values |-> a.values]
  BY DEF Outcomes
<1>2. b.values \in Vectors
  BY <1>1, BaselineIsSetting, SuccessIsSolution, SolutionFacts
<1>3. Grid[i] \in Nat /\ Primary \in {"makespan", "setup", "tardiness"}
  BY CpSatSolverAssumption DEF CpSatSolverAssumption
<1> DEFINE m == b.values.makespan
           r == Grid[i]
<1>4. m \in Nat
  BY <1>2 DEF Vectors
<1>5. m * r \in Nat
  BY <1>3, <1>4
<1> HIDE DEF m, r
<1>6. (m * r + 99) \div 100 \in Nat
  BY <1>5
<1>7. SliceCap(m, r) \in Nat
  BY <1>6 DEF SliceCap
<1> QED BY <1>3, <1>7 DEF SettingOfSlice, BaselineSetting, IsSetting, m, r

LEMMA OutcomesAreTyped ==
  ASSUME NEW q \in Problems, NEW s, IsSetting(s), NEW a \in Outcomes(q, s)
  PROVE  a \in Points /\ (a.status \in Success => a.values \in Vectors)
<1>1. PICK b \in Answers(q, s) : a = [status |-> b.status, values |-> b.values]
  BY DEF Outcomes
<1>2. ASSUME b.status \in Success PROVE b.values \in Vectors
  BY <1>2, SuccessIsSolution, SolutionFacts
<1>3. ASSUME b.status \notin Success
      PROVE  b.values = None /\ b.status \in {"infeasible", "timeout", "refused"}
  <2> DEFINE least == Optimum(q, s, Solutions(q, s))
  <2>1. \/ b \in {NoAnswer("refused"), NoAnswer("infeasible"), NoAnswer("timeout")}
        \/ b \in {Found(q, s, "optimal", x, least) : x \in {y \in Solutions(q, s) : Cost(q, s, y.values) = least}}
        \/ b \in {Found(q, s, "feasible", x, Larger(least - g, 0)) : x \in Solutions(q, s), g \in Gaps}
    BY DEF Answers
  <2> HIDE DEF least
  <2>2. b \in {NoAnswer("refused"), NoAnswer("infeasible"), NoAnswer("timeout")}
    BY <1>3, <2>1 DEF Found, Answer, Success
  <2> QED BY <2>2 DEF NoAnswer, Answer
<1> QED BY <1>1, <1>2, <1>3 DEF Points, Statuses, Success

LEMMA BetterIsTransitive ==
  ASSUME NEW u \in Vectors, NEW v \in Vectors, NEW w \in Vectors
  PROVE  /\ ~ IsBetter(v, v)
         /\ IsBetter(u, v) /\ ~ IsBetter(w, v) => ~ IsBetter(w, u)
         /\ ~ IsBetter(v, u) /\ ~ IsBetter(w, v) => ~ IsBetter(w, u)
<1>1. \A x \in {u, v, w} : x[Primary] \in Nat /\ x.makespan \in Nat
  BY CpSatSolverAssumption DEF CpSatSolverAssumption, Vectors
<1> QED BY <1>1 DEF IsBetter

(* The invariant holds of the two stages, whatever each solve answers.     *)
THEOREM SlicesInvHolds == Spec => []SlicesInv
<1>1. Init => SlicesInv
  BY DEF Init, SlicesInv
<1>2. SlicesInv /\ [Next]_vars => SlicesInv'
  <2> SUFFICES ASSUME SlicesInv, [Next]_vars PROVE SlicesInv'
    OBVIOUS
  <2>1. CASE SolveOnce
    BY <2>1 DEF SolveOnce, SlicesInv
  <2>2. CASE Baseline
    <3>1. PICK a \in Outcomes(problem, BaselineSetting) :
            IF a.status \in Success
              THEN baseline' = a /\ stage' = "slices"
              ELSE stage' = "done" /\ UNCHANGED baseline
      BY <2>2 DEF Baseline, SlicesInv, BaselineOutcomes, Success
    <3>2. slices' = << >> /\ index' = 1 /\ chosen' = 0 /\ baseline = None /\ problem' = problem
          /\ problem \in Problems
      BY <2>2 DEF Baseline, SlicesInv
    <3>3. CASE a.status \in Success
      <4>1. 1 <= Len(Grid) + 1 /\ Len(<< >>) = 0 /\ << >> \in Seq(Points)
        BY CpSatSolverAssumption DEF CpSatSolverAssumption
      <4>2. Sliced'
        BY <3>1, <3>2, <3>3, <4>1 DEF Sliced
      <4> QED BY <3>1, <3>2, <3>3, <4>2 DEF SlicesInv
    <3>4. CASE a.status \notin Success
      BY <3>1, <3>2, <3>4 DEF SlicesInv
    <3> QED BY <3>3, <3>4
  <2>3. CASE Slice \/ SkipSlice
    <3>1. PICK a \in Points :
            /\ slices' = Append(slices, a)
            /\ a.status \in Success =>
                 a \in Outcomes(problem, SettingOfSlice(baseline, Grid[index])) /\ a.values \in Vectors
            /\ \/ /\ a.status \in Success /\ chosen' = index
                  /\ chosen = 0 \/ IsBetter(a.values, slices[chosen].values)
               \/ /\ chosen' = chosen
                  /\ a.status \in Success =>
                       chosen # 0 /\ ~ IsBetter(a.values, slices[chosen].values)
      <4>1. CASE Slice
        <5>1. PICK a \in Outcomes(problem, SettingOfSlice(baseline, Grid[index])) :
                /\ slices' = Append(slices, a)
                /\ chosen' = IF a.status \in Success
                                /\ (chosen = 0 \/ IsBetter(a.values, slices[chosen].values))
                               THEN index ELSE chosen
          BY <4>1 DEF Slice, SliceSetting, SettingOfSlice, Success
        <5>2. /\ problem \in Problems /\ baseline \in Outcomes(problem, BaselineSetting)
              /\ baseline.status \in Success /\ index \in 1 .. Len(Grid)
          BY <4>1, CpSatSolverAssumption DEF Slice, SlicesInv, Sliced, CpSatSolverAssumption
        <5>3. a \in Points /\ (a.status \in Success => a.values \in Vectors)
          BY <5>2, SliceIsSetting, OutcomesAreTyped
        <5> QED BY <5>1, <5>3
      <4>2. CASE SkipSlice
        <5> DEFINE a == [status |-> "skipped_deadline", values |-> None]
        <5>1. a \in Points /\ a.status \notin Success
          BY DEF Points, Statuses, Success
        <5>2. slices' = Append(slices, a) /\ chosen' = chosen
          BY <4>2 DEF SkipSlice
        <5> HIDE DEF a
        <5> QED BY <5>1, <5>2
      <4> QED BY <2>3, <4>1, <4>2
    <3>2. /\ stage = "slices" /\ stage' = stage /\ index <= Len(Grid) /\ index' = index + 1
          /\ problem' = problem /\ baseline' = baseline /\ Sliced /\ problem \in Problems
      BY <2>3 DEF Slice, SkipSlice, SlicesInv
    <3> DEFINE n == Len(slices)
    <3>3. /\ slices \in Seq(Points) /\ n \in Nat /\ index = n + 1 /\ Len(Grid) \in Nat
          /\ chosen \in 0 .. n
      BY <3>2, CpSatSolverAssumption DEF Sliced, CpSatSolverAssumption
    <3>4. /\ slices' \in Seq(Points) /\ Len(slices') = n + 1 /\ slices'[n + 1] = a
          /\ \A i \in 1 .. n : slices'[i] = slices[i]
      BY <3>1, <3>3
    <3>5. \A i \in 1 .. n : slices[i].status \in Success => slices[i].values \in Vectors
      <4>1. SUFFICES ASSUME NEW i \in 1 .. n, slices[i].status \in Success PROVE slices[i].values \in Vectors
        OBVIOUS
      <4>2. slices[i] \in Outcomes(problem, SettingOfSlice(baseline, Grid[i])) /\ i \in 1 .. Len(Grid)
        BY <3>2, <3>3, <4>1 DEF Sliced
      <4>3. IsSetting(SettingOfSlice(baseline, Grid[i]))
        BY <3>2, <4>2, SliceIsSetting DEF Sliced
      <4> QED BY <3>2, <4>1, <4>2, <4>3, OutcomesAreTyped
    <3>6. /\ chosen # 0 => slices[chosen].status \in Success /\ slices[chosen].values \in Vectors
          /\ \A i \in 1 .. n : slices[i].status \in Success =>
               chosen # 0 /\ ~ IsBetter(slices[i].values, slices[chosen].values)
      BY <3>2, <3>3, <3>5 DEF Sliced
    <3>7. \A i \in 1 .. n + 1 : i = n + 1 \/ i \in 1 .. n
      BY <3>3
    <3> HIDE DEF n
    <3>8. /\ chosen' \in 0 .. n + 1
          /\ chosen' # 0 => slices'[chosen'].status \in Success
          /\ \A i \in 1 .. n + 1 : slices'[i].status \in Success =>
               chosen' # 0 /\ ~ IsBetter(slices'[i].values, slices'[chosen'].values)
      <4>1. CASE a.status \in Success /\ chosen' = n + 1
                 /\ (chosen = 0 \/ IsBetter(a.values, slices[chosen].values))
        <5>1. a.values \in Vectors /\ ~ IsBetter(a.values, a.values)
          BY <3>1, <4>1, BetterIsTransitive
        <5>2. ASSUME NEW i \in 1 .. n, slices[i].status \in Success
              PROVE  ~ IsBetter(slices[i].values, a.values)
          <6>1. /\ chosen # 0 /\ slices[chosen].values \in Vectors /\ slices[i].values \in Vectors
                /\ ~ IsBetter(slices[i].values, slices[chosen].values)
            BY <3>5, <3>6, <5>2
          <6> QED BY <4>1, <5>1, <6>1, BetterIsTransitive
        <5>3. n + 1 # 0 /\ n + 1 \in 0 .. n + 1
          BY <3>3
        <5>4. chosen' \in 0 .. n + 1 /\ chosen' # 0 /\ slices'[chosen'] = a
          BY <3>4, <4>1, <5>3
        <5>5. ASSUME NEW i \in 1 .. n + 1, slices'[i].status \in Success
              PROVE  ~ IsBetter(slices'[i].values, a.values)
          BY <3>4, <3>7, <5>1, <5>2, <5>5
        <5> QED BY <4>1, <5>4, <5>5
      <4>2. CASE chosen' = chosen /\ (a.status \in Success =>
                   chosen # 0 /\ ~ IsBetter(a.values, slices[chosen].values))
        <5>1. chosen' \in 0 .. n + 1 /\ (chosen' # 0 => slices'[chosen'] = slices[chosen])
          BY <3>3, <3>4, <4>2
        <5>2. ASSUME NEW i \in 1 .. n + 1, slices'[i].status \in Success
              PROVE  chosen # 0 /\ ~ IsBetter(slices'[i].values, slices[chosen].values)
          BY <3>4, <3>6, <3>7, <4>2, <5>2
        <5> QED BY <3>6, <4>2, <5>1, <5>2
      <4> QED BY <3>1, <3>3, <4>1, <4>2
    <3>9. \A i \in 1 .. n + 1 : slices'[i].status \in Success =>
            slices'[i] \in Outcomes(problem, SettingOfSlice(baseline, Grid[i]))
      BY <3>1, <3>2, <3>3, <3>4, <3>7 DEF Sliced, n
    <3>10. index' \in Nat /\ index' = n + 1 + 1 /\ index' <= Len(Grid) + 1
      BY <3>2, <3>3
    <3>11. Sliced'
      BY <3>2, <3>4, <3>8, <3>9, <3>10 DEF Sliced
    <3> QED BY <3>2, <3>11 DEF SlicesInv
  <2>4. CASE Publish
    <3>1. /\ Sliced /\ index > Len(Grid) /\ stage' = "done" /\ problem \in Problems
          /\ UNCHANGED <<problem, setting, baseline, index, slices, chosen>>
          /\ chosen # 0 => answer'.values = slices[chosen].values
      BY <2>4 DEF Publish, SlicesInv, Answer
    <3>2. Sliced'
      BY <3>1 DEF Sliced
    <3> QED BY <3>1, <3>2 DEF SlicesInv
  <2>5. CASE UNCHANGED vars
    BY <2>5 DEF vars, SlicesInv, Sliced
  <2> QED BY <2>1, <2>2, <2>3, <2>4, <2>5 DEF Next
<1> QED BY <1>1, <1>2, PTL DEF Spec

(* A slice solved to proof is not behind a legal schedule within its cap.  *)
LEMMA OptimalSliceIsBest ==
  ASSUME NEW q \in Problems, q.fixed = Empty, NEW s, IsSetting(s), ~ s.symmetry,
         s.mode = "epsilon_primary",
         s.primary = "makespan" \/ ~ Overflows(PrimaryBound(q, s.primary), HorizonEnd),
         NEW a \in Outcomes(q, s), a.status = "optimal",
         NEW p \in LegalSchedules[q], Within(s, ValuesOf(p))
  PROVE  /\ ValuesOf(p) \in Vectors /\ a.values \in Vectors
         /\ a.values[s.primary] <= ValuesOf(p)[s.primary]
         /\ a.values[s.primary] = ValuesOf(p)[s.primary] => a.values.makespan <= ValuesOf(p).makespan
<1> DEFINE v == ValuesOf(p)
           y == [schedule |-> p, values |-> v]
           least == Optimum(q, s, Solutions(q, s))
<1>1. PICK b \in Answers(q, s) : a = [status |-> b.status, values |-> b.values]
  BY DEF Outcomes
<1>2. b.status = "optimal" /\ b.status \in Success /\ a.values = b.values
  BY <1>1 DEF Success
<1>3. PICK x \in Solutions(q, s) : b.values = x.values /\ Cost(q, s, x.values) = least
  BY <1>2, SuccessIsSolution
<1>4. /\ Bounded(q, v) /\ y \in Solutions(q, s) /\ y.values = v
      /\ SetupBound(q) \in Nat \ {0} /\ TardinessBound(q) \in Nat
  BY LegalIsSolution
<1> HIDE DEF v, y
<1>5. least <= Cost(q, s, v)
  BY <1>4, OptimumIsLeast
<1> HIDE DEF least
<1> DEFINE w == x.values
<1>6. w \in Vectors /\ v \in Vectors /\ v.makespan <= HorizonEnd
  BY <1>4, SolutionFacts DEF Bounded
<1>7. /\ w.makespan \in Nat /\ v.makespan \in Nat /\ w[s.primary] \in Nat /\ v[s.primary] \in Nat
  BY <1>6 DEF Vectors, IsSetting
<1>8. a.values = w /\ Cost(q, s, w) <= Cost(q, s, v)
  BY <1>2, <1>3, <1>5
<1> HIDE DEF w
<1>9. CASE s.primary = "makespan"
  <2>1. MakespanAlone(q, s)
    BY <1>9 DEF MakespanAlone
  <2>2. w.makespan <= v.makespan
    BY <1>8, <2>1 DEF Cost
  <2> QED BY <1>6, <1>8, <1>9, <2>2 DEF v
<1>10. CASE s.primary # "makespan"
  <2> DEFINE k == HorizonEnd + 1
             m == w[s.primary]
             n == v[s.primary]
  <2>1. ~ MakespanAlone(q, s)
    BY <1>10 DEF MakespanAlone
  <2>2. m * k + w.makespan <= n * k + v.makespan
    BY <1>8, <2>1 DEF Cost
  <2>3. k \in Nat \ {0} /\ v.makespan < k /\ m \in Nat /\ n \in Nat
    BY <1>6, <1>7, SolverFacts
  <2> HIDE DEF k, m, n
  <2>4. m <= n /\ (m = n => w.makespan <= v.makespan)
    BY <1>7, <2>2, <2>3, MultiplierSeparates
  <2> QED BY <1>6, <1>8, <2>4 DEF v, m, n
<1> QED BY <1>9, <1>10

(* ParetoSliceCpSatSolver.solve: with every slice solved to proof, what is *)
(* published is the best a legal schedule may reach within the widest cap, *)
(* as long as the primary objective was scaled and not dropped as too      *)
(* large.                                                                  *)
THEOREM SlicesAreBest ==
  Spec => []((\/ Primary = "makespan"
              \/ ~ Overflows(PrimaryBound(problem, Primary), HorizonEnd)) => SliceIsParetoBest)
<1>1. ASSUME SlicesInv, Primary = "makespan" \/ ~ Overflows(PrimaryBound(problem, Primary), HorizonEnd),
             stage = "done", setting = None, problem.fixed = Empty, baseline # None,
             \A i \in 1 .. Len(slices) : slices[i].status = "optimal",
             NEW p \in LegalSchedules[problem],
             Makespan(p) <= SliceCap(baseline.values.makespan, Grid[Len(Grid)])
      PROVE  /\ ValuesOf(p)[Primary] >= answer.values[Primary]
             /\ ValuesOf(p)[Primary] = answer.values[Primary] =>
                  ValuesOf(p).makespan >= answer.values.makespan
  <2> DEFINE last == Len(Grid)
             s == SettingOfSlice(baseline, Grid[last])
             v == ValuesOf(p)
  <2>1. /\ problem \in Problems /\ Sliced /\ index > Len(Grid)
        /\ chosen # 0 => answer.values = slices[chosen].values
    BY <1>1 DEF SlicesInv
  <2>2. last \in 1 .. Len(Grid)
    BY CpSatSolverAssumption DEF CpSatSolverAssumption
  <2>3. /\ slices \in Seq(Points) /\ last = Len(slices) /\ chosen \in 0 .. last
    BY <2>1, <2>2 DEF Sliced
  <2>4. /\ last \in 1 .. Len(slices) /\ slices[last].status = "optimal" /\ slices[last].status \in Success
    BY <1>1, <2>2, <2>3 DEF Success
  <2>5. /\ chosen # 0 /\ ~ IsBetter(slices[last].values, slices[chosen].values)
        /\ slices[last] \in Outcomes(problem, s)
        /\ slices[chosen] \in Outcomes(problem, SettingOfSlice(baseline, Grid[chosen]))
    BY <2>1, <2>3, <2>4 DEF Sliced
  <2>6. /\ baseline \in Outcomes(problem, BaselineSetting) /\ baseline.status \in Success
        /\ chosen \in 1 .. last /\ slices[chosen].status \in Success
    BY <2>1, <2>3, <2>5 DEF Sliced
  <2>7. /\ IsSetting(s) /\ ~ s.symmetry /\ s.mode = "epsilon_primary" /\ s.primary = Primary
        /\ s.cap = SliceCap(baseline.values.makespan, Grid[last])
        /\ IsSetting(SettingOfSlice(baseline, Grid[chosen]))
    BY <2>1, <2>2, <2>6, SliceIsSetting
  <2> HIDE DEF s, last
  <2>8. Within(s, v)
    BY <1>1, <2>7 DEF Within, ValuesOf, last
  <2> HIDE DEF v
  <2>9. /\ v \in Vectors /\ slices[last].values \in Vectors
        /\ slices[last].values[Primary] <= v[Primary]
        /\ slices[last].values[Primary] = v[Primary] => slices[last].values.makespan <= v.makespan
    BY <1>1, <2>1, <2>4, <2>5, <2>7, <2>8, OptimalSliceIsBest DEF v
  <2>10. slices[chosen].values \in Vectors
    BY <2>1, <2>5, <2>6, <2>7, OutcomesAreTyped
  <2>11. \A x \in {v, slices[last].values, slices[chosen].values} :
           x[Primary] \in Nat /\ x.makespan \in Nat
    BY <2>9, <2>10, CpSatSolverAssumption DEF CpSatSolverAssumption, Vectors
  <2>12. answer.values = slices[chosen].values
    BY <2>1, <2>5
  <2> DEFINE one == slices[last].values
             two == slices[chosen].values
  <2>13. /\ ~ (one[Primary] < two[Primary])
         /\ one[Primary] = two[Primary] => ~ (one.makespan < two.makespan)
    BY <2>5 DEF IsBetter
  <2>14. /\ one[Primary] <= v[Primary] /\ (one[Primary] = v[Primary] => one.makespan <= v.makespan)
         /\ one[Primary] \in Nat /\ two[Primary] \in Nat /\ v[Primary] \in Nat
         /\ one.makespan \in Nat /\ two.makespan \in Nat /\ v.makespan \in Nat
    BY <2>9, <2>11
  <2> HIDE DEF one, two
  <2>15. v[Primary] >= two[Primary] /\ (v[Primary] = two[Primary] => v.makespan >= two.makespan)
    BY <2>13, <2>14
  <2> QED BY <2>12, <2>15 DEF v, two
<1>2. SlicesInv =>
        ((\/ Primary = "makespan"
          \/ ~ Overflows(PrimaryBound(problem, Primary), HorizonEnd)) => SliceIsParetoBest)
  BY <1>1 DEF SliceIsParetoBest
<1> QED BY <1>2, SlicesInvHolds, PTL

-----------------------------------------------------------------------------
(* The closure of a destroy set, and its cap. *)

ClosedIn(window, s) == s \subseteq window /\ Successors(s) \cap window \subseteq s

(* One layer of the closure, and its layers. *)
Layer(window, s) == s \cup (Successors(s) \cap window)

Layers(window, first, n, f) ==
  f = [k \in 0 .. n |-> IF k = 0 THEN first ELSE Layer(window, f[k - 1])]

Layered(window, first, n, f) ==
  f[0] = first /\ \A k \in 1 .. n : f[k] = Layer(window, f[k - 1])

LEMMA LayersEquation ==
  ASSUME NEW window, NEW first, NEW n \in Nat, NEW f, Layers(window, first, n, f)
  PROVE  Layered(window, first, n, f)
<1> DEFINE layer(k) == IF k = 0 THEN first ELSE Layer(window, f[k - 1])
<1>1. f = [k \in 0 .. n |-> layer(k)]
  BY DEF Layers
<1> HIDE DEF layer
<1>2. \A k \in 0 .. n : f[k] = layer(k)
  BY <1>1
<1>3. 0 \in 0 .. n /\ \A k \in 1 .. n : k \in 0 .. n /\ k # 0
  OBVIOUS
<1> QED BY <1>2, <1>3 DEF layer, Layered

LEMMA ClosureIsLayered ==
  ASSUME NEW window \in SUBSET Ops, NEW first \in SUBSET window
  PROVE  \E f : /\ Layers(window, first, Cardinality(window), f)
                /\ SuccessorClosure(window, first) = f[Cardinality(window)]
<1> DEFINE n == Cardinality(window)
           T == SUBSET window
           step == [s \in T |-> Layer(window, s)]
<1>1. n \in Nat
  BY SolverFacts, FS_Subset, FS_CardinalityType
<1>2. step \in [T -> T]
  BY DEF Layer
<1>3. SuccessorClosure(window, first) = (CHOOSE f : Layers(window, first, n, f))[n]
  BY DEF SuccessorClosure, Layers, Layer
<1>4. first \in T
  OBVIOUS
<1>5. \A s \in T : step[s] = Layer(window, s)
  OBVIOUS
<1> HIDE DEF n, T, step
<1>6. PICK f \in [0 .. n -> T] : f[0] = first /\ \A k \in 1 .. n : f[k] = step[f[k - 1]]
  <2>1. HasRun(T, first, step, n)
    BY <1>1, <1>2, <1>4, IterationExists
  <2> QED BY <2>1 DEF HasRun
<1> DEFINE layer(k) == IF k = 0 THEN first ELSE Layer(window, f[k - 1])
<1>7. \A k \in 0 .. n : f[k] = layer(k)
  <2>1. ASSUME NEW k \in 0 .. n, k # 0 PROVE f[k] = Layer(window, f[k - 1])
    <3>1. k \in 1 .. n /\ k - 1 \in 0 .. n
      BY <1>1, <2>1
    <3> QED BY <1>5, <1>6, <3>1
  <2> QED BY <1>6, <2>1
<1>8. f = [k \in 0 .. n |-> layer(k)]
  <2> HIDE DEF layer
  <2> QED BY <1>6, <1>7
<1>9. Layers(window, first, n, f)
  BY <1>8 DEF Layers
<1>10. Layers(window, first, n, CHOOSE g : Layers(window, first, n, g))
  BY <1>9
<1> QED BY <1>3, <1>10 DEF n

(* After as many layers as there are operations nothing is left to add. *)
LEMMA ClosureIsClosed ==
  ASSUME NEW window \in SUBSET Ops, NEW first \in SUBSET window
  PROVE  ClosedIn(window, SuccessorClosure(window, first))
<1> DEFINE n == Cardinality(window)
<1>1. IsFiniteSet(window) /\ n \in Nat
  BY SolverFacts, FS_Subset, FS_CardinalityType
<1>2. PICK f : Layers(window, first, n, f) /\ SuccessorClosure(window, first) = f[n]
  BY ClosureIsLayered
<1> HIDE DEF n
<1>3. f[0] = first /\ \A k \in 1 .. n : f[k] = Layer(window, f[k - 1])
  <2>1. Layered(window, first, n, f)
    BY <1>1, <1>2, LayersEquation
  <2> QED BY <2>1 DEF Layered
<1> DEFINE Grown(k) == /\ f[k] \subseteq window
                       /\ ClosedIn(window, f[k]) \/ Cardinality(f[k]) >= k
           Bad == {k \in 0 .. n : ~ Grown(k)}
<1>4. Bad = {}
  <2>1. SUFFICES ASSUME Bad # {} PROVE FALSE
    OBVIOUS
  <2>2. Bad \in SUBSET Nat
    BY <1>1
  <2>3. PICK k \in Bad : \A j \in Bad : k <= j
    <3> HIDE DEF Bad
    <3> QED BY <2>1, <2>2, LeastNatural
  <2>4. k \in 0 .. n /\ ~ Grown(k)
    BY <2>3
  <2>5. Grown(0)
    BY <1>1, <1>3, FS_Subset, FS_CardinalityType
  <2>6. k \in 1 .. n /\ k - 1 \in 0 .. n
    BY <1>1, <2>4, <2>5
  <2>7. k - 1 \notin Bad
    BY <2>3, <2>6
  <2>8. Grown(k - 1)
    BY <2>6, <2>7
  <2> DEFINE s == f[k - 1]
             t == f[k]
  <2>9. t = s \cup (Successors(s) \cap window) /\ s \subseteq window
    BY <1>3, <2>6, <2>8 DEF Layer
  <2>10. CASE ClosedIn(window, s)
    <3>1. t = s
      BY <2>9, <2>10 DEF ClosedIn
    <3>2. Grown(k)
      BY <2>8, <2>10, <3>1
    <3> QED BY <2>4, <3>2
  <2>11. CASE ~ ClosedIn(window, s)
    <3>1. Cardinality(s) >= k - 1
      BY <2>8, <2>11
    <3>2. PICK x \in Successors(s) \cap window : x \notin s
      BY <2>9, <2>11 DEF ClosedIn
    <3>3. x \in t /\ s \subseteq t /\ t \subseteq window
      BY <2>9, <3>2
    <3>4. IsFiniteSet(t) /\ IsFiniteSet(s)
      BY <1>1, <2>9, <3>3, FS_Subset
    <3> HIDE DEF s, t
    <3>5. Cardinality(s \cup {x}) = Cardinality(s) + 1 /\ IsFiniteSet(s \cup {x})
      BY <3>2, <3>4, FS_AddElement
    <3>6. s \cup {x} \subseteq t
      BY <3>3
    <3>7. Cardinality(s \cup {x}) <= Cardinality(t)
      BY <3>4, <3>6, FS_Subset
    <3>8. Cardinality(s) \in Nat /\ Cardinality(t) \in Nat
      BY <3>4, FS_CardinalityType
    <3>9. Cardinality(t) >= k
      BY <2>6, <3>1, <3>5, <3>7, <3>8
    <3>10. Grown(k)
      BY <3>3, <3>9 DEF t
    <3> QED BY <2>4, <3>10
  <2> QED BY <2>10, <2>11
<1>5. Grown(n)
  <2>1. n \in 0 .. n
    BY <1>1
  <2> QED BY <1>4, <2>1
<1>6. CASE ClosedIn(window, f[n])
  BY <1>2, <1>6
<1>7. CASE Cardinality(f[n]) >= n
  <2>1. IsFiniteSet(f[n]) /\ f[n] \subseteq window /\ Cardinality(f[n]) <= n /\ Cardinality(f[n]) \in Nat
    BY <1>1, <1>5, FS_Subset, FS_CardinalityType DEF n
  <2>2. Cardinality(f[n]) = n
    BY <1>1, <1>7, <2>1
  <2>3. f[n] = window
    BY <1>1, <2>1, <2>2, FS_Subset DEF n
  <2>4. ClosedIn(window, window)
    BY DEF ClosedIn
  <2> QED BY <1>2, <2>3, <2>4
<1> QED BY <1>5, <1>6, <1>7

LEMMA ClosedIsItsClosure ==
  ASSUME NEW window \in SUBSET Ops, NEW s, ClosedIn(window, s)
  PROVE  SuccessorClosure(window, s) = s
<1> DEFINE n == Cardinality(window)
<1>1. IsFiniteSet(window) /\ n \in Nat /\ s \in SUBSET window
  BY SolverFacts, FS_Subset, FS_CardinalityType DEF ClosedIn
<1>2. PICK f : Layers(window, s, n, f) /\ SuccessorClosure(window, s) = f[n]
  BY <1>1, ClosureIsLayered
<1> HIDE DEF n
<1>3. f[0] = s /\ \A k \in 1 .. n : f[k] = Layer(window, f[k - 1])
  <2>1. Layered(window, s, n, f)
    BY <1>1, <1>2, LayersEquation
  <2> QED BY <2>1 DEF Layered
<1> DEFINE Bad == {k \in 0 .. n : f[k] # s}
<1>4. Bad = {}
  <2>1. SUFFICES ASSUME Bad # {} PROVE FALSE
    OBVIOUS
  <2>2. Bad \in SUBSET Nat
    BY <1>1
  <2>3. PICK k \in Bad : \A j \in Bad : k <= j
    <3> HIDE DEF Bad
    <3> QED BY <2>1, <2>2, LeastNatural
  <2>4. k \in 1 .. n /\ k - 1 \in 0 .. n /\ f[k] # s
    BY <1>1, <1>3, <2>3
  <2>5. k - 1 \notin Bad
    BY <2>3, <2>4
  <2>6. f[k - 1] = s
    BY <2>4, <2>5
  <2>7. f[k] = Layer(window, s)
    BY <1>3, <2>4, <2>6
  <2> QED BY <2>4, <2>7 DEF Layer, ClosedIn
<1>5. n \in 0 .. n
  BY <1>1
<1> QED BY <1>2, <1>4, <1>5

(* The sets that are left when one root is taken back. *)
WithoutRoot(sets) ==
  UNION {{s \ {root} : root \in {o \in s : PredecessorOf[o] \notin s}} : s \in sets}

Takes(closed, n, f) ==
  f = [k \in 0 .. n |-> IF k = 0 THEN {closed} ELSE WithoutRoot(f[k - 1])]

Taken(closed, n, f) ==
  f[0] = {closed} /\ \A k \in 1 .. n : f[k] = WithoutRoot(f[k - 1])

LEMMA TakesEquation ==
  ASSUME NEW closed, NEW n \in Nat, NEW f, Takes(closed, n, f)
  PROVE  Taken(closed, n, f)
<1> DEFINE sets(k) == IF k = 0 THEN {closed} ELSE WithoutRoot(f[k - 1])
<1>1. f = [k \in 0 .. n |-> sets(k)]
  BY DEF Takes
<1> HIDE DEF sets
<1>2. \A k \in 0 .. n : f[k] = sets(k)
  BY <1>1
<1>3. 0 \in 0 .. n /\ \A k \in 1 .. n : k \in 0 .. n /\ k # 0
  OBVIOUS
<1> QED BY <1>2, <1>3 DEF sets, Taken

Surplus(closed, n) == Larger(Cardinality(closed) - n, 0)

LEMMA CapIsTaken ==
  ASSUME NEW closed, IsFiniteSet(closed), NEW n \in Nat
  PROVE  /\ Surplus(closed, n) \in Nat
         /\ \E f : /\ Takes(closed, Surplus(closed, n), f)
                   /\ CapPreservingClosure(closed, n) = f[Surplus(closed, n)]
<1> DEFINE m == Surplus(closed, n)
           T == SUBSET SUBSET closed
           step == [sets \in T |-> WithoutRoot(sets)]
<1>1. m \in Nat
  BY FS_CardinalityType DEF Surplus, Larger
<1>2. step \in [T -> T]
  BY DEF WithoutRoot
<1>3. CapPreservingClosure(closed, n) = (CHOOSE f : Takes(closed, m, f))[m]
  BY DEF CapPreservingClosure, Takes, WithoutRoot, Surplus
<1>4. {closed} \in T /\ \A sets \in T : step[sets] = WithoutRoot(sets)
  OBVIOUS
<1> HIDE DEF m, T, step
<1>5. PICK f \in [0 .. m -> T] : f[0] = {closed} /\ \A k \in 1 .. m : f[k] = step[f[k - 1]]
  <2> DEFINE base == {closed}
  <2>1. base \in T
    BY <1>4
  <2> HIDE DEF base
  <2>2. HasRun(T, base, step, m)
    BY <1>1, <1>2, <2>1, IterationExists
  <2> QED BY <2>2 DEF HasRun, base
<1> DEFINE sets(k) == IF k = 0 THEN {closed} ELSE WithoutRoot(f[k - 1])
<1>6. \A k \in 0 .. m : f[k] = sets(k)
  <2>1. ASSUME NEW k \in 0 .. m, k # 0 PROVE f[k] = WithoutRoot(f[k - 1])
    <3>1. k \in 1 .. m /\ k - 1 \in 0 .. m
      BY <1>1, <2>1
    <3> QED BY <1>4, <1>5, <3>1
  <2> QED BY <1>5, <2>1
<1>7. f = [k \in 0 .. m |-> sets(k)]
  <2> HIDE DEF sets
  <2> QED BY <1>5, <1>6
<1>8. Takes(closed, m, f)
  BY <1>7 DEF Takes
<1>9. Takes(closed, m, CHOOSE g : Takes(closed, m, g))
  BY <1>8
<1> QED BY <1>1, <1>3, <1>9 DEF m

(* Roots are taken back: what is left is closed, one operation smaller     *)
(* each time.                                                              *)
THEOREM CapKeepsClosed ==
  ASSUME NEW window \in SUBSET Ops, NEW closed, ClosedIn(window, closed), NEW n \in Nat,
         NEW s \in CapPreservingClosure(closed, n)
  PROVE  ClosedIn(window, s) /\ Cardinality(s) <= n
<1> DEFINE m == Surplus(closed, n)
           size == Cardinality(closed)
           Kin(k, t) == /\ t \subseteq closed /\ ClosedIn(window, t)
                        /\ IsFiniteSet(t) /\ Cardinality(t) = size - k
<1>1. IsFiniteSet(closed) /\ size \in Nat
  BY SolverFacts, FS_Subset, FS_CardinalityType DEF ClosedIn
<1>2. m \in Nat /\ \E f : Takes(closed, m, f) /\ CapPreservingClosure(closed, n) = f[m]
  BY <1>1, CapIsTaken
<1>3. PICK f : Takes(closed, m, f) /\ CapPreservingClosure(closed, n) = f[m]
  BY <1>2
<1>4. m = Larger(size - n, 0)
  BY DEF Surplus
<1> HIDE DEF m, size
<1>5. f[0] = {closed} /\ \A k \in 1 .. m : f[k] = WithoutRoot(f[k - 1])
  <2>1. Taken(closed, m, f)
    BY <1>2, <1>3, TakesEquation
  <2> QED BY <2>1 DEF Taken
<1> DEFINE Bad == {k \in 0 .. m : ~ \A t \in f[k] : Kin(k, t)}
<1>6. Bad = {}
  <2>1. SUFFICES ASSUME Bad # {} PROVE FALSE
    OBVIOUS
  <2>2. Bad \in SUBSET Nat
    BY <1>2
  <2>3. PICK k \in Bad : \A j \in Bad : k <= j
    <3> HIDE DEF Bad
    <3> QED BY <2>1, <2>2, LeastNatural
  <2>4. k \in 0 .. m /\ ~ \A t \in f[k] : Kin(k, t)
    BY <2>3
  <2>5. \A t \in f[0] : Kin(0, t)
    BY <1>1, <1>5 DEF size
  <2>6. k \in 1 .. m /\ k - 1 \in 0 .. m
    <3>1. k # 0
      BY <2>4, <2>5
    <3> QED BY <1>2, <2>4, <3>1
  <2>7. k - 1 \notin Bad
    <3> HIDE DEF Bad
    <3> QED BY <2>3, <2>6
  <2>8. \A t \in f[k - 1] : Kin(k - 1, t)
    BY <2>6, <2>7
  <2>9. ASSUME NEW t \in f[k] PROVE Kin(k, t)
    <3>1. t \in WithoutRoot(f[k - 1])
      BY <1>5, <2>6, <2>9
    <3>2. PICK u \in f[k - 1] : \E root \in {o \in u : PredecessorOf[o] \notin u} : t = u \ {root}
      BY <3>1 DEF WithoutRoot
    <3> PICK root \in {o \in u : PredecessorOf[o] \notin u} : t = u \ {root}
      BY <3>2
    <3>3. /\ u \subseteq closed /\ ClosedIn(window, u)
          /\ IsFiniteSet(u) /\ Cardinality(u) = size - (k - 1)
      BY <2>8
    <3>4. root \in u /\ PredecessorOf[root] \notin u
      OBVIOUS
    <3>5. t \subseteq closed /\ ClosedIn(window, t)
      BY <3>3, <3>4 DEF ClosedIn, Successors
    <3>6. IsFiniteSet(t) /\ Cardinality(t) = Cardinality(u) - 1
      BY <3>3, <3>4, FS_RemoveElement
    <3>7. Cardinality(t) = size - k
      BY <1>1, <2>6, <3>3, <3>6
    <3> QED BY <3>5, <3>6, <3>7
  <2> QED BY <2>4, <2>9
<1>7. m \in 0 .. m /\ s \in f[m]
  BY <1>2, <1>3
<1>8. Kin(m, s)
  BY <1>6, <1>7
<1>9. size - m <= n
  BY <1>1, <1>4 DEF Larger
<1> QED BY <1>8, <1>9

-----------------------------------------------------------------------------
(* What the destroy operators pick is placed. *)

LEMMA ForemostArePart ==
  ASSUME NEW ops, NEW n, NEW key, NEW s \in Foremost(ops, n, key)
  PROVE  s \subseteq ops
BY DEF Foremost, kSubset

(* The operation among some that finishes last, or none. *)
FinishingLast(at, ops) ==
  IF ops = {} THEN None ELSE CHOOSE p \in ops : \A q \in ops : at[q].end <= at[p].end

LEMMA FinishingLastIsOne ==
  ASSUME NEW at, Typed(at), NEW ops, ops \subseteq DOMAIN at
  PROVE  FinishingLast(at, ops) \in ops \cup {None}
<1>1. CASE ops = {}
  BY <1>1 DEF FinishingLast
<1>2. CASE ops # {}
  <2> DEFINE ends == [o \in ops |-> at[o].end]
  <2>1. ends \in [ops -> Int]
    BY TypedFacts
  <2>2. IsFiniteSet(ops)
    BY SolverFacts, FS_Subset DEF Typed, Timeline
  <2>3. PICK p \in ops : \A q \in ops : ends[q] <= ends[p]
    <3> HIDE DEF ends
    <3> QED BY <1>2, <2>1, <2>2, LargestElement
  <2>4. \A q \in ops : at[q].end <= at[p].end
    BY <2>3
  <2>5. FinishingLast(at, ops) = CHOOSE x \in ops : \A q \in ops : at[q].end <= at[x].end
    BY <1>2 DEF FinishingLast
  <2> QED BY <2>4, <2>5
<1> QED BY <1>1, <1>2

LEMMA TightOnesArePlaced ==
  ASSUME NEW at, Typed(at), NEW o \in DOMAIN at
  PROVE  TightPredecessors(at, o) \subseteq DOMAIN at
<1>1. Predecessor(at, o) \in DOMAIN at \cup {None}
  BY PredecessorFollows DEF Typed
<1>2. BlockingHolders(at, o) \subseteq DOMAIN at
  BY DEF BlockingHolders
<1> HIDE DEF Predecessor
<1> QED BY <1>1, <1>2 DEF TightPredecessors

(* One more step of the walk over the critical chain. *)
Back(at, o) == IF o = None THEN None ELSE FinishingLast(at, TightPredecessors(at, o))

Walks(at, n, f) ==
  f = [k \in 1 .. n |-> IF k = 1 THEN FinishingLast(at, MakespanOps(at)) ELSE Back(at, f[k - 1])]

Walked(at, n, f) ==
  /\ DOMAIN f = 1 .. n
  /\ \A k \in 1 .. n :
       f[k] = IF k = 1 THEN FinishingLast(at, MakespanOps(at)) ELSE Back(at, f[k - 1])

LEMMA WalksEquation ==
  ASSUME NEW at, NEW n \in Nat, NEW f, Walks(at, n, f)
  PROVE  Walked(at, n, f)
<1> DEFINE stop(k) == IF k = 1 THEN FinishingLast(at, MakespanOps(at)) ELSE Back(at, f[k - 1])
<1>1. f = [k \in 1 .. n |-> stop(k)]
  BY DEF Walks
<1> HIDE DEF stop
<1>2. DOMAIN f = 1 .. n /\ \A k \in 1 .. n : f[k] = stop(k)
  BY <1>1
<1> QED BY <1>2 DEF stop, Walked

LEMMA WalkExists ==
  ASSUME NEW at, Typed(at)
  PROVE  /\ Cardinality(DOMAIN at) \in Nat
         /\ \E f : Walks(at, Cardinality(DOMAIN at), f)
<1> DEFINE n == Cardinality(DOMAIN at)
           T == DOMAIN at \cup {None}
           first == FinishingLast(at, MakespanOps(at))
           step == [o \in T |-> Back(at, o)]
<1>1. n \in Nat
  BY SolverFacts, FS_Subset, FS_CardinalityType DEF Typed, Timeline
<1>2. first \in T
  <2>1. MakespanOps(at) \subseteq DOMAIN at
    BY DEF MakespanOps
  <2> QED BY <2>1, FinishingLastIsOne
<1>3. \A o \in T : Back(at, o) \in T
  <2>1. ASSUME NEW o \in DOMAIN at PROVE FinishingLast(at, TightPredecessors(at, o)) \in T
    <3> DEFINE ops == TightPredecessors(at, o)
    <3>1. ops \subseteq DOMAIN at
      BY TightOnesArePlaced
    <3> HIDE DEF ops
    <3>2. FinishingLast(at, ops) \in ops \cup {None}
      BY <3>1, FinishingLastIsOne
    <3>3. FinishingLast(at, ops) \in T
      BY <3>1, <3>2
    <3> QED BY <3>3 DEF ops
  <2> QED BY <2>1 DEF Back
<1>4. step \in [T -> T] /\ \A o \in T : step[o] = Back(at, o)
  BY <1>3
<1> HIDE DEF n, T, first, step
<1>5. PICK g \in [0 .. n -> T] : g[0] = first /\ \A k \in 1 .. n : g[k] = step[g[k - 1]]
  <2>1. HasRun(T, first, step, n)
    BY <1>1, <1>2, <1>4, IterationExists
  <2> QED BY <2>1 DEF HasRun
<1> DEFINE f == [k \in 1 .. n |-> g[k - 1]]
           stop(k) == IF k = 1 THEN first ELSE Back(at, f[k - 1])
<1>6. ASSUME NEW k \in 1 .. n PROVE f[k] = stop(k)
  <2>1. CASE k = 1
    BY <1>5, <2>1
  <2>2. CASE k # 1
    <3>1. k - 1 \in 1 .. n /\ k - 1 - 1 \in 0 .. n /\ k \in 1 .. n
      BY <1>1, <2>2
    <3>2. f[k] = g[k - 1] /\ f[k - 1] = g[k - 1 - 1]
      BY <3>1
    <3>3. g[k - 1] = step[g[k - 1 - 1]] /\ g[k - 1 - 1] \in T
      BY <1>5, <3>1
    <3>4. f[k] = Back(at, f[k - 1])
      BY <1>4, <3>2, <3>3
    <3> QED BY <2>2, <3>4
  <2> QED BY <2>1, <2>2
<1>7. f = [k \in 1 .. n |-> stop(k)]
  <2>1. f = [k \in 1 .. n |-> f[k]]
    OBVIOUS
  <2> HIDE DEF f, stop
  <2> QED BY <1>6, <2>1
<1>8. Walks(at, n, f)
  BY <1>7 DEF Walks, first
<1> QED BY <1>1, <1>8 DEF n

LEMMA ChainIsPlaced ==
  ASSUME NEW at, Typed(at)
  PROVE  CriticalChain(at) \subseteq DOMAIN at
<1> DEFINE n == Cardinality(DOMAIN at)
           walk == CHOOSE f : Walks(at, n, f)
<1>1. n \in Nat /\ Walks(at, n, walk)
  BY WalkExists
<1>2. CriticalChain(at) = {walk[k] : k \in DOMAIN walk} \ {None}
  BY DEF CriticalChain, Walks, Back, FinishingLast
<1> HIDE DEF n, walk
<1>3. /\ DOMAIN walk = 1 .. n
      /\ \A k \in 1 .. n :
           walk[k] = IF k = 1 THEN FinishingLast(at, MakespanOps(at)) ELSE Back(at, walk[k - 1])
  <2>1. Walked(at, n, walk)
    BY <1>1, WalksEquation
  <2> QED BY <2>1 DEF Walked
<1> DEFINE Bad == {k \in 1 .. n : walk[k] \notin DOMAIN at \cup {None}}
<1>4. Bad = {}
  <2>1. SUFFICES ASSUME Bad # {} PROVE FALSE
    OBVIOUS
  <2>2. Bad \in SUBSET Nat
    BY <1>1
  <2>3. PICK k \in Bad : \A j \in Bad : k <= j
    <3> HIDE DEF Bad
    <3> QED BY <2>1, <2>2, LeastNatural
  <2>4. k \in 1 .. n /\ walk[k] \notin DOMAIN at \cup {None}
    BY <2>3
  <2>5. CASE k = 1
    <3> DEFINE ops == MakespanOps(at)
    <3>1. ops \subseteq DOMAIN at
      BY DEF MakespanOps
    <3>2. walk[k] = FinishingLast(at, ops)
      BY <1>3, <2>4, <2>5
    <3> HIDE DEF ops
    <3>3. FinishingLast(at, ops) \in ops \cup {None}
      BY <3>1, FinishingLastIsOne
    <3> QED BY <2>4, <3>1, <3>2, <3>3
  <2>6. CASE k # 1
    <3>1. k - 1 \in 1 .. n
      BY <1>1, <2>4, <2>6
    <3>2. k - 1 \notin Bad
      <4> HIDE DEF Bad
      <4> QED BY <1>1, <2>3, <2>4, <3>1
    <3>3. walk[k - 1] \in DOMAIN at \cup {None}
      BY <3>1, <3>2
    <3> DEFINE o == walk[k - 1]
               ops == TightPredecessors(at, o)
    <3>4. walk[k] = Back(at, o)
      BY <1>3, <2>4, <2>6
    <3>5. o \in DOMAIN at => ops \subseteq DOMAIN at
      BY TightOnesArePlaced
    <3>6. walk[k] = IF o = None THEN None ELSE FinishingLast(at, ops)
      BY <3>4 DEF Back
    <3>7. o \in DOMAIN at \cup {None}
      BY <3>3
    <3> HIDE DEF ops, o
    <3>8. ops \subseteq DOMAIN at => FinishingLast(at, ops) \in ops \cup {None}
      BY FinishingLastIsOne
    <3> QED BY <2>4, <3>5, <3>6, <3>7, <3>8
  <2> QED BY <2>5, <2>6
<1> QED BY <1>2, <1>3, <1>4

(* One more layer of the operations on critical paths. *)
Reach(at, ops) == ops \cup UNION {TightPredecessors(at, o) : o \in ops}

Reaches(at, n, f) ==
  f = [k \in 0 .. n |-> IF k = 0 THEN MakespanOps(at) ELSE Reach(at, f[k - 1])]

Reached(at, n, f) ==
  f[0] = MakespanOps(at) /\ \A k \in 1 .. n : f[k] = Reach(at, f[k - 1])

LEMMA ReachesEquation ==
  ASSUME NEW at, NEW n \in Nat, NEW f, Reaches(at, n, f)
  PROVE  Reached(at, n, f)
<1> DEFINE stop(k) == IF k = 0 THEN MakespanOps(at) ELSE Reach(at, f[k - 1])
<1>1. f = [k \in 0 .. n |-> stop(k)]
  BY DEF Reaches
<1> HIDE DEF stop
<1>2. \A k \in 0 .. n : f[k] = stop(k)
  BY <1>1
<1>3. 0 \in 0 .. n /\ \A k \in 1 .. n : k \in 0 .. n /\ k # 0
  OBVIOUS
<1> QED BY <1>2, <1>3 DEF stop, Reached

LEMMA CriticalOnesArePlaced ==
  ASSUME NEW at, Typed(at)
  PROVE  OnCriticalPaths(at) \subseteq DOMAIN at
<1> DEFINE n == Cardinality(DOMAIN at)
           T == SUBSET DOMAIN at
           first == MakespanOps(at)
           step == [ops \in T |-> Reach(at, ops)]
           reach == CHOOSE f : Reaches(at, n, f)
<1>1. n \in Nat
  BY WalkExists
<1>2. first \in T
  BY DEF MakespanOps
<1>3. \A ops \in T : Reach(at, ops) \in T
  BY TightOnesArePlaced DEF Reach
<1>4. step \in [T -> T] /\ \A ops \in T : step[ops] = Reach(at, ops)
  BY <1>3
<1>5. OnCriticalPaths(at) = reach[n]
  BY DEF OnCriticalPaths, Reaches, Reach
<1> HIDE DEF n, step, reach
<1>6. PICK f \in [0 .. n -> T] : f[0] = first /\ \A k \in 1 .. n : f[k] = step[f[k - 1]]
  <2> HIDE DEF T, first
  <2>1. HasRun(T, first, step, n)
    BY <1>1, <1>2, <1>4, IterationExists
  <2> QED BY <2>1 DEF HasRun
<1> DEFINE stop(k) == IF k = 0 THEN MakespanOps(at) ELSE Reach(at, f[k - 1])
<1>7. \A k \in 0 .. n : f[k] = stop(k)
  <2>1. ASSUME NEW k \in 0 .. n, k # 0 PROVE f[k] = Reach(at, f[k - 1])
    <3>1. k \in 1 .. n /\ k - 1 \in 0 .. n
      BY <1>1, <2>1
    <3> HIDE DEF T
    <3> QED BY <1>4, <1>6, <3>1
  <2> QED BY <1>6, <2>1
<1>8. f = [k \in 0 .. n |-> stop(k)]
  <2> HIDE DEF stop
  <2> QED BY <1>6, <1>7
<1>9. Reaches(at, n, f)
  BY <1>8 DEF Reaches
<1>10. Reaches(at, n, reach)
  BY <1>9 DEF reach
<1>11. reach[0] = first /\ \A k \in 1 .. n : reach[k] = Reach(at, reach[k - 1])
  <2>1. Reached(at, n, reach)
    BY <1>1, <1>10, ReachesEquation
  <2> QED BY <2>1 DEF Reached
<1> DEFINE Bad == {k \in 0 .. n : reach[k] \notin T}
<1>12. Bad = {}
  <2> HIDE DEF T, first
  <2>1. SUFFICES ASSUME Bad # {} PROVE FALSE
    OBVIOUS
  <2>2. Bad \in SUBSET Nat
    BY <1>1
  <2>3. PICK k \in Bad : \A j \in Bad : k <= j
    <3> HIDE DEF Bad
    <3> QED BY <2>1, <2>2, LeastNatural
  <2>4. k \in 1 .. n /\ k - 1 \in 0 .. n /\ reach[k] \notin T
    BY <1>1, <1>2, <1>11, <2>3
  <2>5. k - 1 \notin Bad
    <3> HIDE DEF Bad
    <3> QED BY <2>3, <2>4
  <2>6. reach[k - 1] \in T
    BY <2>4, <2>5
  <2> QED BY <1>3, <1>11, <2>4, <2>6
<1>13. n \in 0 .. n
  BY <1>1
<1> QED BY <1>5, <1>12, <1>13

LEMMA SelectionsArePlaced ==
  ASSUME NEW at, Typed(at), NEW n, NEW s \in Selections(at, n)
  PROVE  s \subseteq DOMAIN at
<1>1. ASSUME NEW f, NEW t \in DestroyRandom(f, n) PROVE t \subseteq DOMAIN f
  BY <1>1, ForemostArePart DEF DestroyRandom
<1>2. CASE s \in DestroyRandom(at, n) \/ s \in DestroyWorst(at, n)
  BY <1>1, <1>2 DEF DestroyWorst
<1>3. CASE s \in DestroyRelated(at, n)
  <2>1. PICK x \in DOMAIN at : \E t \in Foremost(DOMAIN at \ {x}, n - 1, RelatednessTo(at, x)) : s = {x} \cup t
    BY <1>3 DEF DestroyRelated
  <2>2. PICK t \in Foremost(DOMAIN at \ {x}, n - 1, RelatednessTo(at, x)) : s = {x} \cup t
    BY <2>1
  <2>3. t \subseteq DOMAIN at \ {x}
    BY ForemostArePart
  <2> QED BY <2>2, <2>3
<1>4. CASE s \in DestroyMachineSegment(at, n)
  <2>1. s \in DestroyRandom(at, n) \/ \E m \in Machines : s \in DestroyRandom([o \in On(at, m) |-> at[o]], n)
    BY <1>4 DEF DestroyMachineSegment
  <2>2. \A m \in Machines : On(at, m) \subseteq DOMAIN at
    BY DEF On
  <2>3. \A m \in Machines : DOMAIN [o \in On(at, m) |-> at[o]] = On(at, m)
    OBVIOUS
  <2>4. ASSUME NEW m \in Machines, s \in DestroyRandom([o \in On(at, m) |-> at[o]], n) PROVE s \subseteq DOMAIN at
    BY <1>1, <2>2, <2>3, <2>4
  <2> QED BY <1>1, <2>1, <2>4
<1>5. CASE s \in DestroyPrecedenceChain(at, n)
  <2> DEFINE of(r) == {o \in DOMAIN at : OrderOf[o] = r}
  <2>1. (\E r \in Orders : s = of(r)) \/ \E r \in Orders : s \in DestroyRandom([o \in of(r) |-> at[o]], n)
    BY <1>5 DEF DestroyPrecedenceChain
  <2>2. \A r \in Orders : of(r) \subseteq DOMAIN at /\ DOMAIN [o \in of(r) |-> at[o]] = of(r)
    OBVIOUS
  <2> HIDE DEF of
  <2>3. ASSUME NEW r \in Orders, s \in DestroyRandom([o \in of(r) |-> at[o]], n) PROVE s \subseteq DOMAIN at
    BY <1>1, <2>2, <2>3
  <2> QED BY <2>1, <2>2, <2>3
<1>6. CASE s \in DestroyCriticalPath(at, n)
  <2> DEFINE chain == CriticalChain(at)
  <2>1. chain \subseteq DOMAIN at /\ OnCriticalPaths(at) \subseteq DOMAIN at
    BY ChainIsPlaced, CriticalOnesArePlaced
  <2>2. \/ s \in Foremost(chain, n, EndsOf(at))
        \/ \E filled \in FillOtherCriticalOps(at, chain, n) : s \in ExtendWithMachineNeighbours(at, filled, n)
    BY <1>6 DEF DestroyCriticalPath
  <2>3. CASE s \in Foremost(chain, n, EndsOf(at))
    <3> HIDE DEF chain
    <3>1. s \subseteq chain
      BY <2>3, ForemostArePart
    <3> QED BY <2>1, <3>1
  <2>4. CASE \E filled \in FillOtherCriticalOps(at, chain, n) : s \in ExtendWithMachineNeighbours(at, filled, n)
    <3>1. PICK filled \in FillOtherCriticalOps(at, chain, n) : s \in ExtendWithMachineNeighbours(at, filled, n)
      BY <2>4
    <3> HIDE DEF chain
    <3>2. filled \subseteq DOMAIN at
      <4>1. PICK t \in Foremost(OnCriticalPaths(at) \ chain, n - Cardinality(chain), EndsOf(at)) : filled = chain \cup t
        BY <3>1 DEF FillOtherCriticalOps
      <4>2. t \subseteq OnCriticalPaths(at)
        BY ForemostArePart
      <4> QED BY <2>1, <4>1, <4>2
    <3>3. PICK t \in Foremost(MachineNeighbours(at, filled), n - Cardinality(filled), SetupsAround(at)) : s = filled \cup t
      BY <3>1 DEF ExtendWithMachineNeighbours
    <3>4. t \subseteq MachineNeighbours(at, filled)
      BY ForemostArePart
    <3>5. MachineNeighbours(at, filled) \subseteq DOMAIN at
      BY DEF MachineNeighbours
    <3> QED BY <3>2, <3>3, <3>4, <3>5
  <2> QED BY <2>2, <2>3, <2>4
<1>7. CASE s \in DestroyDuePressure(at, n)
  <2>1. PICK pool \in SUBSET DOMAIN at : s \in DestroyRandom([o \in pool |-> at[o]], n)
    BY <1>7 DEF DestroyDuePressure
  <2>2. DOMAIN [o \in pool |-> at[o]] = pool
    OBVIOUS
  <2> QED BY <1>1, <2>1, <2>2
<1> QED BY <1>2, <1>3, <1>4, <1>5, <1>6, <1>7 DEF Selections

LEMMA MachineSetupIsTotal ==
  ASSUME NEW at, NEW m
  PROVE  MachineSetup(at, m) = Total(SetupOf(at), On(at, m))
<1> DEFINE S == On(at, m)
           f == SetupOf(at)
           term(u) == ActualSetup(at, CHOOSE x \in u : TRUE)
           rest(u) == u \ {CHOOSE x \in u : TRUE}
           g1 == CHOOSE g : g = [u \in SUBSET S |-> IF u = {} THEN 0 ELSE term(u) + g[rest(u)]]
<1>1. MachineSetup(at, m) = g1[S]
  BY DEF MachineSetup, MapThenSumSet, MapThenFoldSet
<1>2. \A u \in SUBSET S : u # {} => f[Pick(u)] = term(u)
  <2>1. S \subseteq DOMAIN at
    BY DEF On
  <2> HIDE DEF S
  <2> QED BY <2>1, PickIsElement DEF SetupOf, Pick
<1>3. \A u : rest(u) = u \ {Pick(u)}
  BY DEF Pick
<1> HIDE DEF S, f, term, rest
<1>4. \A g : Sums(f, S, g) <=>
               g = [u \in SUBSET S |-> IF u = {} THEN 0 ELSE term(u) + g[rest(u)]]
  <2>1. TAKE g
  <2> DEFINE a(u) == IF u = {} THEN 0 ELSE f[Pick(u)] + g[u \ {Pick(u)}]
             b(u) == IF u = {} THEN 0 ELSE term(u) + g[rest(u)]
  <2>2. \A u \in SUBSET S : a(u) = b(u)
    BY <1>2, <1>3
  <2>3. Sums(f, S, g) <=> g = [u \in SUBSET S |-> a(u)]
    BY DEF Sums
  <2> HIDE DEF a, b
  <2>4. [u \in SUBSET S |-> a(u)] = [u \in SUBSET S |-> b(u)]
    BY <2>2
  <2>5. Sums(f, S, g) <=> g = [u \in SUBSET S |-> b(u)]
    BY <2>3, <2>4
  <2> QED BY <2>5 DEF b
<1>5. (CHOOSE g : Sums(f, S, g)) = g1
  BY <1>4
<1> QED BY <1>1, <1>5 DEF Total, S, f

(* The setups of the machines add up to those of the schedule. *)
MachineSetups(at) == [m \in UsedMachines(at) |-> MachineSetup(at, m)]

LEMMA SetupOfIsNat ==
  ASSUME NEW at, Typed(at)
  PROVE  IsFiniteSet(DOMAIN at) /\ \A o \in DOMAIN at : SetupOf(at)[o] \in Nat
<1>1. IsFiniteSet(DOMAIN at)
  BY SolverFacts, FS_Subset DEF Typed, Timeline
<1>2. ASSUME NEW o \in DOMAIN at PROVE SetupOf(at)[o] \in Nat
  <2>1. SetupOf(at)[o] = ActualSetup(at, o)
    BY DEF SetupOf
  <2> QED BY <2>1, ActualSetupIsNat DEF Typed
<1> QED BY <1>1, <1>2

LEMMA SetupsAddUp ==
  ASSUME NEW at, Typed(at)
  PROVE  Total(MachineSetups(at), UsedMachines(at)) = TotalSetup(at)
<1> DEFINE g == SetupOf(at)
           h == MachineSetups(at)
           M == UsedMachines(at)
           part(u) == {o \in DOMAIN at : at[o].wc \in u}
           Bad == {u \in SUBSET M : Total(h, u) # Total(g, part(u))}
<1>1. IsFiniteSet(DOMAIN at) /\ \A o \in DOMAIN at : g[o] \in Nat
  BY SetupOfIsNat
<1>2. IsFiniteSet(M)
  <2>1. M \subseteq Machines
    BY TypedFacts DEF UsedMachines
  <2> QED BY <2>1, SolverFacts, FS_Subset
<1>3. \A m \in M : h[m] = Total(g, On(at, m))
  BY MachineSetupIsTotal DEF MachineSetups
<1>4. TotalSetup(at) = Total(g, part(M))
  <2>1. part(M) = DOMAIN at
    BY DEF UsedMachines
  <2> QED BY <2>1, SetupIsTotal
<1> HIDE DEF g, h, M
<1>5. \A S \in SUBSET DOMAIN at : IsFiniteSet(S) /\ Total(g, S) \in Nat
  <2>1. ASSUME NEW S \in SUBSET DOMAIN at PROVE IsFiniteSet(S) /\ Total(g, S) \in Nat
    BY <1>1, FS_Subset, TotalIsNat
  <2> QED BY <2>1
<1>6. \A m \in M : h[m] \in Nat /\ On(at, m) \in SUBSET DOMAIN at
  BY <1>3, <1>5 DEF On
<1>7. Bad = {}
  <2>1. SUFFICES ASSUME Bad # {} PROVE FALSE
    OBVIOUS
  <2>2. PICK u \in Bad : \A v \in SUBSET u : v \in Bad => v = u
    <3>1. Bad \in SUBSET SUBSET M
      OBVIOUS
    <3> HIDE DEF Bad
    <3> QED BY <1>2, <2>1, <3>1, MinimalSubset
  <2>3. u \in SUBSET M /\ Total(h, u) # Total(g, part(u))
    BY <2>2
  <2>4. u # {}
    <3>1. Total(h, {}) = 0 /\ Total(g, {}) = 0
      BY <1>1, <1>2, <1>6, TotalSteps
    <3>2. part({}) = {}
      OBVIOUS
    <3> QED BY <2>3, <3>1, <3>2
  <2>5. PICK m \in u : TRUE
    BY <2>4
  <2> DEFINE v == u \ {m}
             here == On(at, m)
             there == part(v)
  <2>6. Total(h, v) = Total(g, there)
    <3>1. v \notin Bad
      BY <2>2, <2>5
    <3> QED BY <2>3, <3>1
  <2>7. Total(h, u) = h[m] + Total(h, v)
    <3>1. IsFiniteSet(u) /\ \A x \in u : h[x] \in Nat
      BY <1>2, <1>6, <2>3, FS_Subset
    <3> QED BY <2>5, <3>1, TotalWithout
  <2>8. /\ here \in SUBSET DOMAIN at /\ there \in SUBSET DOMAIN at
        /\ here \cap there = {} /\ here \cup there = part(u)
    BY <2>5 DEF On
  <2> HIDE DEF part, here, there, v, Bad
  <2>9. Total(g, here \cup there) = Total(g, here) + Total(g, there)
    BY <1>1, <2>8, TotalOfUnion
  <2>10. h[m] = Total(g, here)
    BY <1>3, <2>3, <2>5 DEF here
  <2> QED BY <2>3, <2>6, <2>7, <2>8, <2>9, <2>10
<1>8. Total(h, M) = Total(g, part(M))
  BY <1>7
<1> QED BY <1>4, <1>8 DEF h, M

-----------------------------------------------------------------------------
(* What a schedule costs. *)

LEMMA SequenceDecidesSetup ==
  ASSUME NEW at, NEW new, NEW m, On(new, m) = On(at, m),
         \A o \in On(at, m) : new[o].start = at[o].start, NEW x \in On(at, m)
  PROVE  ActualSetup(new, x) = ActualSetup(at, x)
<1>1. at[x].wc = m /\ new[x].wc = m
  BY DEF On
<1> DEFINE near == On(at, m) \cup {None}
<1>2. \A p \in near : Follows(new, m, p, x) <=> Follows(at, m, p, x)
  BY DEF Follows
<1>3. /\ Predecessor(at, x) = CHOOSE p \in near : Follows(at, m, p, x)
      /\ Predecessor(new, x) = CHOOSE p \in near : Follows(new, m, p, x)
  BY <1>1 DEF Predecessor
<1> HIDE DEF near
<1>4. Predecessor(new, x) = Predecessor(at, x)
  BY <1>2, <1>3
<1> QED BY <1>1, <1>4 DEF ActualSetup

(* Two schedules with the same machines and times. *)
SameTimes(new, at) ==
  /\ DOMAIN new = DOMAIN at
  /\ \A o \in DOMAIN at :
       new[o].wc = at[o].wc /\ new[o].start = at[o].start /\ new[o].end = at[o].end

Lateness(at) == [r \in Orders |-> LatenessOf(at, r)]

LEMMA TotalTardinessIsTotal ==
  ASSUME NEW at
  PROVE  TotalTardiness(at) = Total(Lateness(at), Orders)
<1> DEFINE S == Orders
           f == Lateness(at)
           term(u) == LatenessOf(at, CHOOSE x \in u : TRUE)
           rest(u) == u \ {CHOOSE x \in u : TRUE}
           g1 == CHOOSE g : g = [u \in SUBSET S |-> IF u = {} THEN 0 ELSE term(u) + g[rest(u)]]
<1>1. TotalTardiness(at) = g1[S]
  BY DEF TotalTardiness, MapThenSumSet, MapThenFoldSet
<1>2. \A u \in SUBSET S : u # {} => f[Pick(u)] = term(u)
  BY PickIsElement DEF Lateness, Pick
<1>3. \A u : rest(u) = u \ {Pick(u)}
  BY DEF Pick
<1> HIDE DEF S, f, term, rest
<1>4. \A g : Sums(f, S, g) <=>
               g = [u \in SUBSET S |-> IF u = {} THEN 0 ELSE term(u) + g[rest(u)]]
  <2>1. TAKE g
  <2> DEFINE a(u) == IF u = {} THEN 0 ELSE f[Pick(u)] + g[u \ {Pick(u)}]
             b(u) == IF u = {} THEN 0 ELSE term(u) + g[rest(u)]
  <2>2. \A u \in SUBSET S : a(u) = b(u)
    BY <1>2, <1>3
  <2>3. Sums(f, S, g) <=> g = [u \in SUBSET S |-> a(u)]
    BY DEF Sums
  <2> HIDE DEF a, b
  <2>4. [u \in SUBSET S |-> a(u)] = [u \in SUBSET S |-> b(u)]
    BY <2>2
  <2>5. Sums(f, S, g) <=> g = [u \in SUBSET S |-> b(u)]
    BY <2>3, <2>4
  <2> QED BY <2>5 DEF b
<1>5. (CHOOSE g : Sums(f, S, g)) = g1
  BY <1>4
<1> QED BY <1>1, <1>5 DEF Total, S, f

LEMMA CompletionIsNat ==
  ASSUME NEW at, Typed(at), NEW r
  PROVE  Completion(at, r) \in Nat
<1>1. IsFiniteSet(DOMAIN at)
  BY SetupOfIsNat
<1>2. CompletionOf(at, r) \in Nat
  BY <1>1, CompletionFacts
<1> QED BY <1>2, SolverFacts DEF Completion, CompletionOf, OfOrder

LEMMA ValueFacts ==
  ASSUME NEW at, Typed(at)
  PROVE  Makespan(at) \in Nat /\ TotalSetup(at) \in Nat /\ TotalTardiness(at) \in Nat
<1>1. IsFiniteSet(DOMAIN at) /\ \A o \in DOMAIN at : SetupOf(at)[o] \in Nat
  BY SetupOfIsNat
<1>2. Makespan(at) \in Nat
  BY <1>1, MakespanFacts
<1>3. TotalSetup(at) \in Nat
  <2> DEFINE f == SetupOf(at)
             S == DOMAIN at
  <2>1. IsFiniteSet(S) /\ \A o \in S : f[o] \in Nat
    BY <1>1
  <2> HIDE DEF f, S
  <2>2. Total(f, S) \in Nat
    BY <2>1, TotalIsNat
  <2> QED BY <2>2, SetupIsTotal DEF f, S
<1>4. TotalTardiness(at) \in Nat
  <2> DEFINE f == Lateness(at)
  <2>1. \A r \in Orders : f[r] \in Nat
    BY CompletionIsNat, SolverFacts DEF Lateness, LatenessOf, Larger
  <2> HIDE DEF f
  <2>2. Total(f, Orders) \in Nat
    BY <2>1, SolverFacts, TotalIsNat
  <2> QED BY <2>2, TotalTardinessIsTotal DEF f
<1> QED BY <1>2, <1>3, <1>4

CostOfPlan(at) == ScalarCost(evaluate(at))

LEMMA CostFacts ==
  ASSUME NEW v, v.makespan \in Nat, v.setup \in Nat, v.tardiness \in Nat
  PROVE  /\ ScalarCost(v) = Weights.makespan * v.makespan + Weights.setup * v.setup
                            + Weights.tardiness * v.tardiness
         /\ ScalarCost(v) \in Nat
<1>1. Weights.makespan \in Nat /\ Weights.setup \in Nat /\ Weights.tardiness \in Nat
  BY AlnsRunAssumption DEF AlnsRunAssumption
<1>2. /\ Weights.makespan * v.makespan \in Nat /\ Weights.setup * v.setup \in Nat
      /\ Weights.tardiness * v.tardiness \in Nat
  BY <1>1
<1> QED BY <1>2 DEF ScalarCost, scalarize

LEMMA PlanCostFacts ==
  ASSUME NEW at, Typed(at)
  PROVE  CostOfPlan(at) \in Nat
<1>1. /\ evaluate(at).makespan \in Nat /\ evaluate(at).setup \in Nat
      /\ evaluate(at).tardiness \in Nat
  BY ValueFacts DEF evaluate
<1> QED BY <1>1, CostFacts DEF CostOfPlan

(* Setups are those of the sequence, whatever is stamped. *)
LEMMA SameTimesSameCost ==
  ASSUME NEW at, Typed(at), NEW new, SameTimes(new, at)
  PROVE  CostOfPlan(new) = CostOfPlan(at)
<1>1. /\ DOMAIN new = DOMAIN at
      /\ \A o \in DOMAIN at :
           new[o].wc = at[o].wc /\ new[o].start = at[o].start /\ new[o].end = at[o].end
  BY DEF SameTimes
<1>2. Makespan(new) = Makespan(at)
  BY <1>1 DEF Makespan
<1>3. TotalSetup(new) = TotalSetup(at)
  <2>1. ASSUME NEW x \in DOMAIN at PROVE ActualSetup(new, x) = ActualSetup(at, x)
    <3> DEFINE m == at[x].wc
    <3>1. On(new, m) = On(at, m)
      BY <1>1 DEF On
    <3>2. x \in On(at, m) /\ \A o \in On(at, m) : new[o].start = at[o].start
      BY <1>1 DEF On
    <3> HIDE DEF m
    <3> QED BY <3>1, <3>2, SequenceDecidesSetup
  <2>2. SetupOf(new) = SetupOf(at)
    BY <1>1, <2>1 DEF SetupOf
  <2> QED BY <1>1, <2>2, SetupIsTotal
<1>4. TotalTardiness(new) = TotalTardiness(at)
  <2>1. ASSUME NEW r \in Orders PROVE Completion(new, r) = Completion(at, r)
    <3> DEFINE mine == {o \in DOMAIN at : OrderOf[o] = r}
    <3>1. mine = {o \in DOMAIN new : OrderOf[o] = r}
      BY <1>1
    <3>2. {new[o].end : o \in mine} = {at[o].end : o \in mine}
      BY <1>1
    <3> QED BY <3>1, <3>2 DEF Completion
  <2>2. Lateness(new) = Lateness(at)
    BY <2>1 DEF Lateness, LatenessOf
  <2> QED BY <2>2, TotalTardinessIsTotal
<1>5. Cardinality(DOMAIN new) = Cardinality(DOMAIN at)
  BY <1>1
<1> QED BY <1>2, <1>3, <1>4, <1>5 DEF CostOfPlan, evaluate

-----------------------------------------------------------------------------
(* The cached objective. *)

LEMMA CacheFields ==
  ASSUME NEW at
  PROVE  /\ CacheOf(at).ends = [m \in UsedMachines(at) |-> MachineEnd(at, m)]
         /\ CacheOf(at).setups = MachineSetups(at)
         /\ CacheOf(at).completion = [r \in OrdersOf(DOMAIN at) |-> Completion(at, r)]
BY DEF CacheOf, MachineSetups

(* The latest end of the machines in use is that of the schedule. *)
LEMMA MachinesEndLast ==
  ASSUME NEW at, Typed(at)
  PROVE  Latest({MachineEnd(at, m) : m \in UsedMachines(at)} \cup {0}) = Makespan(at)
<1> DEFINE S == DOMAIN at
           M == UsedMachines(at)
           f == [o \in S |-> at[o].end]
           h == [m \in M |-> MachineEnd(at, m)]
           a == Latest({f[o] : o \in S} \cup {0})
           b == Latest({h[m] : m \in M} \cup {0})
<1>1. IsFiniteSet(S) /\ IsFiniteSet(M)
  <2>1. M \subseteq Machines
    BY TypedFacts DEF UsedMachines
  <2> QED BY <2>1, SetupOfIsNat, SolverFacts, FS_Subset
<1>2. \A o \in S : f[o] \in Int
  BY TypedFacts
<1>3. ASSUME NEW m \in M
      PROVE  /\ \E o \in S : h[m] = f[o]
             /\ \A o \in On(at, m) : f[o] <= h[m]
             /\ h[m] \in Int
  <2> DEFINE image == {f[o] : o \in On(at, m)}
  <2>1. On(at, m) \subseteq S /\ On(at, m) # {}
    BY <1>3 DEF On, UsedMachines
  <2>2. IsFiniteSet(On(at, m))
    BY <1>1, <2>1, FS_Subset
  <2>3. IsFiniteSet(image)
    <3> DEFINE T == On(at, m)
    <3>1. IsFiniteSet(T)
      BY <2>2
    <3> HIDE DEF T, f
    <3>2. IsFiniteSet({f[o] : o \in T})
      BY <3>1, ImageIsFinite
    <3> QED BY <3>2 DEF T
  <2>4. h[m] = Latest(image)
    <3>1. h[m] = MachineEnd(at, m)
      OBVIOUS
    <3>2. {at[o].end : o \in On(at, m)} = image
      BY <2>1
    <3> QED BY <3>1, <3>2 DEF MachineEnd
  <2> HIDE DEF f, h
  <2>5. image \in SUBSET Int /\ image # {}
    BY <1>2, <2>1
  <2>6. \A o \in On(at, m) : f[o] \in image
    OBVIOUS
  <2>7. \A t \in image : \E o \in S : t = f[o]
    BY <2>1
  <2> HIDE DEF image
  <2>8. Latest(image) \in image /\ \A t \in image : t <= Latest(image)
    BY <2>3, <2>5, LatestIsLargest
  <2> QED BY <2>4, <2>5, <2>6, <2>7, <2>8
<1>4. \A o \in S : at[o].wc \in M /\ o \in On(at, at[o].wc)
  BY DEF UsedMachines, On
<1>5. Makespan(at) = a
  BY DEF Makespan
<1>6. Latest({MachineEnd(at, m) : m \in M} \cup {0}) = b
  OBVIOUS
<1> HIDE DEF f, h, S, M
<1>7. a \in Nat /\ (\A o \in S : f[o] <= a) /\ \A n \in Nat : (\A o \in S : f[o] <= n) => a <= n
  BY <1>1, <1>2, LatestOfTimes
<1>8. b \in Nat /\ (\A m \in M : h[m] <= b) /\ \A n \in Nat : (\A m \in M : h[m] <= n) => b <= n
  BY <1>1, <1>3, LatestOfTimes
<1> HIDE DEF a, b
<1>9. \A m \in M : h[m] <= a
  BY <1>3, <1>7
<1>10. \A o \in S : f[o] <= b
  <2>1. ASSUME NEW o \in S PROVE f[o] <= b
    <3>1. f[o] <= h[at[o].wc] /\ h[at[o].wc] <= b /\ h[at[o].wc] \in Int
      BY <1>3, <1>4, <1>8
    <3> QED BY <1>2, <1>8, <3>1
  <2> QED BY <2>1
<1>11. a <= b /\ b <= a
  BY <1>7, <1>8, <1>9, <1>10
<1>12. a = b
  BY <1>7, <1>8, <1>11
<1> QED BY <1>5, <1>6, <1>12 DEF M

-----------------------------------------------------------------------------

CachedLateness(cache) ==
  [r \in Orders |->
     Larger((IF r \in DOMAIN cache.completion THEN cache.completion[r] ELSE HorizonEnd) - Due[r], 0)]

LEMMA CachedTardinessIsTotal ==
  ASSUME NEW cache, NEW at
  PROVE  ValueOf(cache, at).tardiness = Total(CachedLateness(cache), Orders)
<1> DEFINE S == Orders
           f == CachedLateness(cache)
           late(x) == Larger((IF x \in DOMAIN cache.completion THEN cache.completion[x] ELSE HorizonEnd)
                             - Due[x], 0)
           term(u) == late(CHOOSE x \in u : TRUE)
           rest(u) == u \ {CHOOSE x \in u : TRUE}
           g1 == CHOOSE g : g = [u \in SUBSET S |-> IF u = {} THEN 0 ELSE term(u) + g[rest(u)]]
<1>1. ValueOf(cache, at).tardiness = g1[S]
  BY DEF ValueOf, MapThenSumSet, MapThenFoldSet
<1>2. \A u \in SUBSET S : u # {} => f[Pick(u)] = term(u)
  BY PickIsElement DEF CachedLateness, Pick
<1>3. \A u : rest(u) = u \ {Pick(u)}
  BY DEF Pick
<1> HIDE DEF S, f, term, rest
<1>4. \A g : Sums(f, S, g) <=>
               g = [u \in SUBSET S |-> IF u = {} THEN 0 ELSE term(u) + g[rest(u)]]
  <2>1. TAKE g
  <2> DEFINE a(u) == IF u = {} THEN 0 ELSE f[Pick(u)] + g[u \ {Pick(u)}]
             b(u) == IF u = {} THEN 0 ELSE term(u) + g[rest(u)]
  <2>2. \A u \in SUBSET S : a(u) = b(u)
    BY <1>2, <1>3
  <2>3. Sums(f, S, g) <=> g = [u \in SUBSET S |-> a(u)]
    BY DEF Sums
  <2> HIDE DEF a, b
  <2>4. [u \in SUBSET S |-> a(u)] = [u \in SUBSET S |-> b(u)]
    BY <2>2
  <2>5. Sums(f, S, g) <=> g = [u \in SUBSET S |-> b(u)]
    BY <2>3, <2>4
  <2> QED BY <2>5 DEF b
<1>5. (CHOOSE g : Sums(f, S, g)) = g1
  BY <1>4
<1> QED BY <1>1, <1>5 DEF Total, S, f

(* The cost read off the cache of a schedule is the cost of the schedule.  *)
LEMMA CostOfCache ==
  ASSUME NEW at, Typed(at)
  PROVE  ScalarCost(ValueOf(CacheOf(at), at)) = CostOfPlan(at)
<1> DEFINE c == CacheOf(at)
           v == ValueOf(c, at)
<1>1. /\ c.ends = [m \in UsedMachines(at) |-> MachineEnd(at, m)]
      /\ c.setups = MachineSetups(at)
      /\ c.completion = [r \in OrdersOf(DOMAIN at) |-> Completion(at, r)]
  BY CacheFields
<1> HIDE DEF c
<1>2. v.makespan = Makespan(at)
  <2>1. {c.ends[m] : m \in DOMAIN c.ends} = {MachineEnd(at, m) : m \in UsedMachines(at)}
    BY <1>1
  <2>2. v.makespan = Latest({c.ends[m] : m \in DOMAIN c.ends} \cup {0})
    BY DEF ValueOf
  <2> QED BY <2>1, <2>2, MachinesEndLast
<1>3. v.setup = TotalSetup(at)
  <2>1. v.setup = MapThenSumSet(LAMBDA m : c.setups[m], DOMAIN c.setups)
    BY DEF ValueOf
  <2>2. v.setup = Total(c.setups, DOMAIN c.setups)
    BY <2>1, FunctionSumIsTotal
  <2>3. DOMAIN c.setups = UsedMachines(at)
    BY <1>1 DEF MachineSetups
  <2> QED BY <1>1, <2>2, <2>3, SetupsAddUp
<1>4. v.tardiness = TotalTardiness(at)
  <2>1. ASSUME NEW r \in Orders PROVE CachedLateness(c)[r] = Lateness(at)[r]
    <3> DEFINE mine == {o \in DOMAIN at : OrderOf[o] = r}
    <3>1. r \in OrdersOf(DOMAIN at) <=> mine # {}
      BY DEF OrdersOf
    <3>2. mine = {} => Completion(at, r) = HorizonEnd
      BY DEF Completion
    <3>3. (IF r \in DOMAIN c.completion THEN c.completion[r] ELSE HorizonEnd) = Completion(at, r)
      BY <1>1, <3>1, <3>2
    <3> QED BY <3>3 DEF CachedLateness, Lateness, LatenessOf
  <2>2. CachedLateness(c) = Lateness(at)
    BY <2>1 DEF CachedLateness, Lateness
  <2> QED BY <2>2, CachedTardinessIsTotal, TotalTardinessIsTotal
<1> DEFINE w == evaluate(at)
<1>5. v.makespan = w.makespan /\ v.setup = w.setup /\ v.tardiness = w.tardiness
  BY <1>2, <1>3, <1>4 DEF evaluate
<1> HIDE DEF v, w
<1>6. ScalarCost(v) = ScalarCost(w)
  BY <1>5 DEF ScalarCost, scalarize
<1> QED BY <1>6 DEF v, w, c, CostOfPlan

(* The cache of a schedule, updated on machines that hold every operation  *)
(* that moved, before or after, is the cache of the next one.              *)
THEOREM UpdateIsExact ==
  ASSUME NEW at, Typed(at), NEW cand, Typed(cand), NEW moved, NEW touched \in SUBSET Machines,
         DOMAIN at \subseteq DOMAIN cand,
         DOMAIN cand = (DOMAIN at \ moved) \cup moved,
         \A o \in DOMAIN at \ moved :
           cand[o].wc = at[o].wc /\ cand[o].start = at[o].start /\ cand[o].end = at[o].end,
         \A o \in DOMAIN at \cap moved : at[o].wc \in touched,
         \A o \in moved : cand[o].wc \in touched
  PROVE  UpdatedCache(CacheOf(at), cand, touched) = CacheOf(cand)
<1> DEFINE c == CacheOf(at)
           kept(m) == m \in DOMAIN c.ends \ touched
           machines == {m \in Machines : kept(m) \/ (m \in touched /\ On(cand, m) # {})}
           orders == OrdersOf({o \in DOMAIN cand : cand[o].wc \in touched})
<1>1. /\ c.ends = [m \in UsedMachines(at) |-> MachineEnd(at, m)]
      /\ c.setups = MachineSetups(at)
      /\ c.completion = [r \in OrdersOf(DOMAIN at) |-> Completion(at, r)]
  BY CacheFields
<1>2. UpdatedCache(c, cand, touched) =
        [ends |-> [m \in machines |-> IF kept(m) THEN c.ends[m] ELSE MachineEnd(cand, m)],
         setups |-> [m \in machines |-> IF kept(m) THEN c.setups[m] ELSE MachineSetup(cand, m)],
         completion |-> [r \in DOMAIN c.completion \cup orders |->
                           IF r \in orders THEN Completion(cand, r) ELSE c.completion[r]]]
  BY DEF UpdatedCache
<1> HIDE DEF c
<1>3. ASSUME NEW m, m \notin touched
      PROVE  /\ On(cand, m) = On(at, m)
             /\ \A o \in On(at, m) : /\ o \in DOMAIN at \ moved
                                     /\ cand[o].start = at[o].start /\ cand[o].end = at[o].end
  BY <1>3 DEF On
<1>4. machines = UsedMachines(cand)
  <2>1. \A m \in UsedMachines(cand) : m \in Machines
    BY TypedFacts DEF UsedMachines
  <2>2. DOMAIN c.ends = UsedMachines(at) /\ UsedMachines(at) \subseteq Machines
    BY <1>1, TypedFacts DEF UsedMachines
  <2>3. \A m : m \in UsedMachines(cand) <=> On(cand, m) # {}
    BY DEF UsedMachines, On
  <2>4. \A m : m \in UsedMachines(at) <=> On(at, m) # {}
    BY DEF UsedMachines, On
  <2>5. ASSUME NEW m \in Machines PROVE m \in machines <=> m \in UsedMachines(cand)
    <3>1. CASE m \in touched
      BY <2>3, <3>1
    <3>2. CASE m \notin touched
      BY <1>3, <2>2, <2>3, <2>4, <3>2
    <3> QED BY <3>1, <3>2
  <2> QED BY <2>1, <2>5
<1>5. ASSUME NEW m, kept(m)
      PROVE  c.ends[m] = MachineEnd(cand, m) /\ c.setups[m] = MachineSetup(cand, m)
  <2>1. m \in UsedMachines(at) /\ m \notin touched
    BY <1>1, <1>5
  <2>2. c.ends[m] = MachineEnd(at, m) /\ c.setups[m] = MachineSetup(at, m)
    BY <1>1, <2>1 DEF MachineSetups
  <2>3. /\ On(cand, m) = On(at, m)
        /\ \A o \in On(at, m) : o \in DOMAIN at /\ cand[o].start = at[o].start /\ cand[o].end = at[o].end
    BY <1>3, <2>1
  <2>4. MachineEnd(cand, m) = MachineEnd(at, m)
    <3>1. {cand[o].end : o \in On(cand, m)} = {at[o].end : o \in On(at, m)}
      BY <2>3
    <3> QED BY <3>1 DEF MachineEnd
  <2>5. MachineSetup(cand, m) = MachineSetup(at, m)
    <3> DEFINE S == On(at, m)
               f == SetupOf(at)
               h == SetupOf(cand)
    <3>1. ASSUME NEW o \in S PROVE f[o] \in Nat /\ h[o] = f[o]
      <4>1. o \in DOMAIN at /\ o \in DOMAIN cand
        BY <2>3
      <4>2. ActualSetup(cand, o) = ActualSetup(at, o)
        BY <2>3, SequenceDecidesSetup
      <4>3. SetupOf(at)[o] \in Nat
        BY <4>1, SetupOfIsNat
      <4> QED BY <4>1, <4>2, <4>3 DEF SetupOf
    <3>2. IsFiniteSet(S)
      <4>1. S \subseteq DOMAIN at
        BY DEF On
      <4> QED BY <4>1, SetupOfIsNat, FS_Subset
    <3> HIDE DEF S, f, h
    <3>3. Total(f, S) = Total(h, S)
      BY <3>1, <3>2, TotalsAgree
    <3>4. MachineSetup(at, m) = Total(f, S) /\ MachineSetup(cand, m) = Total(h, S)
      BY <2>3, MachineSetupIsTotal DEF S, f, h
    <3> QED BY <3>3, <3>4
  <2> QED BY <2>2, <2>4, <2>5
<1>6. [m \in machines |-> IF kept(m) THEN c.ends[m] ELSE MachineEnd(cand, m)]
        = [m \in UsedMachines(cand) |-> MachineEnd(cand, m)]
  <2> HIDE DEF machines, kept
  <2> QED BY <1>4, <1>5
<1>7. [m \in machines |-> IF kept(m) THEN c.setups[m] ELSE MachineSetup(cand, m)]
        = [m \in UsedMachines(cand) |-> MachineSetup(cand, m)]
  <2> HIDE DEF machines, kept
  <2> QED BY <1>4, <1>5
<1>8. DOMAIN c.completion \cup orders = OrdersOf(DOMAIN cand)
  <2>1. DOMAIN c.completion = OrdersOf(DOMAIN at)
    BY <1>1
  <2>2. \A o \in DOMAIN cand : o \notin DOMAIN at => cand[o].wc \in touched
    OBVIOUS
  <2>3. orders \subseteq OrdersOf(DOMAIN cand) /\ OrdersOf(DOMAIN at) \subseteq OrdersOf(DOMAIN cand)
    BY DEF OrdersOf
  <2>4. OrdersOf(DOMAIN cand) \subseteq OrdersOf(DOMAIN at) \cup orders
    BY <2>2 DEF OrdersOf
  <2> QED BY <2>1, <2>3, <2>4
<1>9. ASSUME NEW r \in OrdersOf(DOMAIN at), r \notin orders
      PROVE  Completion(cand, r) = Completion(at, r)
  <2> DEFINE mine == {o \in DOMAIN at : OrderOf[o] = r}
             next == {o \in DOMAIN cand : OrderOf[o] = r}
  <2>1. \A o \in next : cand[o].wc \notin touched
    BY <1>9 DEF OrdersOf
  <2>2. \A o \in next : o \in DOMAIN at \ moved
    BY <2>1
  <2>3. next = mine
    BY <2>2
  <2>4. {cand[o].end : o \in next} = {at[o].end : o \in mine}
    BY <2>2, <2>3
  <2> QED BY <2>3, <2>4 DEF Completion
<1>10. [r \in DOMAIN c.completion \cup orders |->
          IF r \in orders THEN Completion(cand, r) ELSE c.completion[r]]
        = [r \in OrdersOf(DOMAIN cand) |-> Completion(cand, r)]
  <2>1. ASSUME NEW r \in OrdersOf(DOMAIN cand)
        PROVE  (IF r \in orders THEN Completion(cand, r) ELSE c.completion[r]) = Completion(cand, r)
    <3> HIDE DEF orders
    <3>1. r \notin orders => r \in OrdersOf(DOMAIN at)
      BY <1>1, <1>8
    <3>2. r \notin orders => c.completion[r] = Completion(at, r)
      BY <1>1, <3>1
    <3> QED BY <1>9, <3>1, <3>2
  <2> HIDE DEF orders
  <2> QED BY <1>8, <2>1
<1>11. UpdatedCache(c, cand, touched) =
         [ends |-> [m \in UsedMachines(cand) |-> MachineEnd(cand, m)],
          setups |-> [m \in UsedMachines(cand) |-> MachineSetup(cand, m)],
          completion |-> [r \in OrdersOf(DOMAIN cand) |-> Completion(cand, r)]]
  <2> HIDE DEF machines, orders, kept
  <2> QED BY <1>2, <1>6, <1>7, <1>10
<1> QED BY <1>11 DEF CacheOf, c

-----------------------------------------------------------------------------
(* Every schedule the run handles is typed. *)

LEMMA PlansAreTyped ==
  ASSUME NEW ops \in SUBSET Ops, NEW plan, IsPlan(plan, ops)
  PROVE  Typed(plan) /\ DOMAIN plan \in SUBSET ops
BY DEF IsPlan, Typed, Timeline, Assignment

LEMMA EmptyIsTyped == Typed(Empty) /\ DOMAIN Empty = {}
BY DEF Typed, Timeline, Empty

LEMMA RestampedIsTyped ==
  ASSUME NEW at, Typed(at)
  PROVE  Typed(RecomputeSetups(at)) /\ SameTimes(RecomputeSetups(at), at)
<1> DEFINE new == RecomputeSetups(at)
<1>1. /\ DOMAIN new = DOMAIN at
      /\ \A o \in DOMAIN at :
           new[o].wc = at[o].wc /\ new[o].start = at[o].start /\ new[o].end = at[o].end
  BY RecomputeKeepsTimes DEF Typed
<1>2. ASSUME NEW o \in DOMAIN at PROVE new[o] \in Assignment
  <2>1. at[o] \in Assignment /\ ActualSetup(at, o) \in Nat
    BY ActualSetupIsNat DEF Typed
  <2>2. new[o] = [at[o] EXCEPT !.setup = ActualSetup(at, o)]
    BY DEF RecomputeSetups
  <2> HIDE DEF new
  <2> QED BY <2>1, <2>2 DEF Assignment
<1> HIDE DEF new
<1>3. Timeline(new)
  BY <1>1 DEF Typed, Timeline
<1>4. Typed(new) /\ SameTimes(new, at)
  BY <1>1, <1>2, <1>3 DEF Typed, SameTimes
<1> QED BY <1>4 DEF new

LEMMA AroundIsTyped ==
  ASSUME NEW a, Typed(a), NEW b, Typed(b)
  PROVE  /\ Typed(Around(a, b)) /\ DOMAIN Around(a, b) = DOMAIN a \cup DOMAIN b
         /\ \A o \in DOMAIN b : Around(a, b)[o] = b[o]
         /\ \A o \in DOMAIN a \ DOMAIN b : Around(a, b)[o] = a[o]
<1> DEFINE new == Around(a, b)
<1>1. /\ DOMAIN new = DOMAIN a \cup DOMAIN b
      /\ \A o \in DOMAIN b : new[o] = b[o]
      /\ \A o \in DOMAIN a \ DOMAIN b : new[o] = a[o]
  BY DEF Around
<1> HIDE DEF new
<1>2. Typed(new)
  BY <1>1 DEF Typed, Timeline
<1> QED BY <1>1, <1>2 DEF new

LEMMA PartIsTyped ==
  ASSUME NEW at, Typed(at), NEW S \in SUBSET DOMAIN at
  PROVE  Typed([o \in S |-> at[o]])
BY DEF Typed, Timeline

LEMMA RepairsArePlaced ==
  ASSUME NEW placed, NEW ops \in SUBSET Ops, NEW s \in Repairs(placed, ops) \cup GreedyOutcomes(placed, ops)
  PROVE  Typed(s) /\ DOMAIN s = ops
<1>1. s \in SchedulesOf(ops)
  <2>1. GreedyOutcomes(placed, ops) \subseteq SchedulesOf(ops)
    BY DEF GreedyOutcomes, NativeRepairs, PythonRepairs
  <2>2. CpSatOutcomes(placed, ops) \subseteq SchedulesOf(ops)
    BY DEF CpSatOutcomes
  <2>3. Repairs(placed, ops) \subseteq GreedyOutcomes(placed, ops) \cup CpSatOutcomes(placed, ops)
    BY DEF Repairs
  <2> QED BY <2>1, <2>2, <2>3
<1> QED BY <1>1, SchedulesPlaceAll, PlacedIsTyped

(* The window of the horizon under way. *)
LEMMA CaseFacts ==
  ASSUME case \in Cases
  PROVE  /\ Typed(frozen) /\ Free \in SUBSET Ops
         /\ Typed(case.warm)
         /\ \A plan \in {case.native, case.cover} \cup case.constructive :
              plan # None => Typed(plan) /\ DOMAIN plan \in SUBSET Free
         /\ None \notin case.constructive
<1>1. /\ IsPlan(case.frozen, Ops) /\ IsPlan(case.warm, Ops)
      /\ \A plan \in {case.native, case.cover} \cup case.constructive :
           plan = None \/ IsPlan(plan, Free)
      /\ None \notin case.constructive
  BY AlnsRunAssumption DEF AlnsRunAssumption, Free, frozen
<1>2. Free \in SUBSET Ops
  BY DEF Free
<1>3. Typed(case.frozen) /\ Typed(case.warm)
  BY <1>1, PlansAreTyped
<1>4. ASSUME NEW plan \in {case.native, case.cover} \cup case.constructive, plan # None
      PROVE  Typed(plan) /\ DOMAIN plan \in SUBSET Free
  BY <1>1, <1>2, <1>4, PlansAreTyped
<1> QED BY <1>1, <1>2, <1>3, <1>4 DEF frozen

-----------------------------------------------------------------------------
(* Re-anchoring. *)

(* A slot the kernel of a window returns, whatever it does not see.        *)
LEMMA SeenSlotIsTyped ==
  ASSUME NEW old, NEW at, Typed(at), NEW key, NEW scan, NEW o \in Ops, NEW m \in Machines,
         NEW earliest \in Int,
         scan \in {"all", "append", "window"},
         NEW slot \in Seen(old)!EarliestSlots(at, Seen(old)!FreshWindows(at, key), scan, o, m, earliest)
  PROVE  slot \in Assignment /\ slot.end = slot.start + Duration[o][slot.wc]
<1> DEFINE windows == Seen(old)!FreshWindows(at, key)
<1>1. PICK g \in Seen(old)!GapsScanned(at, scan, o, m, earliest) :
         slot \in Seen(old)!SlotsInGap(at, windows, o, m, earliest, g[1], g[2])
  BY DEF Seen!EarliestSlots
<1> DEFINE p == g[1]
           f == g[2]
           setup == Seen(old)!SetupAfter(m, p, o)
<1>2. p = None \/ p \in DOMAIN at
  BY <1>1 DEF Seen!GapsScanned, Seen!AllGaps, Seen!AppendGap, Seen!WindowGaps, Seen!On
<1>3. setup \in Nat
  <2>1. p = None \/ p \in Ops
    BY <1>2, TypedFacts
  <2> DEFINE state == [x \in Ops |-> IF x \in DOMAIN old THEN None ELSE StateOf[x]]
             table == [k \in Machines |-> [s \in States \cup {None} |-> [t \in States \cup {None} |->
                         IF None \in {s, t} THEN 0 ELSE SetupMinutes[k][s][t]]]]
  <2>2. \A x \in Ops : state[x] \in States \cup {None}
    BY DispatchTimelineAssumption DEF DispatchTimelineAssumption
  <2>3. \A s, t \in States \cup {None} : table[m][s][t] \in Nat
    <3> SUFFICES ASSUME NEW s \in States \cup {None}, NEW t \in States \cup {None}
                 PROVE  table[m][s][t] \in Nat
      OBVIOUS
    <3>1. table[m][s][t] = IF None \in {s, t} THEN 0 ELSE SetupMinutes[m][s][t]
      OBVIOUS
    <3>2. CASE None \in {s, t}
      BY <3>1, <3>2
    <3>3. CASE None \notin {s, t}
      <4>1. SetupMinutes[m][s][t] \in Nat
        BY <3>3, DispatchTimelineAssumption DEF DispatchTimelineAssumption
      <4> QED BY <3>1, <3>3, <4>1
    <3> QED BY <3>2, <3>3
  <2>4. setup = IF p = None THEN 0 ELSE table[m][state[p]][state[o]]
    BY DEF Seen!SetupAfter, Seen!SetupBetween
  <2> HIDE DEF state, table, setup, p
  <2> QED BY <2>1, <2>2, <2>3, <2>4
<1>4. \A x \in DOMAIN windows : windows[x].to \in Int
  <2>1. ASSUME NEW x \in DOMAIN windows PROVE windows[x].to \in Int
    <3>1. x \in DOMAIN at /\ windows[x] = Seen(old)!Window(at, x)
      BY DEF Seen!FreshWindows
    <3> HIDE DEF windows
    <3>2. windows[x].to = at[x].end
      BY <3>1 DEF Seen!Window
    <3> QED BY <3>1, <3>2, TypedFacts
  <2> QED BY <2>1
<1> HIDE DEF windows
<1> DEFINE starts == UNION {Seen(old)!CandidateStarts(windows, gap, setup) :
                              gap \in Seen(old)!GapStarts(at, o, m, earliest, p)}
<1>5. PICK t \in starts : slot = Slot(m, t, Duration[o][m], setup)
  <2> DEFINE feasible == {u \in starts :
                            /\ Seen(old)!EndsInTime(at, o, m, f, u)
                            /\ Seen(old)!ResourcesFit(windows, o, u - setup, u + Duration[o][m])}
  <2>1. slot \in Seen(old)!SlotsInGap(at, windows, o, m, earliest, p, f)
    BY <1>1
  <2>2. Seen(old)!SlotsInGap(at, windows, o, m, earliest, p, f)
          = {Seen(old)!Slot(m, u, Duration[o][m], setup) : u \in Seen(old)!First(feasible)}
    BY DEF Seen!SlotsInGap
  <2> HIDE DEF starts, setup
  <2>3. PICK u \in Seen(old)!First(feasible) : slot = Seen(old)!Slot(m, u, Duration[o][m], setup)
    BY <2>1, <2>2
  <2>4. u \in starts
    BY <2>3 DEF Seen!First
  <2> QED BY <2>3, <2>4 DEF Seen!Slot, Slot
<1>6. PICK gap \in Seen(old)!GapStarts(at, o, m, earliest, p) :
         t \in Seen(old)!CandidateStarts(windows, gap, setup)
  BY <1>5
<1>7. gap \in Int
  <2> DEFINE previousEnd == IF p = None THEN 0 ELSE at[p].end
             occupancy == Larger(previousEnd, earliest - setup)
  <2>1. previousEnd \in Int
    BY <1>2, TypedFacts
  <2> HIDE DEF setup, previousEnd
  <2>2. occupancy \in Int
    BY <1>3, <2>1 DEF Larger
  <2> HIDE DEF occupancy
  <2>3. PICK x \in Seen(old)!First(Seen(old)!OpenStarts(m, occupancy, Duration[o][m] + setup)) :
          gap = x + setup
    BY <1>6 DEF Seen!GapStarts, Seen!Larger, Larger, occupancy, previousEnd, setup
  <2>4. x \in Int
    <3>1. x \in Seen(old)!OpenStarts(m, occupancy, Duration[o][m] + setup)
      BY <2>3 DEF Seen!First
    <3>2. x = occupancy \/ \E shift \in Calendar[m] : x = occupancy \/ x = shift.open
      BY <3>1 DEF Seen!OpenStarts, Seen!Larger
    <3>3. \A shift \in Calendar[m] : shift.open \in Int
      BY DispatchTimelineAssumption DEF DispatchTimelineAssumption
    <3> QED BY <2>2, <3>2, <3>3
  <2> QED BY <1>3, <2>3, <2>4
<1>8. t \in Int
  <2> HIDE DEF setup
  <2> QED BY <1>3, <1>4, <1>7, <1>6 DEF Seen!CandidateStarts
<1> HIDE DEF setup
<1>9. Duration[o][m] \in Int
  BY ProblemFacts
<1> QED BY <1>3, <1>5, <1>8, <1>9 DEF Slot, Assignment

-----------------------------------------------------------------------------

LEMMA FrozenIsFunction ==
  ASSUME case \in Cases PROVE frozen \in [DOMAIN frozen -> Assignment]
BY AlnsRunAssumption DEF AlnsRunAssumption, IsPlan, frozen

LEMMA ScanIsKnown ==
  ASSUME NEW l, NEW o PROVE GapScanFor(l, o) \in {"all", "append", "window"}
BY Zenon DEF GapScanFor

(* A pass under way: what is to come, now and in the next pass, and the    *)
(* timeline, which holds the rest.                                         *)
Anchoring(ops) ==
  {s \in [todo : SUBSET ops, later : SUBSET ops, at : UNION {[S -> Assignment] : S \in SUBSET Ops}] :
     Typed(s.at) /\ ops \subseteq s.todo \cup s.later \cup DOMAIN s.at}

LEMMA ReanchorStepFacts ==
  ASSUME NEW placed, Typed(placed), NEW s \in Anchoring(DOMAIN placed)
  PROVE  ReanchorStep(placed, s) \in Anchoring(DOMAIN placed)
<1> DEFINE ops == DOMAIN placed
           todo == s.todo
           later == s.later
           at == s.at
           o == CHOOSE x \in todo : \A y \in todo : placed[x].start <= placed[y].start
           p == PredecessorOf[o]
           earliest == IF p \in DOMAIN at THEN at[p].end ELSE 0
           slots == Seen(frozen)!EarliestSlots(
                      at, Seen(frozen)!FreshWindows(at, RequiredBy(o)), GapScanFor(case.large, o),
                      o, placed[o].wc, earliest)
           slot == CHOOSE x \in slots : TRUE
           next == ReanchorStep(placed, s)
           Plans == UNION {[S -> Assignment] : S \in SUBSET Ops}
           States3 == [todo : SUBSET ops, later : SUBSET ops, at : Plans]
<1>1. /\ s \in States3 /\ Typed(at)
      /\ ops \subseteq todo \cup later \cup DOMAIN at
  BY DEF Anchoring
<1>2. todo \in SUBSET ops /\ later \in SUBSET ops /\ at \in Plans
  BY <1>1
<1>3. \/ todo = {} /\ next = [todo |-> later, later |-> {}, at |-> at]
      \/ todo # {} /\ next = [s EXCEPT !.todo = @ \ {o}, !.later = @ \cup {o}]
      \/ /\ todo # {} /\ slots # {}
         /\ next = [s EXCEPT !.todo = @ \ {o}, !.at = PlaceAt(@, o, slot)]
  BY DEF ReanchorStep
<1>4. ASSUME todo # {} PROVE o \in todo /\ o \in ops /\ o \in Ops
  <2> DEFINE starts == [x \in todo |-> placed[x].start]
  <2>1. IsFiniteSet(todo)
    BY <1>2, SetupOfIsNat, FS_Subset
  <2>2. starts \in [todo -> Int]
    BY <1>2, TypedFacts
  <2> HIDE DEF starts, todo, o
  <2>3. PICK x \in todo : \A y \in todo : starts[x] <= starts[y]
    BY <1>4, <2>1, <2>2, SmallestElement
  <2>4. \E z \in todo : \A y \in todo : placed[z].start <= placed[y].start
    BY <2>3 DEF starts
  <2>5. o \in todo
    BY <2>4 DEF o
  <2> QED BY <1>2, <2>5, TypedFacts
<1>5. ASSUME todo # {}, slots # {}
      PROVE  slot \in Assignment /\ slot.end = slot.start + Duration[o][slot.wc]
  <2>1. slot \in slots
    <3> HIDE DEF slots
    <3> QED BY <1>5
  <2>2. o \in Ops /\ o \in ops /\ placed[o].wc \in Machines
    BY <1>4, <1>5, TypedFacts
  <2>3. earliest \in Int
    <3>1. p \in DOMAIN at => at[p].end \in Int
      BY <1>1, TypedFacts
    <3> HIDE DEF p, at
    <3> QED BY <3>1
  <2> HIDE DEF o, earliest, slot, at, ops
  <2> DEFINE scan == GapScanFor(case.large, o)
             m == placed[o].wc
             key == RequiredBy(o)
  <2>4. scan \in {"all", "append", "window"} /\ m \in Machines
    BY <2>2, ScanIsKnown
  <2>5. slot \in Seen(frozen)!EarliestSlots(at, Seen(frozen)!FreshWindows(at, key), scan, o, m, earliest)
    BY <2>1
  <2> HIDE DEF scan, m, key
  <2> QED BY <1>1, <2>2, <2>3, <2>4, <2>5, SeenSlotIsTyped
<1> HIDE DEF todo, later, at, o, slots, slot, next, ops
<1>6. CASE todo = {} /\ next = [todo |-> later, later |-> {}, at |-> at]
  <2>1. /\ next \in States3 /\ next.todo = later /\ next.later = {} /\ next.at = at
    BY <1>2, <1>6
  <2> QED BY <1>1, <1>6, <2>1 DEF Anchoring, ops, next
<1>7. CASE todo # {} /\ next = [s EXCEPT !.todo = @ \ {o}, !.later = @ \cup {o}]
  <2>1. o \in ops /\ o \in todo
    BY <1>4, <1>7
  <2>2. /\ next \in States3 /\ next.todo = todo \ {o} /\ next.later = later \cup {o} /\ next.at = at
    BY <1>1, <1>2, <1>7, <2>1 DEF todo, later, at
  <2>3. Typed(next.at) /\ ops \subseteq next.todo \cup next.later \cup DOMAIN next.at
    BY <1>1, <2>1, <2>2
  <2> QED BY <2>2, <2>3 DEF Anchoring, ops, next
<1>8. CASE /\ todo # {} /\ slots # {}
           /\ next = [s EXCEPT !.todo = @ \ {o}, !.at = PlaceAt(@, o, slot)]
  <2> DEFINE new == PlaceAt(at, o, slot)
  <2>1. o \in Ops /\ slot \in Assignment /\ slot.end = slot.start + Duration[o][slot.wc]
    BY <1>4, <1>5, <1>8
  <2>2. /\ DOMAIN new = DOMAIN at \cup {o} /\ DOMAIN at \subseteq Ops
        /\ \A x \in DOMAIN new : IF x = o THEN new[x] = slot ELSE x \in DOMAIN at /\ new[x] = at[x]
    BY <1>1 DEF PlaceAt, Typed, Timeline
  <2>3. Typed(new)
    <3>1. \A x \in DOMAIN at : /\ at[x] \in Assignment
                               /\ at[x].end = at[x].start + Duration[x][at[x].wc]
      BY <1>1 DEF Typed, Timeline
    <3>2. \A x \in DOMAIN new : /\ new[x] \in Assignment
                                /\ new[x].end = new[x].start + Duration[x][new[x].wc]
      BY <2>1, <2>2, <3>1
    <3> HIDE DEF new
    <3>3. DOMAIN new \subseteq Ops
      BY <2>1, <2>2
    <3> QED BY <3>2, <3>3 DEF Typed, Timeline, Assignment
  <2>4. new \in Plans
    <3>1. new \in [DOMAIN at \cup {o} -> Assignment]
      <4>1. \A x \in DOMAIN at \cup {o} : (IF x = o THEN slot ELSE at[x]) \in Assignment
        BY <1>1, <2>1 DEF Typed
      <4> QED BY <4>1 DEF PlaceAt
    <3>2. DOMAIN at \cup {o} \in SUBSET Ops
      BY <2>1, <2>2
    <3> HIDE DEF new
    <3> QED BY <3>1, <3>2
  <2> HIDE DEF new, Plans
  <2>5. /\ next \in States3 /\ next.todo = todo \ {o} /\ next.later = later /\ next.at = new
    BY <1>1, <1>2, <1>8, <2>4 DEF todo, later, at, new
  <2>6. Typed(next.at) /\ ops \subseteq next.todo \cup next.later \cup DOMAIN next.at
    BY <1>1, <2>2, <2>3, <2>5
  <2> QED BY <2>5, <2>6 DEF Anchoring, ops, next, Plans
<1> QED BY <1>3, <1>6, <1>7, <1>8 DEF next

(* The passes of a re-anchoring. *)
Start(placed) == [todo |-> DOMAIN placed, later |-> {}, at |-> frozen]

Anchors(placed, n, f) ==
  f = [k \in 0 .. n |-> IF k = 0 THEN Start(placed) ELSE ReanchorStep(placed, f[k - 1])]

Anchored(placed, n, f) ==
  f[0] = Start(placed) /\ \A k \in 1 .. n : f[k] = ReanchorStep(placed, f[k - 1])

LEMMA AnchorsEquation ==
  ASSUME NEW placed, NEW n \in Nat, NEW f, Anchors(placed, n, f)
  PROVE  Anchored(placed, n, f)
<1> DEFINE state(k) == IF k = 0 THEN Start(placed) ELSE ReanchorStep(placed, f[k - 1])
<1>1. f = [k \in 0 .. n |-> state(k)]
  BY DEF Anchors
<1> HIDE DEF state
<1>2. \A k \in 0 .. n : f[k] = state(k)
  BY <1>1
<1>3. 0 \in 0 .. n /\ \A k \in 1 .. n : k \in 0 .. n /\ k # 0
  OBVIOUS
<1> QED BY <1>2, <1>3 DEF state, Anchored

LEMMA StartIsAnchoring ==
  ASSUME case \in Cases, NEW placed
  PROVE  Start(placed) \in Anchoring(DOMAIN placed)
<1> DEFINE ops == DOMAIN placed
           Plans == UNION {[S -> Assignment] : S \in SUBSET Ops}
           s == Start(placed)
<1>1. Typed(frozen) /\ frozen \in [DOMAIN frozen -> Assignment]
  BY CaseFacts, FrozenIsFunction
<1>2. DOMAIN frozen \in SUBSET Ops
  BY <1>1 DEF Typed, Timeline
<1>3. frozen \in Plans
  BY <1>1, <1>2
<1>4. /\ s = [todo |-> ops, later |-> {}, at |-> frozen]
      /\ s.todo = ops /\ s.later = {} /\ s.at = frozen
  BY DEF Start
<1> HIDE DEF s, ops
<1>5. s \in [todo : SUBSET ops, later : SUBSET ops, at : Plans]
  BY <1>3, <1>4
<1> QED BY <1>1, <1>4, <1>5 DEF Anchoring, s, ops

(* Re-anchoring moves all of a schedule or gives up. *)
LEMMA ReanchoredIsTyped ==
  ASSUME case \in Cases, NEW placed, Typed(placed)
  PROVE  /\ Typed(Reanchored(placed))
         /\ DOMAIN Reanchored(placed) \in {DOMAIN placed, {}}
<1> DEFINE ops == DOMAIN placed
           last == (Cardinality(ops) + 1) * (Cardinality(ops) + 1)
           T == Anchoring(ops)
           first == Start(placed)
           step == [s \in T |-> ReanchorStep(placed, s)]
           run == CHOOSE f : Anchors(placed, last, f)
<1>1. last \in Nat
  <2>1. Cardinality(ops) \in Nat
    BY SetupOfIsNat, FS_CardinalityType
  <2> HIDE DEF ops
  <2> QED BY <2>1
<1>2. step \in [T -> T] /\ \A s \in T : step[s] = ReanchorStep(placed, s)
  BY ReanchorStepFacts
<1>3. first \in T
  BY StartIsAnchoring
<1>4. Reanchored(placed) = IF run[last].todo \cup run[last].later # {}
                             THEN Empty ELSE [o \in ops |-> run[last].at[o]]
  BY DEF Reanchored, Anchors, Start
<1> HIDE DEF last, T, first, step, run
<1>5. PICK f \in [0 .. last -> T] : f[0] = first /\ \A k \in 1 .. last : f[k] = step[f[k - 1]]
  <2>1. HasRun(T, first, step, last)
    BY <1>1, <1>2, <1>3, IterationExists
  <2> QED BY <2>1 DEF HasRun
<1> DEFINE state(k) == IF k = 0 THEN first ELSE ReanchorStep(placed, f[k - 1])
<1>6. \A k \in 0 .. last : f[k] = state(k)
  <2>1. ASSUME NEW k \in 0 .. last, k # 0 PROVE f[k] = ReanchorStep(placed, f[k - 1])
    <3>1. k \in 1 .. last /\ k - 1 \in 0 .. last
      BY <1>1, <2>1
    <3> QED BY <1>2, <1>5, <3>1
  <2> QED BY <1>5, <2>1
<1>7. f = [k \in 0 .. last |-> state(k)]
  <2> HIDE DEF state
  <2> QED BY <1>5, <1>6
<1>8. Anchors(placed, last, f)
  BY <1>7 DEF Anchors, first
<1>9. Anchored(placed, last, run)
  <2>1. Anchors(placed, last, run)
    BY <1>8 DEF run
  <2> QED BY <1>1, <2>1, AnchorsEquation
<1>10. run[last] \in T
  <2> DEFINE Bad == {k \in 0 .. last : run[k] \notin T}
  <2>1. SUFFICES ASSUME Bad # {} PROVE FALSE
    BY <1>1
  <2>2. PICK k \in Bad : \A j \in Bad : k <= j
    <3>1. Bad \in SUBSET Nat
      BY <1>1
    <3> HIDE DEF Bad
    <3> QED BY <2>1, <3>1, LeastNatural
  <2>3. k \in 0 .. last /\ run[k] \notin T
    BY <2>2
  <2>4. k # 0
    BY <1>3, <1>9, <2>3 DEF Anchored, first
  <2>5. k - 1 \in 0 .. last /\ k \in 1 .. last /\ ~ k <= k - 1
    BY <1>1, <2>3, <2>4
  <2>6. run[k - 1] \in T
    <3>1. k - 1 \notin Bad
      BY <2>2, <2>5
    <3> QED BY <2>5, <3>1
  <2>7. run[k] = ReanchorStep(placed, run[k - 1])
    BY <1>9, <2>5 DEF Anchored
  <2> QED BY <2>3, <2>6, <2>7, ReanchorStepFacts DEF T
<1> DEFINE final == run[last]
<1>11. Typed(final.at) /\ ops \subseteq final.todo \cup final.later \cup DOMAIN final.at
  BY <1>10 DEF T, Anchoring
<1>12. CASE final.todo \cup final.later # {}
  BY <1>4, <1>12, EmptyIsTyped
<1>13. CASE final.todo \cup final.later = {}
  <2>1. Reanchored(placed) = [o \in ops |-> final.at[o]]
    BY <1>4, <1>13
  <2>2. ops \in SUBSET DOMAIN final.at
    BY <1>11, <1>13
  <2> HIDE DEF final, ops
  <2>3. Typed([o \in ops |-> final.at[o]])
    <3> DEFINE at == final.at
    <3>1. Typed(at) /\ ops \in SUBSET DOMAIN at
      BY <1>11, <2>2
    <3> HIDE DEF at
    <3>2. Typed([o \in ops |-> at[o]])
      BY <3>1, PartIsTyped
    <3> QED BY <3>2 DEF at
  <2> QED BY <2>1, <2>3 DEF ops
<1> QED BY <1>12, <1>13

-----------------------------------------------------------------------------
(* The search keeps its costs, and what it destroys is closed. *)

PlanOfWindow(plan) == Typed(plan) /\ DOMAIN plan \subseteq Free

(* What the search knows of its current schedule, its best and its seed.   *)
Valued(at, v, top, topValue, from) ==
  /\ v = ValueOf(CacheOf(at), at)
  /\ ScalarCost(topValue) = CostOfPlan(top)
  /\ CostOfPlan(top) <= CostOfPlan(from)

Seeding == {"warm", "frozen", "native", "cover", "constructive", "reanchor", "complete", "seeded"}
Searching == {"searching", "repairing", "finalizing"}

RunInv ==
  /\ case \in Cases
  /\ PlanOfWindow(seed) /\ PlanOfWindow(current) /\ PlanOfWindow(best)
  /\ ClosedIn(Free, destroyed) /\ Cardinality(destroyed) <= MaxDestroy
  /\ phase \in Seeding \cup Searching \cup {"done"}
  /\ phase \in Seeding => value = None
  /\ phase \in Searching \/ value # None => Valued(current, value, best, bestValue, seed)
  /\ outcome # None => /\ phase = "done"
                       /\ outcome.from # "seeding" => CostOfPlan(outcome.plan) <= CostOfPlan(seed)

LEMMA NothingIsClosed == ClosedIn(Free, {}) /\ Cardinality({}) <= MaxDestroy
<1>1. Cardinality({}) = 0 /\ MaxDestroy \in Nat
  BY FS_EmptySet, AlnsRunAssumption DEF AlnsRunAssumption
<1>2. Successors({}) = {}
  BY DEF Successors
<1> QED BY <1>1, <1>2 DEF ClosedIn

LEMMA DestroySetsAreClosed ==
  ASSUME case \in Cases, PlanOfWindow(current), NEW s \in DestroySets
  PROVE  ClosedIn(Free, s) /\ Cardinality(s) <= MaxDestroy
<1>1. PICK first \in Selections(current, DestroySize) :
         s \in CapPreservingClosure(SuccessorClosure(Free, first \ FixedIds), MaxDestroy)
  BY DEF DestroySets
<1>2. first \in SUBSET Free
  BY <1>1, SelectionsArePlaced DEF PlanOfWindow
<1> DEFINE closed == SuccessorClosure(Free, first \ FixedIds)
<1>3. Free \in SUBSET Ops /\ MaxDestroy \in Nat
  BY CaseFacts, AlnsRunAssumption DEF AlnsRunAssumption
<1>4. ClosedIn(Free, closed)
  BY <1>2, <1>3, ClosureIsClosed
<1> HIDE DEF closed
<1>5. s \in CapPreservingClosure(closed, MaxDestroy)
  BY <1>1 DEF closed
<1> QED BY <1>3, <1>4, <1>5, CapKeepsClosed

(* A candidate, and its value from the cache of the current schedule.      *)
LEMMA CandidateFacts ==
  ASSUME case \in Cases, PlanOfWindow(current), value.cache = CacheOf(current),
         ClosedIn(Free, destroyed), NEW candidate \in Candidates, IsSane(candidate)
  PROVE  /\ PlanOfWindow(candidate)
         /\ ValueOfMove(candidate) = ValueOf(CacheOf(candidate), candidate)
<1> DEFINE at == current
           moved == destroyed
           kept == Kept(destroyed)
           touched == TouchedMachines(destroyed, candidate)
<1>1. PICK s \in Repairs(WithFrozen(kept), moved) : candidate = RecomputeSetups(Around(kept, s))
  BY DEF Candidates
<1>2. Typed(at) /\ DOMAIN at \subseteq Free /\ Free \in SUBSET Ops /\ moved \in SUBSET Free
  BY CaseFacts DEF PlanOfWindow, ClosedIn
<1>3. Typed(s) /\ DOMAIN s = moved
  BY <1>1, <1>2, RepairsArePlaced
<1>4. /\ Typed(kept) /\ DOMAIN kept = DOMAIN at \ moved
      /\ \A o \in DOMAIN kept : kept[o] = at[o]
  BY <1>2, PartIsTyped DEF Kept
<1> HIDE DEF kept
<1> DEFINE whole == Around(kept, s)
<1>5. /\ Typed(whole) /\ DOMAIN whole = (DOMAIN at \ moved) \cup moved
      /\ \A o \in DOMAIN at \ moved : whole[o] = at[o]
  BY <1>3, <1>4, AroundIsTyped
<1>6. Typed(candidate) /\ SameTimes(candidate, whole)
  BY <1>1, <1>5, RestampedIsTyped
<1> HIDE DEF whole
<1>7. /\ DOMAIN candidate = (DOMAIN at \ moved) \cup moved
      /\ DOMAIN at \subseteq DOMAIN candidate
      /\ \A o \in DOMAIN at \ moved :
           candidate[o].wc = at[o].wc /\ candidate[o].start = at[o].start /\ candidate[o].end = at[o].end
  BY <1>5, <1>6 DEF SameTimes
<1>8. /\ touched \in SUBSET Machines
      /\ \A o \in DOMAIN at \cap moved : at[o].wc \in touched
      /\ \A o \in moved : candidate[o].wc \in touched
  <2>1. \A o \in DOMAIN at : at[o].wc \in Machines
    BY <1>2, TypedFacts
  <2>2. \A o \in moved : candidate[o].wc \in Machines
    BY <1>6, <1>7, TypedFacts
  <2> QED BY <2>1, <2>2 DEF TouchedMachines
<1> HIDE DEF at, moved, touched
<1>9. UpdatedCache(CacheOf(at), candidate, touched) = CacheOf(candidate)
  BY <1>2, <1>6, <1>7, <1>8, UpdateIsExact
<1>10. ValueOfMove(candidate) = ValueOf(UpdatedCache(CacheOf(at), candidate, touched), candidate)
  BY DEF ValueOfMove, at, touched
<1> QED BY <1>2, <1>6, <1>7, <1>9, <1>10 DEF PlanOfWindow

LEMMA RestampedPlan ==
  ASSUME NEW plan, PlanOfWindow(plan)
  PROVE  PlanOfWindow(RecomputeSetups(plan)) /\ CostOfPlan(RecomputeSetups(plan)) = CostOfPlan(plan)
BY RestampedIsTyped, SameTimesSameCost DEF PlanOfWindow, SameTimes

(* What the greedy lane adds to a schedule of the window.                  *)
LEMMA CompletedPlan ==
  ASSUME case \in Cases, NEW plan, PlanOfWindow(plan), NEW at,
         NEW ops \in SUBSET Free, NEW s \in GreedyOutcomes(at, ops)
  PROVE  PlanOfWindow(s) /\ PlanOfWindow(Around(plan, s))
<1>1. ops \in SUBSET Ops
  BY CaseFacts
<1>2. Typed(s) /\ DOMAIN s = ops
  BY <1>1, RepairsArePlaced
<1> QED BY <1>2, AroundIsTyped DEF PlanOfWindow

LEMMA ReanchoredPlan ==
  ASSUME case \in Cases, NEW plan, PlanOfWindow(plan)
  PROVE  PlanOfWindow(Reanchored(plan))
BY ReanchoredIsTyped DEF PlanOfWindow

LEMMA WarmCandidateFacts ==
  ASSUME case \in Cases, NEW candidate \in WarmCandidates, NEW plan \in UsableWarmStart(candidate)
  PROVE  PlanOfWindow(plan)
<1> DEFINE supplied == [o \in DOMAIN case.warm \cap Free |-> case.warm[o]]
           missing == Free \ DOMAIN supplied
<1>1. PlanOfWindow(supplied)
  <2> DEFINE warm == case.warm
             S == DOMAIN warm \cap Free
  <2>1. Typed(warm)
    BY CaseFacts
  <2> HIDE DEF warm
  <2>2. Typed([o \in S |-> warm[o]])
    BY <2>1, PartIsTyped
  <2> QED BY <2>2 DEF PlanOfWindow, warm
<1>2. candidate = supplied \/ \E s \in GreedyOutcomes(supplied, missing) : candidate = Around(supplied, s)
  BY DEF WarmCandidates
<1>3. missing \in SUBSET Free
  OBVIOUS
<1> HIDE DEF supplied, missing
<1>4. PlanOfWindow(candidate)
  BY <1>1, <1>2, <1>3, CompletedPlan
<1>5. plan \in {candidate, Reanchored(candidate)}
  BY DEF UsableWarmStart
<1> QED BY <1>4, <1>5, ReanchoredPlan

(* A step of the first phase: it leaves the search as it was, and a seed   *)
(* it takes is a schedule of the window.                                   *)
SeedingStep ==
  /\ phase \in Seeding /\ phase' \in Seeding \cup {"done"}
  /\ SearchUntouched
  /\ seed' = seed \/ PlanOfWindow(seed')
  /\ outcome' = outcome \/ (phase' = "done" /\ outcome'.from = "seeding")

LEMMA SeededStep ==
  ASSUME NEW plan, PlanOfWindow(plan), NEW p \in Seeding, phase \in Seeding, case' = case,
         Seeded(plan, p)
  PROVE  SeedingStep
<1>1. PlanOfWindow(RecomputeSetups(plan))
  BY RestampedPlan
<1>2. PlanOfWindow(seed')
  BY <1>1 DEF Seeded
<1> QED BY <1>2 DEF SeedingStep, Seeded

-----------------------------------------------------------------------------

LEMMA SeedingSteps ==
  ASSUME RunInv,
         \/ OutOfSeedingTime \/ TryWarmStart \/ TryFrozenSeed \/ TryNativeSeed \/ TryCoverSeed
         \/ ConstructiveSeed \/ ReanchorSeed \/ CompleteSeed
  PROVE  SeedingStep
<1>1. case \in Cases /\ PlanOfWindow(seed)
  BY DEF RunInv
<1>2. AfterSeed \in Seeding
  BY DEF AfterSeed, Seeding
<1>3. ASSUME NEW p \in Seeding, phase \in Seeding, GoTo(p) PROVE SeedingStep
  BY <1>3 DEF GoTo, SeedingStep
<1>4. ASSUME phase \in Seeding, Abort PROVE SeedingStep
  BY <1>4 DEF Abort, SeedingStep
<1>5. ASSUME NEW plan, PlanOfWindow(plan), NEW p \in Seeding, phase \in Seeding, Seeded(plan, p)
      PROVE  SeedingStep
  <2>1. case' = case
    BY <1>5 DEF Seeded, SearchUntouched
  <2> QED BY <1>5, <2>1, SeededStep
<1>6. ASSUME NEW plan \in {case.native, case.cover} \cup case.constructive, plan # None
      PROVE  PlanOfWindow(plan)
  BY <1>1, <1>6, CaseFacts DEF PlanOfWindow
<1>7. CASE OutOfSeedingTime
  BY <1>4, <1>7 DEF OutOfSeedingTime, Seeding
<1>8. CASE TryWarmStart
  <2>1. phase \in Seeding /\ "frozen" \in Seeding
    BY <1>8 DEF TryWarmStart, Seeding
  <2>2. PICK candidate \in WarmCandidates :
          \/ \E plan \in UsableWarmStart(candidate) : Seeded(plan, AfterSeed)
          \/ GoTo("frozen")
    BY <1>8 DEF TryWarmStart
  <2>3. ASSUME NEW plan \in UsableWarmStart(candidate), Seeded(plan, AfterSeed) PROVE SeedingStep
    <3>1. PlanOfWindow(plan)
      BY <1>1, WarmCandidateFacts
    <3> QED BY <1>2, <1>5, <2>1, <2>3, <3>1
  <2> QED BY <1>3, <2>1, <2>2, <2>3
<1>9. CASE TryFrozenSeed
  <2>1. phase \in Seeding /\ "native" \in Seeding
    BY <1>9 DEF TryFrozenSeed, Seeding
  <2>2. ASSUME NEW s \in GreedyOutcomes(frozen, Free), Seeded(s, AfterSeed) PROVE SeedingStep
    <3>1. Free \in SUBSET Free /\ PlanOfWindow(seed)
      BY <1>1
    <3>2. PlanOfWindow(s)
      BY <1>1, <3>1, CompletedPlan
    <3> QED BY <1>2, <1>5, <2>1, <2>2, <3>2
  <2> QED BY <1>3, <1>9, <2>1, <2>2 DEF TryFrozenSeed
<1>10. CASE TryNativeSeed
  <2>1. phase \in Seeding /\ "cover" \in Seeding
    BY <1>10 DEF TryNativeSeed, Seeding
  <2>2. \/ case.native # None /\ Seeded(case.native, AfterSeed)
        \/ \E plan \in case.constructive : Seeded(plan, AfterSeed)
        \/ GoTo("cover")
    BY <1>10 DEF TryNativeSeed
  <2>3. ASSUME NEW plan \in case.constructive, Seeded(plan, AfterSeed) PROVE SeedingStep
    <3>1. plan # None
      BY <1>1, CaseFacts
    <3>2. PlanOfWindow(plan)
      BY <1>6, <3>1
    <3> QED BY <1>2, <1>5, <2>1, <2>3, <3>2
  <2>4. ASSUME case.native # None, Seeded(case.native, AfterSeed) PROVE SeedingStep
    <3>1. PlanOfWindow(case.native)
      BY <1>6, <2>4
    <3> QED BY <1>2, <1>5, <2>1, <2>4, <3>1
  <2> QED BY <1>3, <2>1, <2>2, <2>3, <2>4
<1>11. CASE TryCoverSeed
  <2>1. phase \in Seeding /\ "constructive" \in Seeding
    BY <1>11 DEF TryCoverSeed, Seeding
  <2>2. \/ case.cover # None /\ Seeded(case.cover, AfterSeed)
        \/ GoTo("constructive")
    BY <1>11 DEF TryCoverSeed
  <2>3. ASSUME case.cover # None, Seeded(case.cover, AfterSeed) PROVE SeedingStep
    <3>1. PlanOfWindow(case.cover)
      BY <1>6, <2>3
    <3> QED BY <1>2, <1>5, <2>1, <2>3, <3>1
  <2> QED BY <1>3, <2>1, <2>2, <2>3
<1>12. CASE ConstructiveSeed
  <2>1. phase \in Seeding
    BY <1>12 DEF ConstructiveSeed, Seeding
  <2>2. PICK plan \in case.constructive : Abort \/ Seeded(plan, AfterSeed)
    BY <1>12 DEF ConstructiveSeed
  <2>3. PlanOfWindow(plan)
    <3>1. plan # None
      BY <1>1, CaseFacts
    <3> QED BY <1>6, <3>1
  <2> QED BY <1>2, <1>4, <1>5, <2>1, <2>2, <2>3
<1>13. CASE ReanchorSeed
  <2>1. phase \in Seeding /\ "complete" \in Seeding
    BY <1>13 DEF ReanchorSeed, Seeding
  <2>2. PlanOfWindow(Reanchored(seed))
    BY <1>1, ReanchoredPlan
  <2>3. Seeded(Reanchored(seed), "complete") \/ Abort
    BY <1>13 DEF ReanchorSeed
  <2> QED BY <1>4, <1>5, <2>1, <2>2, <2>3
<1>14. CASE CompleteSeed
  <2>1. phase \in Seeding /\ "seeded" \in Seeding
    BY <1>14 DEF CompleteSeed, Seeding
  <2>2. \/ \E s \in GreedyOutcomes(seed, Free \ DOMAIN seed) : Seeded(Around(seed, s), "seeded")
        \/ GoTo("seeded")
    BY <1>14 DEF CompleteSeed
  <2>3. ASSUME NEW s \in GreedyOutcomes(seed, Free \ DOMAIN seed), Seeded(Around(seed, s), "seeded")
        PROVE  SeedingStep
    <3> DEFINE ops == Free \ DOMAIN seed
    <3>1. ops \in SUBSET Free /\ s \in GreedyOutcomes(seed, ops)
      BY <2>3
    <3> HIDE DEF ops
    <3>2. PlanOfWindow(Around(seed, s))
      BY <1>1, <3>1, CompletedPlan
    <3> QED BY <1>5, <2>1, <2>3, <3>2
  <2> QED BY <1>3, <2>1, <2>2, <2>3
<1> QED BY <1>7, <1>8, <1>9, <1>10, <1>11, <1>12, <1>13, <1>14

LEMMA SeedingKeepsInv ==
  ASSUME RunInv, SeedingStep PROVE RunInv'
<1>1. /\ phase \in Seeding /\ phase' \in Seeding \cup {"done"}
      /\ case' = case /\ current' = current /\ value' = value /\ best' = best
      /\ bestValue' = bestValue /\ destroyed' = destroyed
      /\ seed' = seed \/ PlanOfWindow(seed')
      /\ outcome' = outcome \/ (phase' = "done" /\ outcome'.from = "seeding")
  BY DEF SeedingStep, SearchUntouched
<1>2. Free' = Free
  BY <1>1 DEF Free, frozen
<1>3. value = None /\ "done" \notin Seeding /\ phase' \notin Searching
  BY <1>1 DEF RunInv, Seeding, Searching
<1>4. PlanOfWindow(seed)' /\ PlanOfWindow(current)' /\ PlanOfWindow(best)'
  BY <1>1, <1>2 DEF RunInv, PlanOfWindow
<1>5. outcome' # None => /\ phase' = "done"
                         /\ outcome'.from # "seeding" => CostOfPlan(outcome.plan)' <= CostOfPlan(seed)'
  <2>1. outcome = None
    BY <1>1, <1>3 DEF RunInv
  <2> QED BY <1>1, <2>1
<1>6. ClosedIn(Free, destroyed)' /\ Cardinality(destroyed') <= MaxDestroy
  BY <1>1, <1>2 DEF RunInv, ClosedIn
<1>7. case' \in Cases /\ phase' \in Seeding \cup Searching \cup {"done"} /\ value' = None
  BY <1>1, <1>3 DEF RunInv
<1> QED BY <1>3, <1>4, <1>5, <1>6, <1>7 DEF RunInv

(* A step of the search: a move keeps its value true and the best schedule *)
(* no worse, an answer costs no more than the seed.                        *)
SearchStep ==
  /\ case' = case /\ seed' = seed
  /\ phase' \in Searching \cup {"done"}
  /\ PlanOfWindow(current') /\ PlanOfWindow(best')
  /\ ClosedIn(Free, destroyed') /\ Cardinality(destroyed') <= MaxDestroy
  /\ Valued(current', value', best', bestValue', seed)
  /\ \/ outcome' = outcome
     \/ phase' = "done" /\ CostOfPlan(outcome'.plan) <= CostOfPlan(seed)

LEMMA SearchKeepsInv ==
  ASSUME RunInv, phase # "done", SearchStep PROVE RunInv'
<1>1. Free' = Free /\ case' = case /\ seed' = seed
  BY DEF SearchStep, Free, frozen
<1>2. PlanOfWindow(seed)' /\ PlanOfWindow(current)' /\ PlanOfWindow(best)'
  BY <1>1 DEF SearchStep, RunInv, PlanOfWindow
<1>3. ClosedIn(Free, destroyed)' /\ Cardinality(destroyed') <= MaxDestroy
  BY <1>1 DEF SearchStep, ClosedIn
<1>4. Valued(current, value, best, bestValue, seed)'
  BY <1>1 DEF SearchStep, Valued
<1>5. outcome = None
  BY DEF RunInv
<1>6. outcome' # None => /\ phase' = "done"
                         /\ outcome'.from # "seeding" => CostOfPlan(outcome.plan)' <= CostOfPlan(seed)'
  BY <1>1, <1>5 DEF SearchStep
<1>7. /\ case' \in Cases /\ phase' \in Seeding \cup Searching \cup {"done"}
      /\ phase' \notin Seeding
  BY <1>1 DEF SearchStep, RunInv, Seeding, Searching
<1> QED BY <1>2, <1>3, <1>4, <1>6, <1>7 DEF RunInv

(* Moves to a candidate. *)
LEMMA MovesAreSearchSteps ==
  ASSUME RunInv, phase = "repairing", NEW candidate, PlanOfWindow(candidate),
         NEW v, v = ValueOf(CacheOf(candidate), candidate),
         NewBest(candidate, v) \/ Better(candidate, v) \/ NoBetter(candidate, v)
  PROVE  SearchStep
<1>1. /\ Typed(candidate) /\ Typed(best) /\ Typed(seed)
      /\ PlanOfWindow(current) /\ PlanOfWindow(best)
      /\ Valued(current, value, best, bestValue, seed)
  BY DEF RunInv, PlanOfWindow, Searching
<1>2. CostOfPlan(candidate) \in Nat /\ CostOfPlan(best) \in Nat /\ CostOfPlan(seed) \in Nat
  BY <1>1, PlanCostFacts
<1>3. ScalarCost(v) = CostOfPlan(candidate)
  BY <1>1, CostOfCache
<1>4. ASSUME NEW k, NextIteration(k)
      PROVE  /\ case' = case /\ seed' = seed /\ outcome' = outcome /\ phase' \in Searching
             /\ ClosedIn(Free, destroyed') /\ Cardinality(destroyed') <= MaxDestroy
  BY <1>4, NothingIsClosed DEF NextIteration, Searching
<1>5. CASE NewBest(candidate, v)
  <2>1. /\ current' = candidate /\ value' = v /\ best' = candidate /\ bestValue' = v
        /\ NextIteration(0) /\ ScalarCost(v) < ScalarCost(bestValue)
    BY <1>5 DEF NewBest, MoveTo
  <2>2. CostOfPlan(candidate) <= CostOfPlan(seed)
    BY <1>1, <1>2, <1>3, <2>1 DEF Valued
  <2>3. Valued(current', value', best', bestValue', seed)
    BY <1>3, <2>1, <2>2 DEF Valued
  <2> QED BY <1>4, <2>1, <2>3 DEF SearchStep
<1>6. CASE Better(candidate, v) \/ NoBetter(candidate, v)
  <2>1. /\ \/ current' = candidate /\ value' = v
           \/ current' = current /\ value' = value
        /\ best' = best /\ bestValue' = bestValue
        /\ \E k : NextIteration(k)
    BY <1>6 DEF Better, NoBetter, MoveTo
  <2>2. PlanOfWindow(current') /\ PlanOfWindow(best')
    BY <1>1, <2>1
  <2>3. Valued(current', value', best', bestValue', seed)
    BY <1>1, <2>1 DEF Valued
  <2> QED BY <1>4, <2>1, <2>2, <2>3 DEF SearchStep
<1> QED BY <1>5, <1>6

LEMMA SearchSteps ==
  ASSUME RunInv,
         \/ StopSearch \/ Finalize \/ InitSearch \/ SkipSearch \/ DestroyNothing \/ Destroy
         \/ RepairFails \/ Repair
  PROVE  phase # "done" /\ SearchStep
<1>1. /\ case \in Cases /\ PlanOfWindow(seed) /\ PlanOfWindow(current) /\ PlanOfWindow(best)
      /\ ClosedIn(Free, destroyed) /\ Cardinality(destroyed) <= MaxDestroy
      /\ phase \in Searching => Valued(current, value, best, bestValue, seed)
  BY DEF RunInv
<1>2. CostOfPlan(seed) \in Nat /\ CostOfPlan(RecomputeSetups(best)) = CostOfPlan(best)
  BY <1>1, PlanCostFacts, RestampedPlan DEF PlanOfWindow
<1>3. CASE StopSearch \/ RepairFails
  BY <1>1, <1>3, NothingIsClosed DEF StopSearch, RepairFails, SearchStep, Searching
<1>4. CASE InitSearch
  <2> DEFINE v == ValueOf(CacheOf(seed), seed)
  <2>1. /\ phase = "seeded" /\ current' = seed /\ value' = v /\ best' = seed /\ bestValue' = v
        /\ phase' = "searching"
        /\ case' = case /\ seed' = seed /\ destroyed' = destroyed /\ outcome' = outcome
    BY <1>4 DEF InitSearch
  <2>2. ScalarCost(v) = CostOfPlan(seed)
    BY <1>1, CostOfCache DEF PlanOfWindow
  <2>3. Valued(current', value', best', bestValue', seed)
    BY <1>2, <2>1, <2>2 DEF Valued
  <2> QED BY <1>1, <2>1, <2>3 DEF SearchStep, Searching
<1>5. CASE SkipSearch
  <2>1. /\ phase = "searching" /\ phase' = "done" /\ outcome'.plan = RecomputeSetups(best)
        /\ UNCHANGED <<case, seed, current, value, best, bestValue, destroyed>>
    BY <1>5 DEF SkipSearch
  <2>2. Valued(current, value, best, bestValue, seed)
    BY <1>1, <2>1 DEF Searching
  <2>3. CostOfPlan(outcome'.plan) <= CostOfPlan(seed)
    BY <1>2, <2>1, <2>2 DEF Valued
  <2> QED BY <1>1, <2>1, <2>2, <2>3 DEF SearchStep
<1>6. CASE Finalize
  <2>1. /\ phase = "finalizing" /\ phase' = "done" /\ outcome'.plan \in {seed, RecomputeSetups(best)}
        /\ UNCHANGED <<case, seed, current, value, best, bestValue, destroyed>>
    BY <1>6 DEF Finalize
  <2>2. Valued(current, value, best, bestValue, seed)
    BY <1>1, <2>1 DEF Searching
  <2>3. CostOfPlan(outcome'.plan) <= CostOfPlan(seed)
    BY <1>2, <2>1, <2>2 DEF Valued
  <2> QED BY <1>1, <2>1, <2>2, <2>3 DEF SearchStep
<1>7. CASE DestroyNothing \/ Destroy
  <2>1. /\ phase = "searching" /\ phase' \in {"searching", "repairing"}
        /\ UNCHANGED <<case, seed, current, value, best, bestValue, outcome>>
        /\ destroyed' = destroyed \/ destroyed' \in DestroySets
    BY <1>7 DEF DestroyNothing, Destroy
  <2>2. ClosedIn(Free, destroyed') /\ Cardinality(destroyed') <= MaxDestroy
    <3>1. CASE destroyed' = destroyed
      BY <1>1, <3>1
    <3>2. CASE destroyed' \in DestroySets
      <4> DEFINE s == destroyed'
      <4>1. s \in DestroySets
        BY <3>2
      <4> HIDE DEF s
      <4>2. ClosedIn(Free, s) /\ Cardinality(s) <= MaxDestroy
        BY <1>1, <4>1, DestroySetsAreClosed
      <4> QED BY <4>2 DEF s
    <3> QED BY <2>1, <3>1, <3>2
  <2> QED BY <1>1, <2>1, <2>2 DEF SearchStep, Searching
<1>8. CASE Repair
  <2>1. phase = "repairing"
    BY <1>8 DEF Repair
  <2>2. PICK candidate \in Candidates :
          /\ IsSane(candidate)
          /\ \E v \in {ValueOfMove(candidate)} :
               NewBest(candidate, v) \/ Better(candidate, v) \/ NoBetter(candidate, v)
    BY <1>8 DEF Repair
  <2>3. value.cache = CacheOf(current)
    <3>1. value = ValueOf(CacheOf(current), current)
      BY <1>1, <2>1 DEF Valued, Searching
    <3> QED BY <3>1 DEF ValueOf
  <2> DEFINE v == ValueOfMove(candidate)
  <2>4. PlanOfWindow(candidate) /\ v = ValueOf(CacheOf(candidate), candidate)
    BY <1>1, <2>2, <2>3, CandidateFacts
  <2>5. NewBest(candidate, v) \/ Better(candidate, v) \/ NoBetter(candidate, v)
    BY <2>2
  <2> HIDE DEF v
  <2> QED BY <2>1, <2>4, <2>5, MovesAreSearchSteps
<1> QED BY <1>3, <1>4, <1>5, <1>6, <1>7, <1>8

(* The invariant holds, whatever is drawn, repaired and accepted.          *)
THEOREM RunInvHolds == AlnsSpec => []RunInv
<1>1. AlnsInit => RunInv
  <2> SUFFICES ASSUME AlnsInit PROVE RunInv
    OBVIOUS
  <2>1. /\ case \in Cases /\ phase = "warm" /\ seed = Empty /\ current = Empty /\ best = Empty
        /\ value = None /\ destroyed = {} /\ outcome = None
    BY DEF AlnsInit
  <2>2. PlanOfWindow(Empty)
    BY EmptyIsTyped DEF PlanOfWindow
  <2>3. ClosedIn(Free, destroyed) /\ Cardinality(destroyed) <= MaxDestroy
    BY <2>1, NothingIsClosed
  <2> QED BY <2>1, <2>2, <2>3 DEF RunInv, Seeding, Searching
<1>2. RunInv /\ [AlnsNext]_alnsVars => RunInv'
  <2> SUFFICES ASSUME RunInv, [AlnsNext]_alnsVars PROVE RunInv'
    OBVIOUS
  <2>1. CASE UNCHANGED alnsVars
    <3>1. /\ case' = case /\ phase' = phase /\ seed' = seed /\ current' = current /\ value' = value
          /\ best' = best /\ bestValue' = bestValue /\ destroyed' = destroyed /\ outcome' = outcome
          /\ Free' = Free
      BY <2>1 DEF alnsVars, Free, frozen
    <3> QED BY <3>1 DEF RunInv, PlanOfWindow, ClosedIn, Valued
  <2>2. CASE \/ OutOfSeedingTime \/ TryWarmStart \/ TryFrozenSeed \/ TryNativeSeed \/ TryCoverSeed
             \/ ConstructiveSeed \/ ReanchorSeed \/ CompleteSeed
    BY <2>2, SeedingSteps, SeedingKeepsInv
  <2>3. CASE \/ StopSearch \/ Finalize \/ InitSearch \/ SkipSearch \/ DestroyNothing \/ Destroy
             \/ RepairFails \/ Repair
    BY <2>3, SearchSteps, SearchKeepsInv
  <2> QED BY <2>1, <2>2, <2>3 DEF AlnsNext
<1> QED BY <1>1, <1>2, PTL DEF AlnsSpec

(* Incremental evaluation is the full one: after any series of accepted    *)
(* and refused moves the value and the best value are those of the         *)
(* schedules they belong to.                                               *)
THEOREM CostsStayTrue == AlnsSpec => []CostsAreTrue
<1>1. RunInv => CostsAreTrue
  <2> SUFFICES ASSUME RunInv, value # None
               PROVE  /\ value = ValueOf(CacheOf(current), current)
                      /\ ScalarCost(value) = ScalarCost(evaluate(current))
                      /\ ScalarCost(bestValue) = ScalarCost(evaluate(best))
    BY DEF CostsAreTrue
  <2>1. Valued(current, value, best, bestValue, seed) /\ Typed(current)
    BY DEF RunInv, PlanOfWindow
  <2>2. ScalarCost(ValueOf(CacheOf(current), current)) = CostOfPlan(current)
    BY <2>1, CostOfCache
  <2> QED BY <2>1, <2>2 DEF Valued, CostOfPlan
<1> QED BY <1>1, RunInvHolds, PTL

(* What is returned costs no more than the seed. *)
THEOREM AnswerNeverCostsMore == AlnsSpec => []NeverWorseThanSeed
<1>1. RunInv => NeverWorseThanSeed
  BY DEF RunInv, NeverWorseThanSeed, CostOfPlan
<1> QED BY <1>1, RunInvHolds, PTL

(* No kept operation waits for one that is being moved. *)
THEOREM DestroyedStaysClosed == AlnsSpec => []DestroyedIsClosed
<1>1. RunInv => DestroyedIsClosed
  <2> SUFFICES ASSUME RunInv PROVE DestroyedIsClosed
    OBVIOUS
  <2>1. Free \in SUBSET Ops /\ ClosedIn(Free, destroyed) /\ Cardinality(destroyed) <= MaxDestroy
    BY DEF RunInv, Free
  <2>2. SuccessorClosure(Free, destroyed) = destroyed
    BY <2>1, ClosedIsItsClosure
  <2> QED BY <2>1, <2>2 DEF DestroyedIsClosed
<1> QED BY <1>1, RunInvHolds, PTL

-----------------------------------------------------------------------------
(* The window walks the sequences everybody walks. *)
LEMMA SeenSequence ==
  ASSUME NEW old, NEW at
  PROVE  /\ \A m : Seen(old)!On(at, m) = On(at, m)
         /\ \A m, p, f : Seen(old)!Follows(at, m, p, f) <=> Follows(at, m, p, f)
         /\ \A o : Seen(old)!Predecessor(at, o) = Predecessor(at, o)
<1>1. \A m : Seen(old)!On(at, m) = On(at, m)
  BY DEF Seen!On, On
<1>2. \A m, p, f : Seen(old)!Follows(at, m, p, f) <=> Follows(at, m, p, f)
  BY <1>1 DEF Seen!Follows, Follows
<1>3. ASSUME NEW o PROVE Seen(old)!Predecessor(at, o) = Predecessor(at, o)
  BY DEF Seen!Predecessor, Predecessor, Seen!Follows, Follows, Seen!On, On
<1> QED BY <1>1, <1>2, <1>3

(* It sees no setup next to frozen work, and the true ones elsewhere. *)
LEMMA SeenSetup ==
  ASSUME NEW old, NEW m \in Machines, NEW x \in Ops, NEW y \in Ops
  PROVE  /\ Seen(old)!SetupBetween(m, x, y) \in Nat
         /\ Seen(old)!SetupBetween(m, x, y) <= SetupBetween(m, x, y)
         /\ {x, y} \cap DOMAIN old = {} => Seen(old)!SetupBetween(m, x, y) = SetupBetween(m, x, y)
         /\ {x, y} \cap DOMAIN old # {} => Seen(old)!SetupBetween(m, x, y) = 0
<1> DEFINE state == [z \in Ops |-> IF z \in DOMAIN old THEN None ELSE StateOf[z]]
           table == [k \in Machines |-> [s \in States \cup {None} |-> [t \in States \cup {None} |->
                       IF None \in {s, t} THEN 0 ELSE SetupMinutes[k][s][t]]]]
<1>1. Seen(old)!SetupBetween(m, x, y) = table[m][state[x]][state[y]]
  BY DEF Seen!SetupBetween
<1>2. \A z \in Ops : /\ state[z] = IF z \in DOMAIN old THEN None ELSE StateOf[z]
                     /\ state[z] \in States \cup {None}
                     /\ StateOf[z] \in States /\ StateOf[z] # None
  BY DispatchTimelineAssumption, AlnsRunAssumption DEF DispatchTimelineAssumption, AlnsRunAssumption
<1>3. \A s, t \in States \cup {None} :
        table[m][s][t] = IF None \in {s, t} THEN 0 ELSE SetupMinutes[m][s][t]
  OBVIOUS
<1>4. \A s, t \in States : SetupMinutes[m][s][t] \in Nat
  BY DispatchTimelineAssumption DEF DispatchTimelineAssumption
<1> HIDE DEF state, table
<1>5. table[m][state[x]][state[y]] =
        IF None \in {state[x], state[y]} THEN 0 ELSE SetupMinutes[m][state[x]][state[y]]
  BY <1>2, <1>3
<1>6. SetupBetween(m, x, y) = SetupMinutes[m][StateOf[x]][StateOf[y]] /\ SetupBetween(m, x, y) \in Nat
  BY <1>2, <1>4 DEF SetupBetween
<1>7. CASE {x, y} \cap DOMAIN old = {}
  BY <1>1, <1>2, <1>5, <1>6, <1>7
<1>8. CASE {x, y} \cap DOMAIN old # {}
  BY <1>1, <1>2, <1>5, <1>6, <1>8
<1> QED BY <1>7, <1>8

(* The setup it sees before an operation is never longer than the true one. *)
LEMMA SeenActualSetup ==
  ASSUME NEW old, NEW at, Typed(at), NEW o \in DOMAIN at
  PROVE  /\ Seen(old)!ActualSetup(at, o) \in Nat
         /\ Seen(old)!ActualSetup(at, o) <= ActualSetup(at, o)
         /\ ({o, Predecessor(at, o)} \cap DOMAIN old = {} =>
               Seen(old)!ActualSetup(at, o) = ActualSetup(at, o))
         /\ ({o, Predecessor(at, o)} \cap DOMAIN old # {} => Seen(old)!ActualSetup(at, o) = 0)
<1> DEFINE p == Predecessor(at, o)
           m == at[o].wc
<1>1. p \in DOMAIN at \cup {None}
  BY PredecessorFollows DEF Typed
<1>2. m \in Machines /\ o \in Ops
  BY TypedFacts
<1>3. Seen(old)!ActualSetup(at, o) = IF p = None THEN 0 ELSE Seen(old)!SetupBetween(m, p, o)
  BY SeenSequence DEF Seen!ActualSetup, Seen!SetupAfter
<1>4. ActualSetup(at, o) = IF p = None THEN 0 ELSE SetupBetween(m, p, o)
  BY DEF ActualSetup, SetupAfter
<1> HIDE DEF p, m
<1>5. CASE p = None
  BY <1>3, <1>4, <1>5 DEF p
<1>6. CASE p # None
  <2>1. p \in Ops
    BY <1>1, <1>6, TypedFacts
  <2>2. /\ Seen(old)!SetupBetween(m, p, o) \in Nat
        /\ Seen(old)!SetupBetween(m, p, o) <= SetupBetween(m, p, o)
        /\ {p, o} \cap DOMAIN old = {} => Seen(old)!SetupBetween(m, p, o) = SetupBetween(m, p, o)
        /\ {p, o} \cap DOMAIN old # {} => Seen(old)!SetupBetween(m, p, o) = 0
    BY <1>2, <2>1, SeenSetup
  <2> QED BY <1>3, <1>4, <1>6, <2>2 DEF p
<1> QED BY <1>5, <1>6

(* What it sees of the window of an operation on a machine without        *)
(* overlaps.                                                               *)
LEMMA SeenWindow ==
  ASSUME NEW old, NEW at, Typed(at), NEW o \in DOMAIN at, NoOverlapOn(at, at[o].wc)
  PROVE  /\ Seen(old)!OccupiedFrom(at, Everything, o) = Seen(old)!Window(at, o).from
         /\ Seen(old)!Window(at, o).from = at[o].start - Seen(old)!ActualSetup(at, o)
         /\ Seen(old)!Window(at, o).to = at[o].end
         /\ Seen(old)!Window(at, o).from \in Int
<1> DEFINE p == Predecessor(at, o)
           m == at[o].wc
           setup == Seen(old)!ActualSetup(at, o)
<1>1. m \in Everything.machines /\ at[o].start \in Int /\ setup \in Nat
  BY TypedFacts, SeenActualSetup DEF Everything
<1>2. Seen(old)!Window(at, o) = [from |-> at[o].start - setup, to |-> at[o].end]
  BY DEF Seen!Window
<1>3. setup = IF p = None THEN 0 ELSE Seen(old)!SetupBetween(m, p, o)
  BY SeenSequence DEF Seen!ActualSetup, Seen!SetupAfter
<1>4. Seen(old)!OccupiedFrom(at, Everything, o) =
        at[o].start - (IF p = None THEN 0
                       ELSE IF m \notin Everything.machines THEN at[o].setup
                       ELSE IF at[p].end > at[o].start THEN 0
                       ELSE Seen(old)!SetupBetween(m, p, o))
  BY SeenSequence DEF Seen!OccupiedFrom
<1>5. p # None => ~ at[p].end > at[o].start
  <2>1. SUFFICES ASSUME p # None PROVE ~ at[p].end > at[o].start
    OBVIOUS
  <2>2. p \in DOMAIN at /\ at[p].end <= at[o].start
    BY <2>1, WalkedNeighbours
  <2>3. at[p].end \in Int /\ at[o].start \in Int
    BY <2>2, TypedFacts
  <2> HIDE DEF p
  <2> QED BY <2>2, <2>3
<1> HIDE DEF p, m, setup
<1>6. Seen(old)!OccupiedFrom(at, Everything, o) = at[o].start - setup
  BY <1>1, <1>3, <1>4, <1>5
<1> QED BY <1>1, <1>2, <1>6 DEF setup

-----------------------------------------------------------------------------
(* What the notary of a window says. *)
LEMMA SeenFamilies ==
  ASSUME NEW old, NEW ops, NEW at, NEW v
  PROVE  v \in Seen(old)!Check(ops, at, Everything) <=>
           \/ v \in Seen(old)!Missing(ops, at) \/ v \in Seen(old)!Ineligible(at, Everything)
           \/ v \in Seen(old)!TornChains(at, Everything) \/ v \in Seen(old)!BrokenEdges(at, Everything)
           \/ v \in Seen(old)!Overlaps(at, Everything) \/ v \in Seen(old)!ShortGaps(at, Everything)
           \/ v \in Seen(old)!OverloadedPools(at, Everything)
           \/ v \in Seen(old)!OutOfHorizon(at, Everything)
           \/ v \in Seen(old)!BeforeRelease(at, Everything)
           \/ v \in Seen(old)!OutOfShift(at, Everything)
BY DEF Seen!Check

(* The chains and edges a window knows are those among its operations.     *)
SeenPredecessorOf(old) ==
  [x \in Ops |-> IF {x, PredecessorOf[x]} \cap DOMAIN old = {} THEN PredecessorOf[x] ELSE None]

(* Nothing is said of an operation. *)
Silent(at, o) == \A v \in Seen(frozen)!Check(Free, at, Everything) : v[2] # o

(* What an operation asks for by itself. *)
InBounds(a, o) ==
  /\ a.wc \in EligibleFor[o]
  /\ Release[o] <= a.start /\ a.end <= HorizonEnd
  /\ LatestFinish[o] # None => a.end <= LatestFinish[o]

(* The bounds of an operation are numbers. *)
LEMMA BoundFacts ==
  ASSUME NEW o \in Ops
  PROVE  HorizonEnd \in Int /\ Release[o] \in Nat /\ LatestFinish[o] \in Int \cup {None}
BY ProblemFacts, PrecedenceAssumption, FeasibilityCheckerAssumption
DEF PrecedenceAssumption, FeasibilityCheckerAssumption

(* An operation the notary says nothing of is within its bounds. *)
LEMMA SilentIsInBounds ==
  ASSUME NEW at, Typed(at), NEW o \in DOMAIN at, Silent(at, o)
  PROVE  InBounds(at[o], o)
<1>1. /\ o \in Ops /\ o \in Everything.ops /\ at[o].start \in Int /\ at[o].end \in Int
      /\ HorizonEnd \in Int /\ Release[o] \in Int /\ LatestFinish[o] \in Int \cup {None}
  BY TypedFacts, BoundFacts DEF Everything
<1>2. at[o].wc \in EligibleFor[o]
  <2>1. SUFFICES ASSUME at[o].wc \notin EligibleFor[o] PROVE FALSE
    OBVIOUS
  <2>2. <<"INELIGIBLE_MACHINE", o>> \in Seen(frozen)!Ineligible(at, Everything)
    BY <1>1, <2>1 DEF Seen!Ineligible
  <2>3. <<"INELIGIBLE_MACHINE", o>> \in Seen(frozen)!Check(Free, at, Everything)
    BY <2>2, SeenFamilies
  <2> QED BY <2>3 DEF Silent
<1>3. Release[o] <= at[o].start
  <2>1. SUFFICES ASSUME at[o].start < Release[o] PROVE FALSE
    BY <1>1
  <2>2. <<"RELEASE_DATE_VIOLATION", o>> \in Seen(frozen)!BeforeRelease(at, Everything)
    BY <1>1, <2>1 DEF Seen!BeforeRelease
  <2>3. <<"RELEASE_DATE_VIOLATION", o>> \in Seen(frozen)!Check(Free, at, Everything)
    BY <2>2, SeenFamilies
  <2> QED BY <2>3 DEF Silent
<1>4. at[o].end <= HorizonEnd /\ (LatestFinish[o] # None => at[o].end <= LatestFinish[o])
  <2>1. ASSUME at[o].end > HorizonEnd \/ (LatestFinish[o] # None /\ at[o].end > LatestFinish[o])
        PROVE  FALSE
    <3>1. <<"HORIZON_BOUND_VIOLATION", o>> \in Seen(frozen)!OutOfHorizon(at, Everything)
      BY <1>1, <2>1 DEF Seen!OutOfHorizon
    <3>2. <<"HORIZON_BOUND_VIOLATION", o>> \in Seen(frozen)!Check(Free, at, Everything)
      BY <3>1, SeenFamilies
    <3> QED BY <3>2 DEF Silent
  <2>2. ~ (at[o].end > HorizonEnd) /\ ~ (LatestFinish[o] # None /\ at[o].end > LatestFinish[o])
    BY <2>1
  <2> QED BY <1>1, <2>2
<1> QED BY <1>2, <1>3, <1>4 DEF InBounds

(* In its shift, with the setup the window sees. *)
LEMMA SilentIsInShift ==
  ASSUME NEW at, Typed(at), NEW o \in DOMAIN at, NoOverlapOn(at, at[o].wc), Silent(at, o)
  PROVE  Seen(frozen)!WithinShift(at, o)
<1> DEFINE w == Seen(frozen)!Window(at, o)
           shifts == Calendar[at[o].wc]
<1>1. /\ o \in Everything.ops /\ at[o].start \in Int /\ at[o].setup \in Nat /\ at[o].end \in Int
      /\ \A shift \in shifts : shift.open \in Int
  BY TypedFacts, DispatchTimelineAssumption DEF Everything, DispatchTimelineAssumption
<1>2. /\ Seen(frozen)!OccupiedFrom(at, Everything, o) = w.from
      /\ w.to = at[o].end /\ w.from \in Int
  BY SeenWindow
<1>3. Seen(frozen)!WithinShift(at, o) <=>
        shifts = {} \/ \E shift \in shifts : shift.open <= w.from /\ w.to <= shift.close
  BY DEF Seen!WithinShift
<1> HIDE DEF w
<1>4. SUFFICES ASSUME shifts # {}
               PROVE  \E shift \in shifts : shift.open <= w.from /\ w.to <= shift.close
  BY <1>3
<1> DEFINE from == -Seen(frozen)!Larger(at[o].setup - at[o].start,
                                        -Seen(frozen)!OccupiedFrom(at, Everything, o))
<1>5. \E shift \in shifts : shift.open <= from /\ at[o].end <= shift.close
  <2>1. SUFFICES ASSUME ~ \E shift \in shifts : shift.open <= from /\ at[o].end <= shift.close
                 PROVE  FALSE
    OBVIOUS
  <2>2. <<"CALENDAR_VIOLATION", o>> \in Seen(frozen)!OutOfShift(at, Everything)
    BY <1>1, <1>4, <2>1 DEF Seen!OutOfShift
  <2>3. <<"CALENDAR_VIOLATION", o>> \in Seen(frozen)!Check(Free, at, Everything)
    BY <2>2, SeenFamilies
  <2> QED BY <2>3 DEF Silent
<1>6. from \in Int /\ from <= w.from
  BY <1>1, <1>2 DEF Seen!Larger
<1> HIDE DEF from
<1> QED BY <1>1, <1>2, <1>5, <1>6

(* The predecessor a window sees is the true one between two free          *)
(* operations, and none it could place elsewhere.                          *)
LEMMA SeenPredecessorIsNone ==
  ASSUME NEW at, Typed(at), NEW o \in Ops
  PROVE  /\ SeenPredecessorOf(frozen)[o] \in DOMAIN at =>
              SeenPredecessorOf(frozen)[o] = PredecessorOf[o] /\ {o, PredecessorOf[o]} \subseteq Free
         /\ {o, PredecessorOf[o]} \subseteq Free => SeenPredecessorOf(frozen)[o] = PredecessorOf[o]
<1>1. None \notin DOMAIN at /\ DOMAIN at \subseteq Ops
  BY TypedFacts
<1>2. SeenPredecessorOf(frozen)[o] = IF {o, PredecessorOf[o]} \cap DOMAIN frozen = {}
                                       THEN PredecessorOf[o] ELSE None
  BY DEF SeenPredecessorOf
<1> QED BY <1>1, <1>2 DEF Free

(* A free operation nothing is said of starts after its free predecessor,  *)
(* ...                                                                     *)
LEMMA SilentChains ==
  ASSUME NEW at, Typed(at), NEW o \in DOMAIN at, Silent(at, o),
         {o, PredecessorOf[o]} \subseteq Free, PredecessorOf[o] \in DOMAIN at
  PROVE  at[PredecessorOf[o]].end <= at[o].start
<1> DEFINE p == PredecessorOf[o]
<1>1. /\ o \in Ops /\ o \in Everything.ops /\ at[o].start \in Int /\ at[p].end \in Int
  BY TypedFacts DEF Everything
<1>2. SeenPredecessorOf(frozen)[o] = p
  BY <1>1, SeenPredecessorIsNone
<1>3. SUFFICES ASSUME at[o].start < at[p].end PROVE FALSE
  BY <1>1
<1>4. Seen(frozen)!TornChains(at, Everything) =
        {<<"PRECEDENCE_VIOLATION", x>> : x \in
           {y \in DOMAIN at :
              /\ SeenPredecessorOf(frozen)[y] \in DOMAIN at
              /\ {y, SeenPredecessorOf(frozen)[y]} \cap Everything.ops # {}
              /\ at[y].start < at[SeenPredecessorOf(frozen)[y]].end}}
  BY DEF Seen!TornChains, SeenPredecessorOf
<1>5. <<"PRECEDENCE_VIOLATION", o>> \in Seen(frozen)!TornChains(at, Everything)
  BY <1>1, <1>2, <1>3, <1>4
<1>6. <<"PRECEDENCE_VIOLATION", o>> \in Seen(frozen)!Check(Free, at, Everything)
  BY <1>5, SeenFamilies
<1> QED BY <1>6 DEF Silent

(* ... and keeps the lag of every edge that ends at it. *)
LEMMA SilentEdges ==
  ASSUME NEW at, Typed(at), NEW e \in Edges, {e.src, e.dst} \subseteq DOMAIN at,
         {e.src, e.dst} \subseteq Free, Silent(at, e.dst)
  PROVE  EdgeAnchors(at, e).src + e.min_lag <= EdgeAnchors(at, e).dst
<1>1. /\ e.src \in DOMAIN at /\ e.dst \in DOMAIN at /\ e.min_lag \in Int
      /\ {e.src, e.dst} \cap Everything.ops # {} /\ {e.src, e.dst} \cap DOMAIN frozen = {}
  BY TypedFacts, PrecedenceAssumption DEF PrecedenceAssumption, Everything, Free
<1>2. EdgeAnchors(at, e).src \in Int /\ EdgeAnchors(at, e).dst \in Int
  <2>1. /\ at[e.src].start \in Int /\ at[e.src].end \in Int
        /\ at[e.dst].start \in Int /\ at[e.dst].end \in Int
    BY <1>1, TypedFacts
  <2> QED BY <2>1 DEF EdgeAnchors
<1>3. SUFFICES ASSUME EdgeAnchors(at, e).dst < EdgeAnchors(at, e).src + e.min_lag PROVE FALSE
  BY <1>1, <1>2
<1>4. Seen(frozen)!EdgeAnchors(at, e) = EdgeAnchors(at, e)
  BY DEF Seen!EdgeAnchors, EdgeAnchors
<1>5. <<"PRECEDENCE_EDGE_VIOLATION", e.dst>> \in Seen(frozen)!BrokenEdges(at, Everything)
  BY <1>1, <1>3, <1>4 DEF Seen!BrokenEdges
<1>6. <<"PRECEDENCE_EDGE_VIOLATION", e.dst>> \in Seen(frozen)!Check(Free, at, Everything)
  BY <1>5, SeenFamilies
<1> QED BY <1>6 DEF Silent

-----------------------------------------------------------------------------
(* A plan the final validation finds clean, next to the frozen work. *)
LEMMA BesideFacts ==
  ASSUME case \in Cases, NEW plan, PlanOfWindow(plan)
  PROVE  /\ Typed(WithFrozen(plan)) /\ DOMAIN WithFrozen(plan) = DOMAIN frozen \cup DOMAIN plan
         /\ \A o \in DOMAIN plan : WithFrozen(plan)[o] = plan[o]
         /\ \A o \in DOMAIN frozen : WithFrozen(plan)[o] = frozen[o]
         /\ DOMAIN plan \subseteq Free /\ Free \subseteq Ops /\ DOMAIN frozen \subseteq Ops \ Free
<1>1. Typed(frozen) /\ Typed(plan) /\ DOMAIN plan \subseteq Free /\ Free \in SUBSET Ops
  BY CaseFacts DEF PlanOfWindow
<1>2. DOMAIN frozen \subseteq Ops \ Free
  BY <1>1, TypedFacts DEF Free
<1>3. /\ Typed(Around(frozen, plan)) /\ DOMAIN Around(frozen, plan) = DOMAIN frozen \cup DOMAIN plan
      /\ \A o \in DOMAIN plan : Around(frozen, plan)[o] = plan[o]
      /\ \A o \in DOMAIN frozen \ DOMAIN plan : Around(frozen, plan)[o] = frozen[o]
  BY <1>1, AroundIsTyped
<1> QED BY <1>1, <1>2, <1>3 DEF WithFrozen

(* A clean plan is complete; next to the frozen work nothing is said of    *)
(* its operations, no machine overlaps, and the pools are respected.       *)
LEMMA CleanFacts ==
  ASSUME case \in Cases, NEW plan, PlanOfWindow(plan), IsClean(plan)
  PROVE  /\ DOMAIN plan = Free
         /\ \A o \in Free : Silent(WithFrozen(plan), o)
         /\ \A m \in Machines : NoOverlapOn(WithFrozen(plan), m)
         /\ Seen(frozen)!PoolsRespected(WithFrozen(plan))
<1> DEFINE all == WithFrozen(plan)
<1>1. \A v \in Seen(frozen)!Check(Free, all, Everything) : v[2] \notin Free /\ v[1] # "MACHINE_OVERLAP"
  BY DEF IsClean, WindowViolations
<1>2. Seen(frozen)!PoolsRespected(all)
  BY DEF IsClean, OccupancyConflict
<1>3. Typed(all) /\ DOMAIN all = DOMAIN frozen \cup DOMAIN plan /\ DOMAIN plan \subseteq Free
  BY BesideFacts
<1> HIDE DEF all
<1>4. \A o \in Free : Silent(all, o)
  BY <1>1 DEF Silent
<1>5. ASSUME NEW o \in Free PROVE o \in DOMAIN plan
  <2>1. SUFFICES ASSUME o \notin DOMAIN all PROVE FALSE
    BY <1>3 DEF Free
  <2>2. <<"MISSING_ASSIGNMENT", o>> \in Seen(frozen)!Missing(Free, all)
    BY <2>1 DEF Seen!Missing
  <2>3. <<"MISSING_ASSIGNMENT", o>> \in Seen(frozen)!Check(Free, all, Everything)
    BY <2>2, SeenFamilies
  <2> QED BY <1>1, <2>3
<1>6. ASSUME NEW m \in Machines PROVE NoOverlapOn(all, m)
  <2>1. SUFFICES ASSUME NEW x \in On(all, m), NEW p \in On(all, m), x # p,
                        all[p].start <= all[x].start, all[x].start < all[p].end
                 PROVE  FALSE
    BY DEF NoOverlapOn
  <2>2. /\ x \in DOMAIN all /\ all[x].wc = m /\ p \in Seen(frozen)!On(all, all[x].wc) \ {x}
        /\ m \in Everything.machines
    BY <2>1, SeenSequence DEF On, Everything
  <2>3. <<"MACHINE_OVERLAP", x>> \in Seen(frozen)!Overlaps(all, Everything)
    BY <2>1, <2>2 DEF Seen!Overlaps
  <2>4. <<"MACHINE_OVERLAP", x>> \in Seen(frozen)!Check(Free, all, Everything)
    BY <2>3, SeenFamilies
  <2> QED BY <1>1, <2>4
<1> QED BY <1>2, <1>3, <1>4, <1>5, <1>6 DEF all

(* Without frozen work a clean plan is separated. *)
LEMMA CleanIsSeparated ==
  ASSUME case \in Cases, frozen = Empty, NEW plan, PlanOfWindow(plan), IsClean(plan)
  PROVE  Separated(WithFrozen(plan))
<1> DEFINE all == WithFrozen(plan)
<1>1. /\ Typed(all) /\ DOMAIN frozen = {} /\ Free = Ops /\ DOMAIN all \subseteq Ops
  BY BesideFacts, EmptyIsTyped DEF Free
<1>2. (\A o \in Free : Silent(all, o)) /\ \A m \in Machines : NoOverlapOn(all, m)
  BY CleanFacts
<1> HIDE DEF all
<1>3. SUFFICES ASSUME ShortGaps(all, Everything) # {} PROVE FALSE
  BY <1>1, <1>2, CleanSequencesAreSeparated DEF all
<1>4. PICK x \in DOMAIN all :
         /\ all[x].wc \in Everything.machines
         /\ Predecessor(all, x) # None
         /\ all[Predecessor(all, x)].end <= all[x].start
         /\ all[x].start < all[Predecessor(all, x)].end + ActualSetup(all, x)
  BY <1>3 DEF ShortGaps
<1>5. Seen(frozen)!ActualSetup(all, x) = ActualSetup(all, x)
  BY <1>1, SeenActualSetup
<1>6. <<"SETUP_GAP_VIOLATION", x>> \in Seen(frozen)!ShortGaps(all, Everything)
  BY <1>4, <1>5, SeenSequence DEF Seen!ShortGaps
<1>7. <<"SETUP_GAP_VIOLATION", x>> \in Seen(frozen)!Check(Free, all, Everything)
  BY <1>6, SeenFamilies
<1>8. Silent(all, x)
  BY <1>1, <1>2
<1> QED BY <1>7, <1>8 DEF Silent

(* A clean plan that is separated and behind its frozen predecessors is    *)
(* legal in its window.                                                    *)
LEMMA CleanIsLegal ==
  ASSUME case \in Cases, NEW plan, PlanOfWindow(plan), IsClean(plan), FloorsHold(plan),
         Separated(WithFrozen(plan))
  PROVE  LegalInWindow(plan)
<1> DEFINE all == WithFrozen(plan)
<1>1. /\ Typed(all) /\ DOMAIN all = DOMAIN frozen \cup DOMAIN plan
      /\ \A o \in DOMAIN plan : all[o] = plan[o]
  BY BesideFacts
<1>2. /\ DOMAIN plan = Free /\ (\A o \in Free : Silent(all, o))
      /\ (\A m \in Machines : NoOverlapOn(all, m)) /\ Seen(frozen)!PoolsRespected(all)
  BY CleanFacts
<1>3. Separated(all)
  OBVIOUS
<1> HIDE DEF all
<1>4. ASSUME NEW o \in Free
      PROVE  InBounds(plan[o], o) /\ Seen(frozen)!WithinShift(all, o)
  <2>1. o \in DOMAIN all /\ Silent(all, o) /\ all[o] = plan[o] /\ all[o].wc \in Machines
    BY <1>1, <1>2, TypedFacts
  <2>2. InBounds(all[o], o) /\ Seen(frozen)!WithinShift(all, o)
    BY <1>1, <1>2, <2>1, SilentIsInBounds, SilentIsInShift
  <2> QED BY <2>1, <2>2
<1>5. ASSUME NEW o \in DOMAIN plan, PredecessorOf[o] \in DOMAIN plan
      PROVE  plan[PredecessorOf[o]].end <= plan[o].start
  <2>1. all[PredecessorOf[o]].end <= all[o].start
    BY <1>1, <1>2, <1>5, SilentChains
  <2> QED BY <1>1, <1>5, <2>1
<1>6. ASSUME NEW e \in Edges, {e.src, e.dst} \subseteq DOMAIN plan
      PROVE  EdgeAnchors(plan, e).src + e.min_lag <= EdgeAnchors(plan, e).dst
  <2>1. EdgeAnchors(all, e).src + e.min_lag <= EdgeAnchors(all, e).dst
    BY <1>1, <1>2, <1>6, SilentEdges
  <2>2. EdgeAnchors(all, e) = EdgeAnchors(plan, e)
    BY <1>1, <1>6 DEF EdgeAnchors
  <2> QED BY <2>1, <2>2
<1>7. ChainsHold(plan) /\ EdgesHold(plan, Edges)
  BY <1>5, <1>6 DEF ChainsHold, EdgesHold
<1> QED BY <1>2, <1>3, <1>4, <1>7 DEF LegalInWindow, InBounds, all

-----------------------------------------------------------------------------
(* What a window sees of the pools. *)
SeenNeedOf(old, r) == [o \in Ops |-> IF o \in DOMAIN old THEN 0 ELSE Needs[o][r]]

(* The use of a pool at a minute is the total of what its holders need,    *)
(* ...                                                                     *)
LEMMA SeenHeldIsTotal ==
  ASSUME NEW old, NEW windows, DOMAIN windows \subseteq Ops, NEW r \in Resources, NEW t
  PROVE  Seen(old)!Held(windows, r, t) = Total(SeenNeedOf(old, r), Holders(windows, t))
<1> DEFINE S == Holders(windows, t)
           f == SeenNeedOf(old, r)
           needs == [o \in Ops |-> [x \in Resources |-> IF o \in DOMAIN old THEN 0 ELSE Needs[o][x]]]
<1>1. Seen(old)!Held(windows, r, t) = MapThenSumSet(LAMBDA o : needs[o][r], S)
  BY DEF Seen!Held, Holders, Seen!MapThenSumSet, Seen!MapThenFoldSet, MapThenSumSet, MapThenFoldSet
<1>2. S \subseteq Ops /\ \A o \in Ops : needs[o][r] = f[o]
  BY DEF Holders, SeenNeedOf
<1> HIDE DEF S, needs, f
<1>3. MapThenSumSet(LAMBDA o : needs[o][r], S) = Total(f, S)
  <2> DEFINE g1 == CHOOSE g : g = [u \in SUBSET S |-> IF u = {} THEN 0 ELSE
                                needs[CHOOSE x \in u : TRUE][r] + g[u \ {CHOOSE x \in u : TRUE}]]
  <2>1. MapThenSumSet(LAMBDA o : needs[o][r], S) = g1[S]
    BY DEF MapThenSumSet, MapThenFoldSet
  <2>2. \A g : Sums(f, S, g) <=> g = [u \in SUBSET S |-> IF u = {} THEN 0 ELSE
                                needs[CHOOSE x \in u : TRUE][r] + g[u \ {CHOOSE x \in u : TRUE}]]
    <3>1. TAKE g
    <3>2. \A u \in SUBSET S : u # {} => f[Pick(u)] = needs[CHOOSE x \in u : TRUE][r]
      BY <1>2, PickIsElement DEF Pick
    <3>3. [u \in SUBSET S |-> IF u = {} THEN 0 ELSE f[Pick(u)] + g[u \ {Pick(u)}]]
          = [u \in SUBSET S |-> IF u = {} THEN 0 ELSE
                                needs[CHOOSE x \in u : TRUE][r] + g[u \ {CHOOSE x \in u : TRUE}]]
      <4> DEFINE a(u) == IF u = {} THEN 0 ELSE f[Pick(u)] + g[u \ {Pick(u)}]
                 b(u) == IF u = {} THEN 0 ELSE
                           needs[CHOOSE x \in u : TRUE][r] + g[u \ {CHOOSE x \in u : TRUE}]
      <4>1. \A u \in SUBSET S : a(u) = b(u)
        BY <3>2 DEF Pick
      <4> HIDE DEF a, b
      <4>2. [u \in SUBSET S |-> a(u)] = [u \in SUBSET S |-> b(u)]
        BY <4>1
      <4> QED BY <4>2 DEF a, b
    <3> QED BY <3>3 DEF Sums
  <2>3. (CHOOSE g : Sums(f, S, g)) = g1
    BY <2>2
  <2> HIDE DEF g1
  <2> QED BY <2>1, <2>3 DEF Total
<1> QED BY <1>1, <1>3 DEF S, f

(* Who needs nothing of a pool may be left out. *)
LEMMA SeenUsersHold ==
  ASSUME NEW old, NEW windows, DOMAIN windows \subseteq Ops, NEW r \in Resources,
         NEW users, DOMAIN users = {o \in DOMAIN windows : r \in Seen(old)!RequiredBy(o)},
         \A o \in DOMAIN users : users[o] = windows[o], NEW t
  PROVE  Seen(old)!Held(windows, r, t) = Seen(old)!Held(users, r, t)
<1> DEFINE f == SeenNeedOf(old, r)
           h == Holders(windows, t)
           k == Holders(users, t)
<1>1. \A o \in Ops : f[o] \in Nat /\ (r \in Seen(old)!RequiredBy(o) <=> f[o] > 0)
  <2> DEFINE needs == [o \in Ops |-> [x \in Resources |-> IF o \in DOMAIN old THEN 0 ELSE Needs[o][x]]]
  <2>1. \A o \in Ops : needs[o][r] = f[o] /\ f[o] \in Nat
    BY DispatchTimelineAssumption DEF SeenNeedOf, DispatchTimelineAssumption
  <2>2. \A o \in Ops : r \in Seen(old)!RequiredBy(o) <=> needs[o][r] > 0
    BY DEF Seen!RequiredBy
  <2> HIDE DEF needs, f
  <2> QED BY <2>1, <2>2
<1>2. h \subseteq Ops /\ IsFiniteSet(h) /\ k \in SUBSET h
  <2>1. h \subseteq Ops /\ k \in SUBSET h
    BY DEF Holders
  <2> QED BY <2>1, FS_Subset, DispatchTimelineAssumption DEF DispatchTimelineAssumption
<1>3. \A o \in h \ k : f[o] = 0
  <2>1. \A o \in h \ k : r \notin Seen(old)!RequiredBy(o)
    BY DEF Holders
  <2> HIDE DEF f, h, k
  <2> QED BY <1>1, <1>2, <2>1
<1>4. Seen(old)!Held(windows, r, t) = Total(f, h) /\ Seen(old)!Held(users, r, t) = Total(f, k)
  BY SeenHeldIsTotal
<1> HIDE DEF f, h, k
<1>5. \A o \in h : f[o] \in Nat
  BY <1>1, <1>2
<1>6. Total(f, h) = Total(f, k)
  BY <1>2, <1>3, <1>5, TotalIgnoresZeros
<1> QED BY <1>4, <1>6

(* ... a natural number. *)
LEMMA SeenHeldIsNat ==
  ASSUME NEW old, NEW windows, DOMAIN windows \subseteq Ops, NEW r \in Resources, NEW t
  PROVE  Seen(old)!Held(windows, r, t) \in Nat
<1> DEFINE f == SeenNeedOf(old, r)
           h == Holders(windows, t)
<1>1. h \subseteq Ops /\ IsFiniteSet(h) /\ (\A o \in Ops : f[o] \in Nat)
  <2>1. h \subseteq Ops
    BY DEF Holders
  <2> QED BY <2>1, FS_Subset, DispatchTimelineAssumption DEF DispatchTimelineAssumption, SeenNeedOf
<1>2. Seen(old)!Held(windows, r, t) = Total(f, h)
  BY SeenHeldIsTotal
<1> HIDE DEF f, h
<1>3. \A o \in h : f[o] \in Nat
  BY <1>1
<1> QED BY <1>1, <1>2, <1>3, TotalIsNat

(* With the pools respected at every minute nothing is said of them. *)
LEMMA RespectedPoolsAreSilent ==
  ASSUME NEW old, NEW at, Typed(at), \A m \in Machines : NoOverlapOn(at, m),
         Seen(old)!PoolsRespected(at)
  PROVE  Seen(old)!OverloadedPools(at, Everything) = {}
<1> DEFINE windows == [o \in DOMAIN at |-> [from |-> Seen(old)!OccupiedFrom(at, Everything, o), to |-> at[o].end]]
<1>1. ASSUME NEW o \in DOMAIN at
      PROVE  /\ windows[o] = Seen(old)!Window(at, o)
             /\ windows[o].from \in Int /\ windows[o].to \in Int /\ windows[o].from < windows[o].to
  <2> DEFINE w == Seen(old)!Window(at, o)
  <2>1. NoOverlapOn(at, at[o].wc) /\ at[o].start \in Int /\ at[o].end \in Int /\ at[o].start < at[o].end
    BY TypedFacts
  <2>2. /\ Seen(old)!OccupiedFrom(at, Everything, o) = w.from
        /\ w.from = at[o].start - Seen(old)!ActualSetup(at, o) /\ w.to = at[o].end /\ w.from \in Int
    BY <2>1, SeenWindow
  <2>3. Seen(old)!ActualSetup(at, o) \in Nat
    BY SeenActualSetup
  <2>4. w = [from |-> w.from, to |-> w.to]
    BY DEF Seen!Window
  <2>5. windows[o] = [from |-> Seen(old)!OccupiedFrom(at, Everything, o), to |-> at[o].end]
    OBVIOUS
  <2> HIDE DEF w, windows
  <2>6. windows[o] = w
    BY <2>2, <2>4, <2>5
  <2> QED BY <2>1, <2>2, <2>3, <2>6 DEF w
<1>2. DOMAIN windows = DOMAIN at /\ DOMAIN at \subseteq Ops
  BY TypedFacts
<1>3. Seen(old)!OverloadedPools(at, Everything) =
        {<<"AUX_RESOURCE_CAPACITY_VIOLATION", o>> : o \in
           {x \in DOMAIN at : \E r \in Seen(old)!RequiredBy(x) :
              Seen(old)!Held(windows, r, windows[x].from) > PoolSize[r]}}
  BY DEF Seen!OverloadedPools
<1> HIDE DEF windows
<1>4. ASSUME NEW x \in DOMAIN at, NEW r \in Seen(old)!RequiredBy(x)
      PROVE  ~ Seen(old)!Held(windows, r, windows[x].from) > PoolSize[r]
  <2> DEFINE users == Seen(old)!FreshWindows(at, {r})
             t == windows[x].from
  <2>1. r \in Resources /\ PoolSize[r] \in Nat
    BY DispatchTimelineAssumption DEF Seen!RequiredBy, DispatchTimelineAssumption
  <2>2. /\ DOMAIN users = {o \in DOMAIN windows : r \in Seen(old)!RequiredBy(o)}
        /\ \A o \in DOMAIN users : users[o] = windows[o]
    BY <1>1, <1>2 DEF Seen!FreshWindows
  <2>3. \A o \in DOMAIN users : \A n \in users[o].from .. users[o].to - 1 :
          Seen(old)!Held(users, r, n) <= PoolSize[r]
    BY <2>1 DEF Seen!PoolsRespected
  <2> HIDE DEF users
  <2>4. x \in DOMAIN users /\ users[x] = windows[x]
    BY <1>2, <2>2
  <2>5. t \in users[x].from .. users[x].to - 1
    BY <1>1, <2>4
  <2>6. Seen(old)!Held(users, r, t) <= PoolSize[r]
    BY <2>3, <2>4, <2>5
  <2> HIDE DEF t
  <2>7. Seen(old)!Held(windows, r, t) = Seen(old)!Held(users, r, t)
    BY <1>2, <2>1, <2>2, SeenUsersHold
  <2>8. Seen(old)!Held(windows, r, t) \in Nat
    BY <1>2, <2>1, SeenHeldIsNat
  <2>9. ~ Seen(old)!Held(windows, r, t) > PoolSize[r]
    BY <2>1, <2>6, <2>7, <2>8
  <2> QED BY <2>9 DEF t
<1> QED BY <1>3, <1>4

-----------------------------------------------------------------------------
(* A plan that was valid before its setups were stamped is clean next to   *)
(* the frozen work.                                                        *)

(* With every setup between neighbours no two operations overlap. *)
LEMMA SeparatedIsClear ==
  ASSUME NEW at, Typed(at), Separated(at), NEW m
  PROVE  NoOverlapOn(at, m)
<1>1. SUFFICES ASSUME NEW x \in On(at, m), NEW p \in On(at, m), x # p,
                      at[p].start <= at[x].start, at[x].start < at[p].end
               PROVE  FALSE
  BY DEF NoOverlapOn
<1>2. x \in DOMAIN at /\ p \in DOMAIN at /\ at[p].wc = at[x].wc
  BY DEF On
<1>3. at[p].end <= at[x].start
  BY <1>1, <1>2 DEF Separated
<1>4. at[p].end \in Int /\ at[x].start \in Int
  BY <1>2, TypedFacts
<1> QED BY <1>1, <1>3, <1>4

(* The same machines and times, and the setups of the sequence stamped.    *)
Stamped(new, at) ==
  SameTimes(new, at) /\ \A o \in DOMAIN at : new[o].setup = ActualSetup(at, o)

(* Sequences and their setups depend on machines and times alone. *)
LEMMA SameSequences ==
  ASSUME NEW at, NEW new, SameTimes(new, at), NEW o \in DOMAIN at
  PROVE  Predecessor(new, o) = Predecessor(at, o) /\ ActualSetup(new, o) = ActualSetup(at, o)
<1> DEFINE m == at[o].wc
           near == On(at, m) \cup {None}
<1>1. \A n : On(new, n) = On(at, n)
  BY DEF On, SameTimes
<1>2. \A p, f : Follows(new, m, p, f) <=> Follows(at, m, p, f)
  BY <1>1 DEF Follows, SameTimes, On
<1>3. /\ Predecessor(at, o) = CHOOSE p \in near : Follows(at, m, p, o)
      /\ Predecessor(new, o) = CHOOSE p \in near : Follows(new, m, p, o)
  BY <1>1 DEF Predecessor, SameTimes
<1> HIDE DEF near
<1>4. Predecessor(new, o) = Predecessor(at, o)
  BY <1>2, <1>3
<1> QED BY <1>4 DEF ActualSetup, SameTimes

(* Stamping leaves the times and writes the setups of the sequence. *)
LEMMA RestampedIsStamped ==
  ASSUME NEW at, NEW new, Typed(new), SameTimes(new, at)
  PROVE  Stamped(RecomputeSetups(new), at)
<1>1. SameTimes(RecomputeSetups(new), at)
  BY RestampedIsTyped DEF SameTimes
<1>2. ASSUME NEW o \in DOMAIN at PROVE RecomputeSetups(new)[o].setup = ActualSetup(at, o)
  <2>1. o \in DOMAIN new /\ new[o] \in Assignment
    BY DEF Typed, SameTimes
  <2>2. RecomputeSetups(new)[o] = [new[o] EXCEPT !.setup = ActualSetup(new, o)]
    BY <2>1 DEF RecomputeSetups
  <2>3. ActualSetup(new, o) = ActualSetup(at, o)
    BY SameSequences
  <2> QED BY <2>1, <2>2, <2>3 DEF Assignment
<1> QED BY <1>1, <1>2 DEF Stamped

(* The times alone decide what a window sees of the pools. *)
LEMMA SameTimesSeenPools ==
  ASSUME NEW old, NEW at, NEW new, SameTimes(new, at), Seen(old)!PoolsRespected(at)
  PROVE  Seen(old)!PoolsRespected(new)
<1>1. ASSUME NEW o \in DOMAIN at PROVE Seen(old)!Window(new, o) = Seen(old)!Window(at, o)
  <2>1. Predecessor(new, o) = Predecessor(at, o)
    BY SameSequences
  <2>2. Seen(old)!ActualSetup(new, o) = Seen(old)!ActualSetup(at, o)
    BY <2>1, SeenSequence DEF Seen!ActualSetup, SameTimes
  <2> QED BY <2>2 DEF Seen!Window, SameTimes
<1>2. ASSUME NEW key PROVE Seen(old)!FreshWindows(new, key) = Seen(old)!FreshWindows(at, key)
  <2> DEFINE users == {p \in DOMAIN at : Seen(old)!RequiredBy(p) \cap key # {}}
             a(o) == Seen(old)!Window(at, o)
             b(o) == Seen(old)!Window(new, o)
  <2>1. \A o \in users : a(o) = b(o)
    BY <1>1
  <2>2. /\ Seen(old)!FreshWindows(at, key) = [o \in users |-> a(o)]
        /\ Seen(old)!FreshWindows(new, key) = [o \in users |-> b(o)]
    BY DEF Seen!FreshWindows, SameTimes
  <2> HIDE DEF users, a, b
  <2> QED BY <2>1, <2>2
<1>3. SUFFICES ASSUME NEW r \in Resources, NEW o \in DOMAIN Seen(old)!FreshWindows(new, {r}),
                      NEW t \in Seen(old)!FreshWindows(new, {r})[o].from ..
                                Seen(old)!FreshWindows(new, {r})[o].to - 1
               PROVE  Seen(old)!Held(Seen(old)!FreshWindows(new, {r}), r, t) <= PoolSize[r]
  BY DEF Seen!PoolsRespected
<1>4. Seen(old)!FreshWindows(new, {r}) = Seen(old)!FreshWindows(at, {r})
  BY <1>2
<1>5. \A x \in DOMAIN Seen(old)!FreshWindows(at, {r}) :
        \A n \in Seen(old)!FreshWindows(at, {r})[x].from .. Seen(old)!FreshWindows(at, {r})[x].to - 1 :
          Seen(old)!Held(Seen(old)!FreshWindows(at, {r}), r, n) <= PoolSize[r]
  BY DEF Seen!PoolsRespected
<1> QED BY <1>3, <1>4, <1>5

(* Two valid plans of a window differ in their stamps alone.               *)
ValidSeed(new, at) ==
  PlanOfWindow(at) /\ IsValid(at) /\ PlanOfWindow(new) /\ Stamped(new, at)

(* The facts that carry over from the valid plan to the stamped one next   *)
(* to the frozen work.                                                     *)
LEMMA ValidFacts ==
  ASSUME case \in Cases, NEW at, NEW new, ValidSeed(new, at)
  PROVE  /\ DOMAIN new = Free /\ FloorsHold(new) /\ ChainsHold(new)
         /\ Separated(WithFrozen(new)) /\ Seen(frozen)!PoolsRespected(WithFrozen(new))
         /\ \A m : NoOverlapOn(WithFrozen(new), m) /\ NoOverlapOn(at, m)
<1> DEFINE all == WithFrozen(new)
           before == WithFrozen(at)
<1>1. /\ Typed(at) /\ Typed(new) /\ SameTimes(new, at) /\ DOMAIN at = Free
      /\ Separated(before) /\ Seen(frozen)!PoolsRespected(before)
      /\ ChainsHold(at) /\ FloorsHold(at)
  BY DEF ValidSeed, IsValid, Fits, Stamped, PlanOfWindow
<1>2. /\ Typed(all) /\ DOMAIN all = DOMAIN frozen \cup DOMAIN new
      /\ (\A o \in DOMAIN new : all[o] = new[o]) /\ (\A o \in DOMAIN frozen : all[o] = frozen[o])
      /\ Typed(before) /\ DOMAIN before = DOMAIN frozen \cup DOMAIN at
      /\ (\A o \in DOMAIN at : before[o] = at[o]) /\ (\A o \in DOMAIN frozen : before[o] = frozen[o])
  BY BesideFacts DEF ValidSeed
<1> HIDE DEF all, before
<1>3. SameTimes(all, before)
  BY <1>1, <1>2 DEF SameTimes
<1>4. Separated(all)
  BY <1>1, <1>2, <1>3, SameTimesKeepSeparated DEF Typed, SameTimes
<1>5. Seen(frozen)!PoolsRespected(all)
  BY <1>1, <1>3, SameTimesSeenPools
<1>6. ASSUME NEW m PROVE NoOverlapOn(all, m) /\ NoOverlapOn(at, m)
  <2>1. NoOverlapOn(all, m) /\ NoOverlapOn(before, m)
    BY <1>1, <1>2, <1>4, SeparatedIsClear
  <2>2. On(at, m) \subseteq On(before, m) /\ \A o \in On(at, m) : before[o] = at[o]
    BY <1>2 DEF On
  <2> QED BY <2>1, <2>2 DEF NoOverlapOn
<1>7. FloorsHold(new) /\ ChainsHold(new) /\ DOMAIN new = Free
  BY <1>1 DEF FloorsHold, ChainsHold, SameTimes
<1> QED BY <1>4, <1>5, <1>6, <1>7 DEF all

(* Frozen work between two operations of the window takes the setup        *)
(* between them away, and is seen to need none.                            *)
LEMMA FrozenWorkShortensSetups ==
  ASSUME case \in Cases, NEW at, NEW new, ValidSeed(new, at), NEW o \in Free
  PROVE  Seen(frozen)!ActualSetup(WithFrozen(new), o) <= ActualSetup(at, o)
<1> DEFINE all == WithFrozen(new)
           m == at[o].wc
           q == Predecessor(all, o)
<1>1. /\ Typed(at) /\ Typed(all) /\ DOMAIN at = Free /\ DOMAIN new = Free /\ SameTimes(new, at)
      /\ DOMAIN all = DOMAIN frozen \cup Free /\ Free \cap DOMAIN frozen = {}
      /\ (\A x \in Free : all[x] = new[x]) /\ NoOverlapOn(at, m)
  <2>1. PlanOfWindow(new) /\ PlanOfWindow(at) /\ SameTimes(new, at)
    BY DEF ValidSeed, Stamped
  <2>2. /\ Typed(all) /\ DOMAIN all = DOMAIN frozen \cup DOMAIN new
        /\ (\A x \in DOMAIN new : all[x] = new[x]) /\ DOMAIN frozen \subseteq Ops \ Free
    BY <2>1, BesideFacts
  <2>3. DOMAIN new = Free /\ NoOverlapOn(at, m)
    BY ValidFacts
  <2>4. Typed(at)
    BY <2>1 DEF PlanOfWindow
  <2>5. DOMAIN at = Free
    BY <2>1, <2>3 DEF SameTimes
  <2> QED BY <2>1, <2>2, <2>3, <2>4, <2>5
<1> HIDE DEF all
<1>2. o \in DOMAIN all /\ o \in DOMAIN at /\ all[o].wc = m /\ ActualSetup(at, o) \in Nat
  BY <1>1, ActualSetupIsNat DEF SameTimes, Typed
<1>3. /\ q \in On(all, m) \cup {None} /\ Follows(all, m, q, o) /\ q \in DOMAIN all \cup {None}
  BY <1>1, <1>2, PredecessorFollows DEF Typed
<1>4. CASE q \in DOMAIN frozen
  <2>1. Seen(frozen)!ActualSetup(all, o) = 0
    BY <1>1, <1>2, <1>4, SeenActualSetup
  <2> QED BY <1>2, <2>1 DEF all
<1>5. CASE q = None
  <2>1. Seen(frozen)!ActualSetup(all, o) <= ActualSetup(all, o) /\ Seen(frozen)!ActualSetup(all, o) \in Nat
    BY <1>1, <1>2, SeenActualSetup
  <2>2. ActualSetup(all, o) = 0
    BY <1>5 DEF ActualSetup, SetupAfter
  <2> QED BY <1>2, <2>1, <2>2 DEF all
<1>6. CASE q \in Free
  <2> HIDE DEF q
  <2>1. q # None /\ q \in Ops
    BY <1>1, <1>6, TypedFacts
  <2>2. On(at, m) \subseteq On(all, m) /\ \A x \in On(at, m) : all[x].start = at[x].start
    BY <1>1 DEF On, SameTimes
  <2>3. q \in On(at, m) /\ o \in On(at, m)
    BY <1>1, <1>2, <1>3, <1>6, <2>1 DEF On, SameTimes
  <2>4. Follows(at, m, q, o)
    BY <1>3, <2>1, <2>2, <2>3 DEF Follows
  <2>5. q = Predecessor(at, o)
    BY <1>1, <1>2, <2>3, <2>4, OnePredecessor
  <2>6. ActualSetup(at, o) = SetupBetween(m, q, o) /\ ActualSetup(all, o) = SetupBetween(m, q, o)
    BY <1>2, <2>1, <2>5 DEF ActualSetup, SetupAfter, q
  <2>7. Seen(frozen)!ActualSetup(all, o) <= ActualSetup(all, o)
    BY <1>1, <1>2, SeenActualSetup
  <2> QED BY <2>6, <2>7 DEF all
<1> QED BY <1>1, <1>3, <1>4, <1>5, <1>6

(* In its shift with the stamped setup, which is the longer one.           *)
LEMMA ValidInShift ==
  ASSUME case \in Cases, NEW at, NEW new, ValidSeed(new, at), NEW o \in Free
  PROVE  <<"CALENDAR_VIOLATION", o>> \notin Seen(frozen)!OutOfShift(WithFrozen(new), Everything)
<1> DEFINE all == WithFrozen(new)
           m == at[o].wc
           setup == ActualSetup(at, o)
<1>1. PlanOfWindow(new) /\ SameTimes(new, at) /\ Typed(at) /\ DOMAIN new = Free /\ DOMAIN at = Free
      /\ new[o].setup = setup
  BY ValidFacts DEF ValidSeed, PlanOfWindow, Stamped, SameTimes
<1>2. /\ Typed(all) /\ o \in DOMAIN all /\ all[o] = new[o] /\ DOMAIN frozen \subseteq Ops \ Free
      /\ NoOverlapOn(all, m) /\ NoOverlapOn(at, m)
  BY <1>1, BesideFacts, ValidFacts
<1> HIDE DEF all
<1>3. /\ all[o].wc = m /\ all[o].start = at[o].start /\ all[o].end = at[o].end /\ all[o].setup = setup
      /\ at[o].start \in Int /\ at[o].end \in Int /\ setup \in Nat
  BY <1>1, <1>2, TypedFacts, ActualSetupIsNat DEF SameTimes, Typed
<1>4. Seen(frozen)!ActualSetup(at, o) = setup
  <2>1. {o, Predecessor(at, o)} \cap DOMAIN frozen = {}
    <3>1. Predecessor(at, o) \in DOMAIN at \cup {None}
      BY <1>1, PredecessorFollows DEF Typed
    <3> QED BY <1>1, <1>2, <3>1, ProblemFacts
  <2> QED BY <1>1, <2>1, SeenActualSetup
<1>5. Seen(frozen)!OccupiedFrom(all, Everything, o) \in Int
      /\ at[o].start - setup <= Seen(frozen)!OccupiedFrom(all, Everything, o)
  <2> DEFINE less == Seen(frozen)!ActualSetup(all, o)
  <2>1. less <= setup /\ less \in Nat
    BY <1>1, <1>2, FrozenWorkShortensSetups, SeenActualSetup DEF all
  <2>2. Seen(frozen)!OccupiedFrom(all, Everything, o) = at[o].start - less
    BY <1>1, <1>2, <1>3, SeenWindow
  <2> HIDE DEF less, setup
  <2> QED BY <1>3, <2>1, <2>2
<1>6. Calendar[m] = {} \/ \E shift \in Calendar[m] : shift.open <= at[o].start - setup
                                                     /\ at[o].end <= shift.close
  <2> DEFINE w == Seen(frozen)!Window(at, o)
  <2>1. Silent(at, o)
    BY DEF Silent, ValidSeed, IsValid
  <2>2. Seen(frozen)!WithinShift(at, o)
    BY <1>1, <1>2, <2>1, SilentIsInShift
  <2>3. w.from = at[o].start - setup /\ w.to = at[o].end
    BY <1>1, <1>2, <1>4, SeenWindow
  <2>4. Calendar[m] = {} \/ \E shift \in Calendar[m] : shift.open <= w.from /\ w.to <= shift.close
    BY <2>2 DEF Seen!WithinShift
  <2> HIDE DEF w
  <2> QED BY <2>3, <2>4
<1>7. -Seen(frozen)!Larger(all[o].setup - all[o].start, -Seen(frozen)!OccupiedFrom(all, Everything, o))
        = at[o].start - setup
  <2> HIDE DEF setup
  <2> QED BY <1>3, <1>5 DEF Seen!Larger
<1>8. SUFFICES ASSUME <<"CALENDAR_VIOLATION", o>> \in Seen(frozen)!OutOfShift(all, Everything)
               PROVE  FALSE
  BY DEF all
<1>9. /\ Calendar[all[o].wc] # {}
      /\ ~ \E shift \in Calendar[all[o].wc] :
             /\ shift.open <= -Seen(frozen)!Larger(all[o].setup - all[o].start,
                                                   -Seen(frozen)!OccupiedFrom(all, Everything, o))
             /\ all[o].end <= shift.close
  BY <1>8 DEF Seen!OutOfShift
<1> QED BY <1>3, <1>6, <1>7, <1>9

(* Nothing is said of the operations of the window, and there is no        *)
(* overlap.                                                                *)
LEMMA ValidIsSilent ==
  ASSUME case \in Cases, NEW at, NEW new, ValidSeed(new, at)
  PROVE  WindowViolations(new) = {}
<1> DEFINE all == WithFrozen(new)
<1>1. /\ PlanOfWindow(new) /\ PlanOfWindow(at) /\ SameTimes(new, at) /\ Typed(at)
      /\ DOMAIN new = Free /\ DOMAIN at = Free /\ Free \subseteq Ops
  BY ValidFacts, CaseFacts DEF ValidSeed, PlanOfWindow, Stamped, SameTimes
<1>2. /\ Typed(all) /\ DOMAIN all = DOMAIN frozen \cup Free /\ (\A o \in Free : all[o] = new[o])
  BY <1>1, BesideFacts
<1>3. /\ Separated(all) /\ Seen(frozen)!PoolsRespected(all) /\ ChainsHold(new)
      /\ \A m : NoOverlapOn(all, m)
  BY ValidFacts
<1>4. \A o \in Free : Silent(at, o)
  BY DEF Silent, ValidSeed, IsValid
<1>5. \A o \in Free : /\ InBounds(all[o], o) /\ o \in Ops
                      /\ all[o].start \in Int /\ all[o].end \in Int
  <2>1. ASSUME NEW o \in Free PROVE InBounds(all[o], o) /\ all[o].start \in Int /\ all[o].end \in Int
    <3>1. InBounds(at[o], o) /\ at[o].start \in Int /\ at[o].end \in Int
      BY <1>1, <1>4, SilentIsInBounds, TypedFacts
    <3>2. all[o].wc = at[o].wc /\ all[o].start = at[o].start /\ all[o].end = at[o].end
      BY <1>1, <1>2 DEF SameTimes
    <3> QED BY <3>1, <3>2 DEF InBounds
  <2> QED BY <1>1, <2>1
<1>6. SUFFICES ASSUME NEW v \in Seen(frozen)!Check(Free, all, Everything),
                      v[2] \in Free \/ v[1] = "MACHINE_OVERLAP"
               PROVE  FALSE
  BY DEF WindowViolations
<1> HIDE DEF all
<1>7. CASE v \in Seen(frozen)!Missing(Free, all)
  BY <1>2, <1>7 DEF Seen!Missing
<1>8. CASE v \in Seen(frozen)!Ineligible(all, Everything)
  <2>1. PICK x \in DOMAIN all : v = <<"INELIGIBLE_MACHINE", x>> /\ all[x].wc \notin EligibleFor[x]
    BY <1>8 DEF Seen!Ineligible
  <2> QED BY <1>5, <1>6, <2>1 DEF InBounds
<1>9. CASE v \in Seen(frozen)!TornChains(all, Everything)
  <2>1. v \in {<<"PRECEDENCE_VIOLATION", x>> : x \in
                 {y \in DOMAIN all :
                    /\ SeenPredecessorOf(frozen)[y] \in DOMAIN all
                    /\ {y, SeenPredecessorOf(frozen)[y]} \cap Everything.ops # {}
                    /\ all[y].start < all[SeenPredecessorOf(frozen)[y]].end}}
    BY <1>9 DEF Seen!TornChains, SeenPredecessorOf
  <2>2. PICK x \in DOMAIN all : /\ SeenPredecessorOf(frozen)[x] \in DOMAIN all
                                /\ all[x].start < all[SeenPredecessorOf(frozen)[x]].end
    BY <2>1
  <2>3. x \in Ops
    BY <1>2, TypedFacts
  <2>4. SeenPredecessorOf(frozen)[x] = PredecessorOf[x] /\ {x, PredecessorOf[x]} \subseteq Free
    BY <1>2, <2>2, <2>3, SeenPredecessorIsNone
  <2>5. new[PredecessorOf[x]].end <= new[x].start
    BY <1>1, <1>3, <2>4 DEF ChainsHold
  <2> QED BY <1>2, <1>5, <2>2, <2>4, <2>5
<1>10. CASE v \in Seen(frozen)!BrokenEdges(all, Everything)
  <2>1. PICK e \in Edges : /\ {e.src, e.dst} \cap DOMAIN frozen = {} /\ {e.src, e.dst} \subseteq DOMAIN all
                           /\ Seen(frozen)!EdgeAnchors(all, e).dst < Seen(frozen)!EdgeAnchors(all, e).src + e.min_lag
    BY <1>10 DEF Seen!BrokenEdges
  <2>2. e.src \in Free /\ e.dst \in Free /\ e.min_lag \in Int
    BY <1>2, <2>1, PrecedenceAssumption DEF PrecedenceAssumption
  <2>3. EdgeAnchors(at, e).src + e.min_lag <= EdgeAnchors(at, e).dst
    BY <1>1, <1>4, <2>2, SilentEdges
  <2>4. EdgeAnchors(at, e) = Seen(frozen)!EdgeAnchors(all, e)
    BY <1>1, <1>2, <2>2 DEF EdgeAnchors, Seen!EdgeAnchors, SameTimes
  <2>5. EdgeAnchors(at, e).src \in Int /\ EdgeAnchors(at, e).dst \in Int
    <3>1. /\ at[e.src].start \in Int /\ at[e.src].end \in Int
          /\ at[e.dst].start \in Int /\ at[e.dst].end \in Int
      BY <1>1, <2>2, TypedFacts
    <3> QED BY <3>1 DEF EdgeAnchors
  <2> QED BY <2>1, <2>2, <2>3, <2>4, <2>5
<1>11. CASE v \in Seen(frozen)!Overlaps(all, Everything)
  <2>1. PICK x \in DOMAIN all : \E p \in Seen(frozen)!On(all, all[x].wc) \ {x} :
                                  all[p].start <= all[x].start /\ all[x].start < all[p].end
    BY <1>11 DEF Seen!Overlaps
  <2>2. PICK p \in On(all, all[x].wc) \ {x} : all[p].start <= all[x].start /\ all[x].start < all[p].end
    BY <2>1, SeenSequence
  <2>3. x \in On(all, all[x].wc)
    BY DEF On
  <2> QED BY <1>3, <2>2, <2>3 DEF NoOverlapOn
<1>12. CASE v \in Seen(frozen)!ShortGaps(all, Everything)
  <2>1. PICK x \in DOMAIN all :
          /\ Predecessor(all, x) # None
          /\ all[x].start < all[Predecessor(all, x)].end + Seen(frozen)!ActualSetup(all, x)
    BY <1>12, SeenSequence DEF Seen!ShortGaps
  <2> DEFINE q == Predecessor(all, x)
             m == all[x].wc
  <2>2. q \in On(all, m) /\ Follows(all, m, q, x)
    BY <1>2, <2>1, PredecessorFollows DEF Typed
  <2>3. ActualSetup(all, x) = SetupBetween(m, q, x)
    BY <2>1 DEF ActualSetup, SetupAfter
  <2>4. /\ Seen(frozen)!ActualSetup(all, x) \in Nat
        /\ Seen(frozen)!ActualSetup(all, x) <= SetupBetween(m, q, x)
    BY <1>2, <2>3, SeenActualSetup
  <2>5. all[x].start < all[q].end + Seen(frozen)!ActualSetup(all, x) /\ q # None
    BY <2>1
  <2> HIDE DEF q
  <2>6. q \in DOMAIN all /\ q \in Ops /\ all[q].end \in Int /\ all[x].start \in Int
        /\ all[q].wc = m /\ all[q].start < all[x].start /\ x \in Ops /\ m \in Machines
        /\ all[q].start \in Int
    BY <1>2, <2>2, <2>5, TypedFacts DEF On, Follows
  <2>7. all[q].end + SetupBetween(m, q, x) <= all[x].start
    BY <1>3, <2>2, <2>6 DEF Separated
  <2>8. SetupBetween(m, q, x) \in Nat
    BY <2>6, ProblemFacts
  <2> QED BY <2>4, <2>5, <2>6, <2>7, <2>8
<1>13. CASE v \in Seen(frozen)!OverloadedPools(all, Everything)
  BY <1>2, <1>3, <1>13, RespectedPoolsAreSilent
<1>14. CASE v \in Seen(frozen)!OutOfHorizon(all, Everything)
  <2>1. PICK x \in DOMAIN all : /\ v = <<"HORIZON_BOUND_VIOLATION", x>>
                                /\ \/ all[x].start < 0
                                   \/ all[x].end > HorizonEnd
                                   \/ LatestFinish[x] # None /\ all[x].end > LatestFinish[x]
    BY <1>14 DEF Seen!OutOfHorizon
  <2>2. x \in Free
    BY <1>6, <2>1
  <2>3. /\ HorizonEnd \in Int /\ Release[x] \in Nat /\ LatestFinish[x] \in Int \cup {None}
        /\ InBounds(all[x], x) /\ all[x].start \in Int /\ all[x].end \in Int
    BY <1>5, <2>2, BoundFacts
  <2>4. ~ all[x].start < 0 /\ ~ all[x].end > HorizonEnd
    BY <2>3 DEF InBounds
  <2>5. LatestFinish[x] # None => ~ all[x].end > LatestFinish[x]
    BY <2>3 DEF InBounds
  <2> QED BY <2>1, <2>4, <2>5
<1>15. CASE v \in Seen(frozen)!BeforeRelease(all, Everything)
  <2>1. PICK x \in DOMAIN all : v = <<"RELEASE_DATE_VIOLATION", x>> /\ all[x].start < Release[x]
    BY <1>15 DEF Seen!BeforeRelease
  <2>2. x \in Free
    BY <1>6, <2>1
  <2> QED BY <1>5, <2>1, <2>2, BoundFacts DEF InBounds
<1>16. CASE v \in Seen(frozen)!OutOfShift(all, Everything)
  <2>1. PICK x \in DOMAIN all : v = <<"CALENDAR_VIOLATION", x>>
    BY <1>16 DEF Seen!OutOfShift
  <2>2. x \in Free
    BY <1>6, <2>1
  <2> QED BY <1>16, <2>1, <2>2, ValidInShift DEF all
<1> QED BY <1>7, <1>8, <1>9, <1>10, <1>11, <1>12, <1>13, <1>14, <1>15, <1>16, SeenFamilies

(* A seed that was valid is clean, so that the final validation can always *)
(* fall back on it.                                                        *)
LEMMA ValidIsClean ==
  ASSUME case \in Cases, NEW at, NEW new, ValidSeed(new, at)
  PROVE  IsClean(new)
<1> DEFINE all == WithFrozen(new)
<1>1. WindowViolations(new) = {} /\ Separated(all) /\ Seen(frozen)!PoolsRespected(all) /\ Typed(all)
  BY ValidIsSilent, ValidFacts, BesideFacts DEF ValidSeed
<1> HIDE DEF all
<1>2. ASSUME NEW o \in DOMAIN all, NEW p \in DOMAIN all \ {o}, all[p].wc = all[o].wc
      PROVE  all[p].end <= all[o].start \/ all[o].end <= all[p].start
  <2>1. all[p].start \in Int /\ all[o].start \in Int
    BY <1>1, TypedFacts
  <2>2. all[p].start <= all[o].start \/ all[o].start <= all[p].start
    BY <2>1
  <2> QED BY <1>1, <1>2, <2>2 DEF Separated
<1>3. \A o \in DOMAIN all : Apart([p \in DOMAIN all \ {o} |-> all[p]], o, all[o])
  BY <1>2 DEF Apart
<1>4. ~ OccupancyConflict(new)
  BY <1>1, <1>3 DEF OccupancyConflict, all
<1> QED BY <1>1, <1>4 DEF IsClean

-----------------------------------------------------------------------------
(* The status of a run is true. *)

SeedIsValid == \E at : ValidSeed(seed, at)

BestIsOrdered == best = seed \/ (Separated(WithFrozen(best)) /\ FloorsHold(best))

Attempts == {"warm", "frozen", "native", "cover", "constructive"}

(* Around frozen work, and from a warm start, the search has a seed that   *)
(* was valid; a best schedule that is not the seed passed the check of     *)
(* candidates, and before the first iteration it is the seed.              *)
Grounded ==
  /\ iteration \in Nat
  /\ warmUsed => phase \notin Attempts
  /\ phase \in {"complete", "seeded"} \cup Searching /\ (frozen # Empty \/ warmUsed) => SeedIsValid
  /\ phase \in Searching => BestIsOrdered
  /\ phase = "repairing" => iteration > 0
  /\ phase = "searching" /\ iteration = 0 => best = seed
  /\ StatusIsTrue

(* What is known of a plan stays known as long as the window stays.        *)
LEMMA ValidStaysValid ==
  ASSUME case' = case, NEW at, ValidSeed(seed', at)
  PROVE  SeedIsValid'
<1>1. frozen' = frozen /\ Free' = Free
  BY DEF frozen, Free
<1>2. ValidSeed(seed, at)'
  BY <1>1 DEF ValidSeed, PlanOfWindow, IsValid, Fits, ChainsHold, FloorsHold, WithFrozen
<1> QED BY <1>2 DEF SeedIsValid

(* The status is true after a step when what the step answers is. *)
LEMMA StatusStaysTrue ==
  ASSUME case' = case, seed' = seed,
         outcome' # None =>
           /\ outcome'.status = "feasible" => LegalInWindow(outcome'.plan)
           /\ outcome'.status = "error" /\ outcome'.from # "seeding" => frozen = Empty /\ ~ IsClean(seed)
  PROVE  StatusIsTrue'
<1>1. frozen' = frozen /\ Free' = Free
  BY DEF frozen, Free
<1>2. outcome' # None /\ outcome'.status = "feasible" => LegalInWindow(outcome.plan)'
  BY <1>1 DEF LegalInWindow, WithFrozen, FloorsHold, ChainsHold
<1>3. IsClean(seed)' <=> IsClean(seed)
  BY <1>1 DEF IsClean, WindowViolations, OccupancyConflict, WithFrozen
<1>4. ErrorsComeFromTheSeed'
  BY <1>1, <1>3 DEF ErrorsComeFromTheSeed
<1>5. ClaimIsLegal'
  BY <1>2 DEF ClaimIsLegal
<1> QED BY <1>4, <1>5 DEF StatusIsTrue

(* Stamping a valid plan, or stamping it again, keeps what is known of it. *)
LEMMA RestampedIsValid ==
  ASSUME NEW plan, NEW at, ValidSeed(plan, at) \/ (plan = at /\ PlanOfWindow(at) /\ IsValid(at))
  PROVE  ValidSeed(RecomputeSetups(plan), at)
<1>1. /\ PlanOfWindow(at) /\ IsValid(at) /\ PlanOfWindow(plan) /\ SameTimes(plan, at)
  BY DEF ValidSeed, Stamped, SameTimes
<1>2. Stamped(RecomputeSetups(plan), at)
  BY <1>1, RestampedIsStamped DEF PlanOfWindow
<1>3. PlanOfWindow(RecomputeSetups(plan))
  BY <1>1, RestampedPlan
<1> QED BY <1>1, <1>2, <1>3 DEF ValidSeed

(* A stamped plan that was valid is legal in its window. *)
LEMMA ValidIsLegal ==
  ASSUME case \in Cases, NEW plan, NEW at, ValidSeed(plan, at)
  PROVE  LegalInWindow(plan)
BY ValidFacts, ValidIsClean, CleanIsLegal DEF ValidSeed

(* A valid plan makes a valid seed. *)
LEMMA SeededIsValid ==
  ASSUME case' = case, NEW plan, PlanOfWindow(plan), IsValid(plan), seed' = RecomputeSetups(plan)
  PROVE  SeedIsValid'
<1>1. ValidSeed(RecomputeSetups(plan), plan)
  BY RestampedIsValid
<1> QED BY <1>1, ValidStaysValid

(* The first phase. *)
LEMMA SeedingIsGrounded ==
  ASSUME RunInv, Grounded,
         \/ OutOfSeedingTime \/ TryWarmStart \/ TryFrozenSeed \/ TryNativeSeed \/ TryCoverSeed
         \/ ConstructiveSeed \/ ReanchorSeed \/ CompleteSeed
  PROVE  Grounded'
<1>1. /\ case \in Cases /\ PlanOfWindow(seed) /\ SeedingStep
  BY SeedingSteps DEF RunInv
<1>2. /\ case' = case /\ iteration' = iteration /\ phase \in Seeding /\ frozen' = frozen
      /\ phase' \in Seeding \cup {"done"} /\ phase' \notin Searching
  BY <1>1 DEF SeedingStep, SearchUntouched, Seeding, Searching, frozen
<1>3. outcome = None
  BY <1>2 DEF RunInv, Seeding
<1> DEFINE Goal ==
             /\ warmUsed' => phase' \notin Attempts
             /\ phase' \in {"complete", "seeded"} /\ (frozen # Empty \/ warmUsed') => SeedIsValid'
             /\ outcome' # None => outcome'.status = "error" /\ outcome'.from = "seeding"
<1>4. ASSUME Goal PROVE Grounded'
  <2>1. StatusIsTrue'
    BY <1>4 DEF StatusIsTrue, ClaimIsLegal, ErrorsComeFromTheSeed
  <2>2. (phase \in Searching => BestIsOrdered)' /\ iteration' \in Nat
        /\ phase' # "repairing" /\ phase' # "searching"
    BY <1>2 DEF Grounded, Searching
  <2> QED BY <1>2, <1>4, <2>1, <2>2 DEF Grounded
<1>5. ASSUME Abort PROVE Goal
  BY <1>5 DEF Abort, Attempts
<1>6. ASSUME phase \in Attempts, NEW p \in Attempts, GoTo(p) PROVE Goal
  <2>1. ~ warmUsed /\ warmUsed' = warmUsed /\ phase' = p /\ outcome' = outcome
    BY <1>6 DEF Grounded, GoTo
  <2> QED BY <1>3, <1>6, <2>1 DEF Attempts
<1>7. AfterSeed \notin Attempts /\ (AfterSeed \in {"complete", "seeded"} => frozen = Empty)
  BY DEF AfterSeed, Attempts
<1>8. ASSUME phase \in Attempts \ {"warm"}, NEW plan, Seeded(plan, AfterSeed) PROVE Goal
  <2>1. warmUsed' = FALSE /\ phase' = AfterSeed /\ outcome' = outcome
    BY <1>8 DEF Grounded, Seeded
  <2> QED BY <1>3, <1>7, <2>1
<1>9. ASSUME OutOfSeedingTime PROVE Goal
  BY <1>5, <1>9 DEF OutOfSeedingTime
<1>10. ASSUME TryWarmStart PROVE Goal
  <2>1. phase \in Attempts /\ "frozen" \in Attempts
    BY <1>10 DEF TryWarmStart, Attempts
  <2>2. PICK candidate \in WarmCandidates :
          \/ \E plan \in UsableWarmStart(candidate) : Seeded(plan, AfterSeed)
          \/ GoTo("frozen")
    BY <1>10 DEF TryWarmStart
  <2>3. ASSUME NEW plan \in UsableWarmStart(candidate), Seeded(plan, AfterSeed) PROVE Goal
    <3>1. PlanOfWindow(plan)
      BY <1>1, WarmCandidateFacts
    <3>2. IsValid(plan)
      BY DEF UsableWarmStart
    <3>3. seed' = RecomputeSetups(plan) /\ phase' = AfterSeed /\ outcome' = outcome
      BY <2>3 DEF Seeded
    <3>4. SeedIsValid'
      BY <1>2, <3>1, <3>2, <3>3, SeededIsValid
    <3> QED BY <1>3, <1>7, <3>3, <3>4
  <2> HIDE DEF Goal
  <2> QED BY <1>6, <2>1, <2>2, <2>3
<1>11. ASSUME TryFrozenSeed PROVE Goal
  <2>1. phase \in Attempts \ {"warm"} /\ "native" \in Attempts
    BY <1>11 DEF TryFrozenSeed, Attempts
  <2>2. (\E plan : Seeded(plan, AfterSeed)) \/ GoTo("native")
    BY <1>11 DEF TryFrozenSeed
  <2> HIDE DEF Goal
  <2> QED BY <1>6, <1>8, <2>1, <2>2
<1>12. ASSUME TryNativeSeed PROVE Goal
  <2>1. phase \in Attempts \ {"warm"} /\ "cover" \in Attempts
    BY <1>12 DEF TryNativeSeed, Attempts
  <2>2. (\E plan : Seeded(plan, AfterSeed)) \/ GoTo("cover")
    BY <1>12 DEF TryNativeSeed
  <2> HIDE DEF Goal
  <2> QED BY <1>6, <1>8, <2>1, <2>2
<1>13. ASSUME TryCoverSeed PROVE Goal
  <2>1. phase \in Attempts \ {"warm"} /\ "constructive" \in Attempts
    BY <1>13 DEF TryCoverSeed, Attempts
  <2>2. (\E plan : Seeded(plan, AfterSeed)) \/ GoTo("constructive")
    BY <1>13 DEF TryCoverSeed
  <2> HIDE DEF Goal
  <2> QED BY <1>6, <1>8, <2>1, <2>2
<1>14. ASSUME ConstructiveSeed PROVE Goal
  <2>1. phase \in Attempts \ {"warm"}
    BY <1>14 DEF ConstructiveSeed, Attempts
  <2>2. (\E plan : Seeded(plan, AfterSeed)) \/ Abort
    BY <1>14 DEF ConstructiveSeed
  <2> HIDE DEF Goal
  <2> QED BY <1>5, <1>8, <2>1, <2>2
<1>15. ASSUME ReanchorSeed PROVE Goal
  <2> DEFINE plan == Reanchored(seed)
  <2>1. Abort \/ (IsValid(plan) /\ Seeded(plan, "complete"))
    BY <1>15 DEF ReanchorSeed
  <2>2. ASSUME IsValid(plan), Seeded(plan, "complete") PROVE Goal
    <3>1. PlanOfWindow(plan)
      BY <1>1, ReanchoredPlan
    <3>2. seed' = RecomputeSetups(plan) /\ phase' = "complete" /\ outcome' = outcome
      BY <2>2 DEF Seeded
    <3> HIDE DEF plan
    <3>3. SeedIsValid'
      BY <1>2, <2>2, <3>1, <3>2, SeededIsValid
    <3> QED BY <1>3, <3>2, <3>3 DEF Attempts
  <2> HIDE DEF Goal
  <2> QED BY <1>5, <2>1, <2>2
<1>16. ASSUME CompleteSeed PROVE Goal
  <2>1. phase = "complete"
    BY <1>16 DEF CompleteSeed
  <2>2. CASE GoTo("seeded")
    <3>1. warmUsed' = warmUsed /\ phase' = "seeded" /\ seed' = seed /\ outcome' = outcome
      BY <2>2 DEF GoTo
    <3>2. SeedIsValid => SeedIsValid'
      BY <1>2, <3>1, ValidStaysValid DEF SeedIsValid
    <3>3. frozen # Empty \/ warmUsed' => SeedIsValid
      BY <2>1, <3>1 DEF Grounded
    <3> QED BY <1>3, <3>1, <3>2, <3>3 DEF Attempts
  <2>3. CASE DOMAIN seed # Free /\ \E s : Seeded(Around(seed, s), "seeded")
    <3>1. warmUsed' = (warmUsed \/ phase = "warm") /\ phase' = "seeded" /\ outcome' = outcome
      BY <2>3 DEF Seeded
    <3>2. ~ SeedIsValid
      BY <1>1, <2>3, ValidFacts DEF SeedIsValid
    <3>3. ~ (frozen # Empty \/ warmUsed')
      BY <2>1, <3>1, <3>2 DEF Grounded
    <3> QED BY <1>3, <3>1, <3>3 DEF Attempts
  <2> HIDE DEF Goal
  <2> QED BY <1>16, <2>2, <2>3 DEF CompleteSeed
<1> HIDE DEF Goal
<1>17. Goal
  BY <1>9, <1>10, <1>11, <1>12, <1>13, <1>14, <1>15, <1>16
<1> QED BY <1>4, <1>17

(* The incumbent of the final validation: an ordered best schedule, or the *)
(* seed, stamped once more.                                                *)
LEMMA IncumbentFacts ==
  ASSUME RunInv, Grounded, phase = "finalizing", NEW incumbent, incumbent = RecomputeSetups(best)
  PROVE  /\ PlanOfWindow(incumbent)
         /\ frozen # Empty => FloorsHold(incumbent)
         /\ IsClean(incumbent) /\ FloorsHold(incumbent) => LegalInWindow(incumbent)
<1>1. /\ case \in Cases /\ PlanOfWindow(best) /\ PlanOfWindow(incumbent)
      /\ frozen # Empty => SeedIsValid
      /\ BestIsOrdered
  BY RestampedPlan DEF RunInv, Grounded, Searching
<1>2. SameTimes(incumbent, best)
  BY <1>1, RestampedIsTyped DEF PlanOfWindow
<1>3. ASSUME frozen # Empty, best = seed PROVE FloorsHold(incumbent) /\ LegalInWindow(incumbent)
  <2>1. PICK at : ValidSeed(best, at)
    BY <1>1, <1>3 DEF SeedIsValid
  <2>2. ValidSeed(incumbent, at)
    BY <2>1, RestampedIsValid
  <2> QED BY <1>1, <2>2, ValidFacts, ValidIsLegal
<1>4. ASSUME Separated(WithFrozen(best)), FloorsHold(best)
      PROVE  FloorsHold(incumbent) /\ Separated(WithFrozen(incumbent))
  <2> DEFINE all == WithFrozen(incumbent)
             before == WithFrozen(best)
  <2>1. FloorsHold(incumbent)
    BY <1>2, <1>4 DEF FloorsHold, SameTimes
  <2>2. /\ Typed(all) /\ DOMAIN all = DOMAIN frozen \cup DOMAIN incumbent
        /\ (\A o \in DOMAIN incumbent : all[o] = incumbent[o])
        /\ (\A o \in DOMAIN frozen : all[o] = frozen[o])
        /\ Typed(before) /\ DOMAIN before = DOMAIN frozen \cup DOMAIN best
        /\ (\A o \in DOMAIN best : before[o] = best[o])
        /\ (\A o \in DOMAIN frozen : before[o] = frozen[o])
    BY <1>1, BesideFacts
  <2>3. Separated(before)
    BY <1>4
  <2> HIDE DEF all, before
  <2>4. SameTimes(all, before)
    BY <1>2, <2>2 DEF SameTimes
  <2>5. Separated(all)
    BY <2>2, <2>3, <2>4, SameTimesKeepSeparated DEF Typed, SameTimes
  <2> QED BY <2>1, <2>5 DEF all
<1>5. ASSUME IsClean(incumbent), FloorsHold(incumbent) PROVE LegalInWindow(incumbent)
  <2>1. CASE frozen = Empty
    BY <1>1, <1>5, <2>1, CleanIsSeparated, CleanIsLegal
  <2>2. CASE frozen # Empty /\ best = seed
    BY <1>3, <2>2
  <2>3. CASE Separated(WithFrozen(best)) /\ FloorsHold(best)
    BY <1>1, <1>4, <1>5, <2>3, CleanIsLegal
  <2> QED BY <1>1, <2>1, <2>2, <2>3 DEF BestIsOrdered
<1> QED BY <1>1, <1>3, <1>4, <1>5 DEF BestIsOrdered

(* What the final validation says. *)
LEMMA FinalizeIsTrue ==
  ASSUME RunInv, Grounded, Finalize
  PROVE  /\ outcome'.status = "feasible" => LegalInWindow(outcome'.plan)
         /\ outcome'.status = "error" /\ outcome'.from # "seeding" => frozen = Empty /\ ~ IsClean(seed)
<1> DEFINE incumbent == RecomputeSetups(best)
<1>1. /\ phase = "finalizing"
      /\ outcome'.status = IF (IsClean(incumbent) \/ SeedRecovers(incumbent)) /\ FloorsHold(incumbent)
                             THEN "feasible" ELSE "error"
      /\ outcome'.plan = IF SeedRecovers(incumbent) THEN seed ELSE incumbent
  BY DEF Finalize
<1>2. case \in Cases /\ PlanOfWindow(seed) /\ (frozen # Empty => SeedIsValid)
  BY <1>1 DEF RunInv, Grounded, Searching
<1>3. /\ frozen # Empty => FloorsHold(incumbent)
      /\ IsClean(incumbent) /\ FloorsHold(incumbent) => LegalInWindow(incumbent)
  BY <1>1, IncumbentFacts
<1> HIDE DEF incumbent
<1>4. ASSUME frozen # Empty PROVE IsClean(seed) /\ FloorsHold(seed) /\ LegalInWindow(seed)
  <2>1. PICK at : ValidSeed(seed, at)
    BY <1>2, <1>4 DEF SeedIsValid
  <2> QED BY <1>2, <2>1, ValidFacts, ValidIsClean, ValidIsLegal
<1>5. ASSUME frozen = Empty PROVE \A plan : FloorsHold(plan)
  <2>1. DOMAIN frozen = {}
    BY <1>5, EmptyIsTyped
  <2> QED BY <2>1 DEF FloorsHold
<1>6. ASSUME IsClean(seed), FloorsHold(seed) PROVE LegalInWindow(seed)
  BY <1>2, <1>4, <1>6, CleanIsSeparated, CleanIsLegal
<1>7. ASSUME outcome'.status = "feasible" PROVE LegalInWindow(outcome'.plan)
  <2>1. FloorsHold(incumbent) /\ (IsClean(incumbent) \/ SeedRecovers(incumbent))
    BY <1>1, <1>7
  <2>2. CASE SeedRecovers(incumbent)
    BY <1>1, <1>6, <2>2 DEF SeedRecovers
  <2>3. CASE ~ SeedRecovers(incumbent)
    BY <1>1, <1>3, <2>1, <2>3
  <2> QED BY <2>2, <2>3
<1>8. ASSUME outcome'.status = "error" PROVE frozen = Empty /\ ~ IsClean(seed)
  <2>1. ~ FloorsHold(incumbent) \/ (~ IsClean(incumbent) /\ ~ SeedRecovers(incumbent))
    BY <1>1, <1>8
  <2>2. frozen = Empty
    BY <1>3, <1>4, <2>1 DEF SeedRecovers
  <2> QED BY <1>5, <2>1, <2>2 DEF SeedRecovers
<1> QED BY <1>7, <1>8

(* The second phase. *)
LEMMA SearchIsGrounded ==
  ASSUME RunInv, Grounded,
         \/ StopSearch \/ Finalize \/ InitSearch \/ SkipSearch \/ DestroyNothing \/ Destroy
         \/ RepairFails \/ Repair
  PROVE  Grounded'
<1>1. /\ case' = case /\ seed' = seed /\ frozen' = frozen /\ Free' = Free
      /\ outcome = None /\ case \in Cases
  BY SearchSteps DEF RunInv, SearchStep, frozen, Free
<1>2. SeedIsValid => SeedIsValid'
  BY <1>1, ValidStaysValid DEF SeedIsValid
<1>3. \A plan : plan = best' /\ Separated(WithFrozen(plan)) /\ FloorsHold(plan) => BestIsOrdered'
  BY <1>1 DEF BestIsOrdered, WithFrozen, FloorsHold
<1>4. best' = best \/ best' = seed => (BestIsOrdered => BestIsOrdered')
  BY <1>1 DEF BestIsOrdered, WithFrozen, FloorsHold
<1>5. best' = seed => BestIsOrdered'
  BY <1>1 DEF BestIsOrdered
<1>6. outcome' = outcome => StatusIsTrue'
  BY <1>1, StatusStaysTrue
<1>7. warmUsed' = warmUsed /\ phase \in {"seeded"} \cup Searching
      /\ phase' \in Searching \cup {"done"} /\ phase' \notin Attempts
      /\ phase' \notin {"complete", "seeded"}
  BY SearchSteps DEF StopSearch, Finalize, InitSearch, SkipSearch, DestroyNothing, Destroy,
     RepairFails, Repair, NewBest, Better, NoBetter, NextIteration, SearchStep, Searching, Attempts
<1>8. frozen' # Empty \/ warmUsed' => SeedIsValid'
  BY <1>1, <1>2, <1>7 DEF Grounded
<1>9. SUFFICES /\ iteration' \in Nat /\ (phase' \in Searching => BestIsOrdered')
               /\ phase' = "repairing" => iteration' > 0
               /\ phase' = "searching" /\ iteration' = 0 => best' = seed
               /\ StatusIsTrue'
  BY <1>1, <1>7, <1>8 DEF Grounded
<1> DEFINE Goal ==
      /\ iteration' \in Nat /\ (phase' \in Searching => BestIsOrdered')
      /\ phase' = "repairing" => iteration' > 0
      /\ phase' = "searching" /\ iteration' = 0 => best' = seed
      /\ StatusIsTrue'
<1>10. ASSUME InitSearch PROVE Goal
  <2>1. best' = seed /\ phase' = "searching" /\ iteration' = iteration /\ outcome' = outcome
    BY <1>10 DEF InitSearch
  <2> QED BY <1>5, <1>6, <2>1 DEF Grounded
<1>11. ASSUME phase \in Searching, best' = best, outcome' = outcome, iteration' = iteration,
              phase' # "repairing", phase' = "searching" => phase = "repairing"
       PROVE  Goal
  BY <1>4, <1>6, <1>11 DEF Grounded
<1>12. ASSUME StopSearch \/ RepairFails PROVE Goal
  BY <1>11, <1>12 DEF StopSearch, RepairFails, Searching
<1>13. ASSUME DestroyNothing \/ Destroy PROVE Goal
  <2>1. /\ best' = best /\ outcome' = outcome /\ iteration' = iteration + 1 /\ iteration \in Nat
        /\ BestIsOrdered
    BY <1>13 DEF DestroyNothing, Destroy, Grounded, Searching
  <2> QED BY <1>4, <1>6, <2>1
<1>14. ASSUME SkipSearch PROVE Goal
  <2>1. /\ phase' = "done" /\ iteration' = iteration
        /\ outcome'.status = "feasible" /\ outcome'.plan = RecomputeSetups(best)
        /\ SeedIsValid /\ best = seed
    BY <1>14 DEF SkipSearch, Grounded, Searching
  <2>2. PICK at : ValidSeed(best, at)
    BY <2>1 DEF SeedIsValid
  <2>3. ValidSeed(RecomputeSetups(best), at)
    BY <2>2, RestampedIsValid
  <2>4. LegalInWindow(RecomputeSetups(best))
    BY <1>1, <2>3, ValidIsLegal
  <2>5. StatusIsTrue'
    BY <1>1, <2>1, <2>4, StatusStaysTrue
  <2> QED BY <2>1, <2>5 DEF Grounded, Searching
<1>15. ASSUME Finalize PROVE Goal
  <2>1. phase' = "done" /\ iteration' = iteration
    BY <1>15 DEF Finalize
  <2>2. StatusIsTrue'
    BY <1>1, <1>15, FinalizeIsTrue, StatusStaysTrue
  <2> QED BY <2>1, <2>2 DEF Grounded, Searching
<1>16. ASSUME Repair PROVE Goal
  <2>1. phase = "repairing" /\ iteration > 0 /\ iteration \in Nat /\ BestIsOrdered
    BY <1>16 DEF Repair, Grounded, Searching
  <2>2. PICK candidate \in Candidates :
          /\ IsSane(candidate)
          /\ \E v \in {ValueOfMove(candidate)} :
               NewBest(candidate, v) \/ Better(candidate, v) \/ NoBetter(candidate, v)
    BY <1>16 DEF Repair
  <2>3. PICK v : NewBest(candidate, v) \/ Better(candidate, v) \/ NoBetter(candidate, v)
    BY <2>2
  <2>4. /\ best' = candidate \/ best' = best
        /\ iteration' = iteration /\ outcome' = outcome /\ phase' # "repairing"
    BY <2>3 DEF NewBest, Better, NoBetter, NextIteration
  <2>5. Separated(WithFrozen(candidate)) /\ FloorsHold(candidate)
    BY <2>2 DEF IsSane, Fits
  <2>6. BestIsOrdered'
    BY <1>3, <1>4, <2>1, <2>4, <2>5
  <2> QED BY <1>6, <2>1, <2>4, <2>6
<1> HIDE DEF Goal
<1>17. Goal
  BY <1>10, <1>12, <1>13, <1>14, <1>15, <1>16
<1> QED BY <1>17 DEF Goal

(* Whatever the seed, the repairs and the moves were, a schedule called    *)
(* feasible is legal in its window, and an error of the search is one of   *)
(* the seed; around frozen work there is none.                             *)
THEOREM RunStatusIsTrue == AlnsSpec => []StatusIsTrue
<1>1. AlnsInit => Grounded
  BY DEF AlnsInit, Grounded, Searching, StatusIsTrue, ClaimIsLegal, ErrorsComeFromTheSeed
<1>2. RunInv /\ Grounded /\ [AlnsNext]_alnsVars => Grounded'
  <2> SUFFICES ASSUME RunInv, Grounded, [AlnsNext]_alnsVars PROVE Grounded'
    OBVIOUS
  <2>1. CASE UNCHANGED alnsVars
    <3>1. /\ case' = case /\ phase' = phase /\ seed' = seed /\ best' = best /\ iteration' = iteration
          /\ warmUsed' = warmUsed /\ outcome' = outcome /\ frozen' = frozen /\ Free' = Free
      BY <2>1 DEF alnsVars, Free, frozen
    <3>2. SeedIsValid => SeedIsValid'
      BY <3>1, ValidStaysValid DEF SeedIsValid
    <3>3. BestIsOrdered => BestIsOrdered'
      BY <3>1 DEF BestIsOrdered, WithFrozen, FloorsHold
    <3>4. StatusIsTrue'
      BY <3>1, StatusStaysTrue DEF Grounded, StatusIsTrue, ClaimIsLegal, ErrorsComeFromTheSeed
    <3> QED BY <3>1, <3>2, <3>3, <3>4 DEF Grounded
  <2>2. CASE \/ OutOfSeedingTime \/ TryWarmStart \/ TryFrozenSeed \/ TryNativeSeed \/ TryCoverSeed
             \/ ConstructiveSeed \/ ReanchorSeed \/ CompleteSeed
    BY <2>2, SeedingIsGrounded
  <2>3. CASE \/ StopSearch \/ Finalize \/ InitSearch \/ SkipSearch \/ DestroyNothing \/ Destroy
             \/ RepairFails \/ Repair
    BY <2>3, SearchIsGrounded
  <2> QED BY <2>1, <2>2, <2>3 DEF AlnsNext
<1>3. Grounded => StatusIsTrue
  BY DEF Grounded
<1> QED BY <1>1, <1>2, <1>3, RunInvHolds, PTL DEF AlnsSpec

=============================================================================
