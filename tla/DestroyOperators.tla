-------------------------- MODULE DestroyOperators --------------------------
(***************************************************************************)
(* The destroy operators of the ALNS search (synaps/solvers/               *)
(* alns_solver.py) and what is done to their choice: each operator as the  *)
(* sets of operations it may pick from a timeline.  Draws of the random    *)
(* generator are choices; ties the code breaks by name are choices too.    *)
(***************************************************************************)
EXTENDS Objective

CONSTANTS
  BaseDuration,   \* operation.base_duration_min
  OrderPriority   \* order.priority

ASSUME DestroyOperatorsAssumption ==
  /\ BaseDuration \in [Ops -> Nat]
  /\ OrderPriority \in [Orders -> Nat]

(* n members of a set of operations with the highest keys. *)
Foremost(ops, n, key) ==
  {s \in kSubset(-Larger(-n, -Cardinality(ops)), ops) :
     \A x \in s, y \in ops \ s : key[x] >= key[y]}

EndsOf(placed) == [o \in DOMAIN placed |-> placed[o].end]

-----------------------------------------------------------------------------
DestroyRandom(placed, n) == Foremost(DOMAIN placed, n, [o \in DOMAIN placed |-> 0])

(* The ranking by incident setup is a bias: each operation is passed over  *)
(* with some probability, and random ones fill the rest.                   *)
DestroyWorst(placed, n) == DestroyRandom(placed, n)

(* Shaw removal.  Scores are in hundredths. *)
RelatednessTo(placed, seed) ==
  LET distance(a, b) == Larger(a - b, b - a)
  IN  [o \in DOMAIN placed |->
         (IF placed[o].wc = placed[seed].wc THEN 10000 ELSE 0)
         - 100 * SetupBetween(placed[seed].wc, seed, o)
         - 50 * distance(BaseDuration[o], BaseDuration[seed])
         - distance(placed[o].start, placed[seed].start)]

DestroyRelated(placed, n) ==
  UNION {{{seed} \cup s : s \in Foremost(DOMAIN placed \ {seed}, n - 1, RelatednessTo(placed, seed))} :
           seed \in DOMAIN placed}

DestroyMachineSegment(placed, n) ==
  LET crowded == {m \in Machines : Cardinality(On(placed, m)) >= 3}
      contiguous(s, m) ==
        \A x, z \in s, y \in On(placed, m) :
          placed[x].start < placed[y].start /\ placed[y].start < placed[z].start => y \in s
      anySize(m) == DestroyRandom([o \in On(placed, m) |-> placed[o]], n)
  IN  IF crowded = {}
        THEN DestroyRandom(placed, n)
        ELSE UNION {{s \in anySize(m) : contiguous(s, m)} : m \in crowded}

(* A whole order that fits, or else a part of the largest one. *)
DestroyPrecedenceChain(placed, n) ==
  LET of(r) == {o \in DOMAIN placed : OrderOf[o] = r}
      fitting == {r \in Orders : of(r) # {} /\ Cardinality(of(r)) <= n}
      largest == {r \in Orders : \A q \in Orders : Cardinality(of(q)) <= Cardinality(of(r))}
  IN  IF fitting # {}
        THEN {of(r) : r \in fitting}
        ELSE UNION {DestroyRandom([o \in of(r) |-> placed[o]], n) : r \in largest}

-----------------------------------------------------------------------------
(* The realized disjunctive graph. *)

(* _explained_setup_minutes: the setup that sits in front of an operation. *)
ExplainedSetup(placed, o) ==
  LET p == Predecessor(placed, o)
      gap == placed[o].start - placed[p].end
      needed == SetupBetween(placed[o].wc, p, o)
  IN  CASE p = None \/ gap = placed[o].setup -> placed[o].setup
        [] OTHER -> IF needed > 0 /\ gap = needed THEN needed
                    ELSE IF gap >= placed[o].setup THEN placed[o].setup ELSE 0

(* _machine_gap_is_tight: the gap is the stamp or a positive setup. *)
MachineTight(placed, p, o) ==
  LET gap == placed[o].start - placed[p].end
      needed == SetupBetween(placed[o].wc, p, o)
  IN  gap = placed[o].setup \/ (needed > 0 /\ gap = needed)

(* Holders that cannot share a pool and hand it over without idle time. *)
BlockingHolders(placed, o) ==
  {p \in DOMAIN placed \ {o} :
     /\ placed[p].end = placed[o].start - ExplainedSetup(placed, o)
     /\ \E r \in RequiredBy(o) \cap RequiredBy(p) : Needs[p][r] + Needs[o][r] > PoolSize[r]}

TightPredecessors(placed, o) ==
  {p \in DOMAIN placed :
     p = PredecessorOf[o] /\ placed[o].start = placed[p].end}
  \cup {p \in {Predecessor(placed, o)} \ {None} : MachineTight(placed, p, o)}
  \cup BlockingHolders(placed, o)

MakespanOps(placed) == {o \in DOMAIN placed : \A p \in DOMAIN placed : placed[p].end <= placed[o].end}

(* One walk from a makespan operation over the tight predecessor that      *)
(* finishes last; its operations end one after the other.                  *)
CriticalChain(placed) ==
  LET lastOf(ops) == IF ops = {} THEN None
                     ELSE CHOOSE p \in ops : \A q \in ops : placed[q].end <= placed[p].end
      walk[k \in 1 .. Cardinality(DOMAIN placed)] ==
        IF k = 1 THEN lastOf(MakespanOps(placed))
        ELSE IF walk[k - 1] = None THEN None
        ELSE lastOf(TightPredecessors(placed, walk[k - 1]))
  IN  {walk[k] : k \in DOMAIN walk} \ {None}

OnCriticalPaths(placed) ==
  LET reach[k \in 0 .. Cardinality(DOMAIN placed)] ==
        IF k = 0 THEN MakespanOps(placed)
        ELSE reach[k - 1] \cup UNION {TightPredecessors(placed, o) : o \in reach[k - 1]}
  IN  reach[Cardinality(DOMAIN placed)]

(* The neighbours of some operations on their machines, and the setups     *)
(* around an operation.                                                    *)
MachineNeighbours(placed, ops) ==
  {o \in DOMAIN placed \ ops :
     \E c \in ops : Follows(placed, placed[c].wc, c, o) \/ Follows(placed, placed[c].wc, o, c)}

SetupsAround(placed) ==
  [o \in DOMAIN placed |->
     ActualSetup(placed, o)
     + MapThenSumSet(LAMBDA f : ActualSetup(placed, f),
                     {f \in On(placed, placed[o].wc) : Predecessor(placed, f) = o})]

(* The chain's last n operations; a short chain is filled with the other   *)
(* critical operations and then with neighbours.                           *)
FillOtherCriticalOps(placed, chosen, n) ==
  {chosen \cup s :
     s \in Foremost(OnCriticalPaths(placed) \ chosen, n - Cardinality(chosen), EndsOf(placed))}

ExtendWithMachineNeighbours(placed, chosen, n) ==
  {chosen \cup s :
     s \in Foremost(MachineNeighbours(placed, chosen), n - Cardinality(chosen), SetupsAround(placed))}

DestroyCriticalPath(placed, n) ==
  LET chain == CriticalChain(placed)
  IN  IF placed = [x \in {} |-> None] THEN {}
      ELSE IF Cardinality(chain) >= n THEN Foremost(chain, n, EndsOf(placed))
      ELSE UNION {ExtendWithMachineNeighbours(placed, filled, n) :
                    filled \in FillOtherCriticalOps(placed, chain, n)}

-----------------------------------------------------------------------------
(* The tails of the tardiest orders, or of those with the least slack. *)
DestroyDuePressure(placed, n) ==
  LET completion(r) == Completion(placed, r)
      started == {OrderOf[o] : o \in DOMAIN placed}
      tardy == {r \in started : completion(r) > Due[r]}
      close == {r \in started : completion(r) < Due[r]}
      urgency == IF tardy # {} THEN [r \in tardy |-> OrderPriority[r] * (completion(r) - Due[r])]
                               ELSE [r \in close |-> completion(r) - Due[r]]
      pool == {o \in DOMAIN placed : OrderOf[o] \in DOMAIN urgency}
      before(x, y) == \/ urgency[OrderOf[x]] > urgency[OrderOf[y]]
                      \/ /\ urgency[OrderOf[x]] = urgency[OrderOf[y]]
                         /\ OrderOf[x] = OrderOf[y] => placed[x].end >= placed[y].end
  IN  {s \in DestroyRandom([o \in pool |-> placed[o]], n) : \A x \in s, y \in pool \ s : before(x, y)}

-----------------------------------------------------------------------------
(* DESTROY_OPERATORS: whatever weights or the bandit prefer, each may be   *)
(* drawn.                                                                  *)
Selections(placed, n) ==
  UNION {DestroyRandom(placed, n), DestroyWorst(placed, n), DestroyRelated(placed, n),
         DestroyMachineSegment(placed, n), DestroyPrecedenceChain(placed, n),
         DestroyCriticalPath(placed, n), DestroyDuePressure(placed, n)}

Successors(ops) == {o \in Ops : PredecessorOf[o] \in ops}

(* _expand_successor_closure, among the operations of a problem. *)
SuccessorClosure(window, chosen) ==
  LET layer[k \in 0 .. Cardinality(window)] ==
        IF k = 0 THEN chosen
        ELSE layer[k - 1] \cup (Successors(layer[k - 1]) \cap window)
  IN  layer[Cardinality(window)]

(* A bug: leaves are taken back first, as a cap on any set would. *)
CapLeavesFirst(closed, n) ==
  LET surplus == Larger(Cardinality(closed) - n, 0)
      taken[k \in 0 .. surplus] ==
        IF k = 0 THEN {closed}
        ELSE UNION {{s \ {leaf} : leaf \in {o \in s : Successors({o}) \cap s = {}}} : s \in taken[k - 1]}
  IN  taken[surplus]

(* _cap_destroy_set_preserving_successor_closure: roots are taken back,    *)
(* one at a time, while there are too many.                                *)
CapPreservingClosure(closed, n) ==
  LET surplus == Larger(Cardinality(closed) - n, 0)
      taken[k \in 0 .. surplus] ==
        IF k = 0 THEN {closed}
        ELSE UNION {{s \ {root} : root \in {o \in s : PredecessorOf[o] \notin s}} : s \in taken[k - 1]}
  IN  taken[surplus]
=============================================================================
