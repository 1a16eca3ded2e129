------------------------- MODULE IncrementalRepair -------------------------
(***************************************************************************)
(* Waves of repairs over an issued plan (synaps/solvers/                   *)
(* incremental_repair.py, delta_notary.py, planning_policy.py and          *)
(* repair_schedule in portfolio.py).  A caller names disrupted operations; *)
(* they and their successors within a radius are taken out and inserted    *)
(* again around the rest, by CP-SAT when a ready one fits nowhere.  The    *)
(* notary then decides the claim, exhaustively or only where stamps        *)
(* changed, and the caller adopts a feasible claim that the portfolio's    *)
(* exhaustive verification confirms.                                       *)
(*                                                                         *)
(* The assignments a repair leaves in place are the caller's own objects,  *)
(* so the setups recomputed for the result are also written in the issued  *)
(* plan, which is the notary's baseline.                                   *)
(***************************************************************************)
EXTENDS CpSatModel

CONSTANTS
  IssuedPlans,   \* the plans the first wave may start from
  LateOps,       \* operations of orders that arrive after the plan was issued
  Requests,      \* disrupted, radius (or None), regime, freezeEnd (or None),
                 \* breakFreeze, notary
  Priority,      \* of the operation's order
  LargeProblem,  \* whether n_ops reaches APPEND_GAP_SCAN_MIN_OPS, a set of cases
  MaxWaves       \* bound of the model: repairs in a row

ASSUME IncrementalRepairAssumption ==
  /\ LateOps \subseteq Ops
  /\ \A plan \in IssuedPlans :
       /\ plan \in [Ops \ LateOps -> Assignment]
       /\ \A o \in DOMAIN plan : plan[o].end = plan[o].start + Duration[o][plan[o].wc]
  /\ \A q \in Requests :
       /\ q.disrupted \subseteq Ops /\ q.disrupted # {}
       /\ q.radius \in Nat \cup {None}
       /\ q.regime \in {"breakdown", "rush_order", "interactive"}
       /\ q.freezeEnd \in Int \cup {None} /\ q.breakFreeze \in BOOLEAN
       /\ q.notary \in {"exhaustive", "delta", "shadow"}
  /\ Priority \in [Ops -> Int]
  /\ LargeProblem \subseteq BOOLEAN
  /\ MaxWaves \in Nat

VARIABLES
  known,    \* problem.operations
  plan,     \* base_assignments, the caller's objects
  request,  \* the repair under way
  near,     \* neighbourhood
  placed,   \* machine_idx: what is left in place and what was inserted
  cache,    \* MachineIndex._resource_windows_cache
  phase,
  large,    \* the size class of the problem
  waves,    \* repairs so far
  outcome   \* of the last repair

vars == <<known, plan, request, near, placed, cache, phase, large, waves, outcome>>

Init ==
  /\ known = Ops \ LateOps
  /\ plan \in IssuedPlans
  /\ request = None
  /\ near = {}
  /\ placed = Empty
  /\ cache = Empty
  /\ phase = "idle"
  /\ large \in LargeProblem
  /\ waves = 0
  /\ outcome = None

-----------------------------------------------------------------------------
(* Which operations are taken out. *)

SuccessorsOf(ops) == {o \in known : PredecessorOf[o] \in ops}

(* The operations reached from some in at most n steps of the chains. *)
Downstream(ops, n) ==
  LET layer[k \in 0..n] == IF k = 0 THEN ops ELSE layer[k - 1] \cup SuccessorsOf(layer[k - 1])
  IN  layer[n]

Smaller(a, b) == IF a <= b THEN a ELSE b

(* A bug: the length of the chains behind the disruption is not counted. *)
RadiusByDisruptionOnly(disrupted, regime) ==
  LET n == Cardinality(disrupted)
  IN  CASE regime = "breakdown" -> Larger(2, Smaller(Cardinality(known), 2 * n))
        [] regime = "rush_order" -> Larger(3, Smaller(Cardinality(known), n + 2))
        [] regime = "interactive" -> 1

RecommendedRadius(disrupted, regime) ==
  LET n == Cardinality(disrupted)
      behind == Cardinality(Downstream(disrupted, Cardinality(known)) \ disrupted)
  IN  CASE regime = "breakdown" ->
             Larger(2, Smaller(Cardinality(known), Larger(2 * n, behind)))
        [] regime = "rush_order" ->
             Larger(3, Smaller(Cardinality(known), Larger(n + 2, behind)))
        [] regime = "interactive" -> 1

(* A bug: a rush order's own operations may leave the freeze window. *)
FrozenUnlessDisrupted(q) ==
  IF q.freezeEnd = None \/ q.breakFreeze
    THEN {}
    ELSE {o \in DOMAIN plan : plan[o].start < q.freezeEnd} \ q.disrupted

(* frozen_ids_for_repair: only a breakdown may move what it disrupts. *)
FrozenIds(q) ==
  IF q.freezeEnd = None \/ q.breakFreeze
    THEN {}
    ELSE {o \in DOMAIN plan : plan[o].start < q.freezeEnd}
         \ (IF q.regime = "breakdown" THEN q.disrupted ELSE {})

RadiusOf(q) ==
  IF q.radius = None THEN RecommendedRadius(q.disrupted, q.regime) ELSE q.radius

Neighbourhood(q) == Downstream(q.disrupted, RadiusOf(q)) \ FrozenIds(q)

(* The operations of an order that was released after the plan was issued. *)
Arrive(o) ==
  /\ phase = "idle"
  /\ o \in LateOps \ known
  /\ known' = known \cup {o}
  /\ UNCHANGED <<plan, request, near, placed, cache, phase, large, waves, outcome>>

StartRepair(q) ==
  /\ phase = "idle"
  /\ waves < MaxWaves
  /\ q.disrupted \subseteq known
  /\ request' = q
  /\ near' = Neighbourhood(q)
  /\ placed' = [o \in DOMAIN plan \ Neighbourhood(q) |-> plan[o]]
  /\ cache' = Empty
  /\ phase' = "inserting"
  /\ UNCHANGED <<known, plan, large, waves, outcome>>

-----------------------------------------------------------------------------
(* _GreedyRepairLoop. *)

Remaining == (near \cap known) \ DOMAIN placed

(* Precedence edges are not looked at. *)
ReadyOps == {o \in Remaining : PredecessorOf[o] \in DOMAIN placed \cup {None}}

PredecessorEnd(o) == IF PredecessorOf[o] = None THEN 0 ELSE placed[PredecessorOf[o]].end

EarliestStart(o) == Larger(PredecessorEnd(o), Release[o])

SearchedCache == CachedFor(placed, cache, {RequiredBy(o) : o \in ReadyOps})

SlotsOf(o) ==
  UNION {EarliestSlots(placed, WindowsSeenBy(SearchedCache, o), GapScanFor(large, o),
                       o, m, EarliestStart(o)) : m \in EligibleFor[o]}

(* The candidate key: priority, then completion; material loss, sequence   *)
(* and names settle what is left.                                          *)
BestCandidates ==
  LET all == UNION {{o} \X SlotsOf(o) : o \in ReadyOps}
  IN  {c \in all : \A d \in all :
         \/ Priority[d[1]] < Priority[c[1]]
         \/ Priority[d[1]] = Priority[c[1]] /\ c[2].end <= d[2].end}

Insert ==
  /\ phase = "inserting"
  /\ \E c \in BestCandidates :
       /\ placed' = PlaceAt(placed, c[1], c[2])
       /\ cache' = CacheAfterAdd(SearchedCache, placed', c[1])
  /\ UNCHANGED <<known, plan, request, near, phase, large, waves, outcome>>

-----------------------------------------------------------------------------
(* _cpsat_fallback: one model of the remaining operations around the rest. *)

(* A ready operation fits nowhere. *)
SlotMissing == phase = "inserting" /\ ReadyOps # {} /\ BestCandidates = {}

(* A free operation's predecessor is placed or free; the micro problem has *)
(* no precedence edges.                                                    *)
FallbackPlaces ==
  /\ SlotMissing
  /\ \A o \in Remaining : PredecessorOf[o] \in DOMAIN placed \cup Remaining \cup {None}
  /\ FixedFits(placed, Remaining)
  /\ \E free \in Admitted(placed, Remaining, {}) : placed' = Around(placed, free)
  /\ phase' = "placed"
  /\ UNCHANGED <<known, plan, request, near, cache, large, waves, outcome>>

(* It found none in its five seconds, there is none, or it raised. *)
FallbackFails ==
  /\ SlotMissing
  /\ phase' = "placed"
  /\ UNCHANGED <<known, plan, request, near, placed, cache, large, waves, outcome>>

(* Nothing remains, or nothing that remains has its predecessor. *)
InsertionEnds ==
  /\ phase = "inserting"
  /\ ReadyOps = {}
  /\ phase' = "placed"
  /\ UNCHANGED <<known, plan, request, near, placed, cache, large, waves, outcome>>

-----------------------------------------------------------------------------
(* The notary and the claim. *)

(* Stamps are compared with the base list after its setups were rewritten. *)
Baseline(final) ==
  [o \in DOMAIN plan |-> IF o \in near THEN plan[o] ELSE final[o]]

TouchesFreeze(a, freezeEnd) ==
  freezeEnd # None /\ a.start - a.setup < freezeEnd /\ freezeEnd < a.end

DirtyOps(before, after, freezeEnd) ==
  ((DOMAIN before \cup DOMAIN after) \ (DOMAIN before \cap DOMAIN after))
  \cup {o \in DOMAIN before \cap DOMAIN after : before[o] # after[o]}
  \cup {o \in DOMAIN after : TouchesFreeze(after[o], freezeEnd)}

(* A bug: the machine an operation left is not looked at. *)
ScopeOfArrivals(before, after, freezeEnd) ==
  LET dirty == DirtyOps(before, after, freezeEnd)
  IN  [ops |-> dirty, machines |-> {after[o].wc : o \in dirty \cap DOMAIN after}]

(* _build_notary_scope. *)
NotaryScope(before, after, freezeEnd) ==
  LET dirty == DirtyOps(before, after, freezeEnd)
  IN  [ops |-> dirty,
       machines |-> {before[o].wc : o \in dirty \cap DOMAIN before}
                    \cup {after[o].wc : o \in dirty \cap DOMAIN after}]

(* notarize_repair: shadow claims by the exhaustive hits. *)
ClaimViolations(final) ==
  IF request.notary = "delta"
    THEN Check(known, final, NotaryScope(Baseline(final), final, request.freezeEnd))
    ELSE Check(known, final, Everything)

(* _publish_repair_result. *)
StatusOf(unrepaired, violations) ==
  IF unrepaired = {} /\ violations = {} THEN "feasible" ELSE "infeasible"

(* The result, and what the caller does with it: a feasible claim that the *)
(* exhaustive verification confirms becomes the plan; a refuted one is     *)
(* PortfolioValidationError, and the issued plan stays, setups rewritten.  *)
Publish ==
  LET final == RecomputeSetups(placed)
      claimed == ClaimViolations(final)
      found == Check(known, final, Everything)
      status == StatusOf(Remaining, claimed)
  IN  /\ phase = "placed"
      /\ outcome' = [status |-> status, claimed |-> claimed, found |-> found,
                     legal |-> Legal(known, final), request |-> request,
                     cleanBefore |-> Check(DOMAIN plan, plan, Everything) = {}]
      /\ plan' = IF status = "feasible" /\ found = {} THEN final ELSE Baseline(final)
      /\ waves' = waves + 1
      /\ phase' = "idle"
      /\ request' = None
      /\ near' = {}
      /\ placed' = Empty
      /\ cache' = Empty
      /\ UNCHANGED <<known, large>>

Next ==
  \/ \E o \in LateOps : Arrive(o)
  \/ \E q \in Requests : StartRepair(q)
  \/ Insert
  \/ FallbackPlaces
  \/ FallbackFails
  \/ InsertionEnds
  \/ Publish

Spec == Init /\ [][Next]_vars

-----------------------------------------------------------------------------
(* A claim made on an exhaustive verdict, by default or in shadow, is true *)
(* of the whole plan: every operation of the problem is placed, machines,  *)
(* pools, shifts, windows, chains and edges hold, however the insertion    *)
(* ended and although neither the greedy loop nor the CP-SAT fallback      *)
(* looks at precedence edges or at the setups it causes behind it.         *)
ExhaustiveClaimIsLegal ==
  outcome # None =>
    (outcome.request.notary # "delta" /\ outcome.status = "feasible" => outcome.legal)

(* On a baseline that verifies, the delta notary passes over no violation  *)
(* except a shift that is broken by a setup it did not see change: walking *)
(* the machines an operation left or joined and re-checking what moved is  *)
(* enough for overlaps, setup gaps, chains, edges, pools and windows.      *)
DeltaMissesOnlyShifts ==
  outcome # None =>
    (outcome.request.notary = "delta" /\ outcome.cleanBefore /\ outcome.claimed = {} =>
       \A v \in outcome.found : v[1] = "CALENDAR_VIOLATION")

(* What a claim of feasibility is worth, by the notary that made it.       *)
ClaimMeansLegal == ExhaustiveClaimIsLegal /\ DeltaMissesOnlyShifts

(* With the recommended radius and no freeze horizon, a disruption takes   *)
(* its chains out to their ends, so no repair leaves an operation before   *)
(* its predecessor; only the interactive radius is shorter by design.      *)
WholeChainsMove ==
  outcome # None =>
    (/\ outcome.request.radius = None
     /\ outcome.request.freezeEnd = None
     /\ outcome.request.regime # "interactive"
     /\ outcome.cleanBefore
     => \A v \in outcome.found : v[1] # "PRECEDENCE_VIOLATION")

(* Work that starts before the freeze horizon keeps its machine and its    *)
(* times through any repair that may not break the freeze, unless a        *)
(* breakdown names it; and what is not behind a disrupted operation stays. *)
Moved(o) ==
  <<plan'[o].wc, plan'[o].start, plan'[o].end>> # <<plan[o].wc, plan[o].start, plan[o].end>>

OnlyTheDisruptedMoves ==
  [][\A o \in DOMAIN plan :
       Moved(o) =>
         /\ o \in Downstream(request.disrupted, Cardinality(known))
         /\ \/ request.freezeEnd = None
            \/ request.breakFreeze
            \/ plan[o].start >= request.freezeEnd
            \/ request.regime = "breakdown" /\ o \in request.disrupted]_vars
=============================================================================
