------------------------------- MODULE AlnsRun -------------------------------
(***************************************************************************)
(* One ALNS search (_AlnsRun and AlnsSolver in synaps/solvers/             *)
(* alns_solver.py) on a problem or on a window of the receding horizon,    *)
(* next to the frozen work of earlier windows: the attempts at a seed, the *)
(* loop that destroys, repairs, evaluates and accepts, and the final       *)
(* validation with its recovery to the seed.                               *)
(*                                                                         *)
(* A window knows its own operations only.  The solver knows the states of *)
(* frozen operations through frozen_context_operations; the checker and    *)
(* the dispatch kernel do not, and nobody knows what they hold of the      *)
(* auxiliary pools.  What the other constructive solvers may return is     *)
(* given; the repair lanes are modelled by what they accept.  Clocks and   *)
(* the annealing temperature are choices, and stamped setups are those of  *)
(* the whole timeline.                                                     *)
(***************************************************************************)
EXTENDS CpSatModel, DestroyOperators

CONSTANTS
  Cases,             \* frozen, warm, native (or None), cover (or None), constructive,
                     \* and large: n_ops >= APPEND_GAP_SCAN_MIN_OPS
  FixedIds,          \* fixed_op_ids, never selected for destruction
  DestroySize, MaxDestroy, CpSatMaxDestroy,
  MaxIterations, MaxNoImprove,
  Weights

(* A plan of some operations, with the whole duration of each. *)
IsPlan(plan, ops) ==
  /\ DOMAIN plan \subseteq ops /\ plan \in [DOMAIN plan -> Assignment]
  /\ \A o \in DOMAIN plan : plan[o].end = plan[o].start + Duration[o][plan[o].wc]

ASSUME AlnsRunAssumption ==
  /\ \A c \in Cases :
       /\ IsPlan(c.frozen, Ops) /\ IsPlan(c.warm, Ops)
       /\ c.large \in BOOLEAN
       /\ \A plan \in {c.native, c.cover} \cup c.constructive :
            plan = None \/ IsPlan(plan, Ops \ DOMAIN c.frozen)
  /\ None \notin UNION {c.constructive : c \in Cases}
  /\ None \notin States
  /\ FixedIds \subseteq Ops
  /\ {DestroySize, MaxDestroy, MaxIterations, MaxNoImprove} \subseteq Nat \ {0}
  /\ CpSatMaxDestroy \in Nat
  /\ Weights \in [makespan : Nat, setup : Nat, tardiness : Nat]

VARIABLES
  case,        \* the window and what its callers and helpers supply
  phase,
  seed,        \* initial
  warmUsed,    \* warm_start_used
  current,     \* current_assignments
  value,       \* current_obj with current_cache
  best,        \* best_assignments
  bestValue,   \* best_obj
  destroyed,   \* destroyed_ids of the iteration under way
  iteration,   \* iterations_completed
  streak,      \* no_improve_streak
  outcome

alnsVars == <<case, phase, seed, warmUsed, current, value, best, bestValue, destroyed,
              iteration, streak, outcome>>

frozen == case.frozen
Free == Ops \ DOMAIN frozen
WithFrozen(placed) == Around(frozen, placed)

(* The notary and the dispatch kernel of a window: frozen operations have  *)
(* no state, requirement, predecessor or edge there.                       *)
Seen(old) ==
  INSTANCE CpSatModel WITH
    States <- States \cup {None},
    StateOf <- [o \in Ops |-> IF o \in DOMAIN old THEN None ELSE StateOf[o]],
    SetupMinutes <- [m \in Machines |-> [s \in States \cup {None} |-> [t \in States \cup {None} |->
                       IF None \in {s, t} THEN 0 ELSE SetupMinutes[m][s][t]]]],
    Needs <- [o \in Ops |-> [r \in Resources |-> IF o \in DOMAIN old THEN 0 ELSE Needs[o][r]]],
    PredecessorOf <- [o \in Ops |->
                        IF {o, PredecessorOf[o]} \cap DOMAIN old = {} THEN PredecessorOf[o] ELSE None],
    Edges <- {e \in Edges : {e.src, e.dst} \cap DOMAIN old = {}}

-----------------------------------------------------------------------------
(* What the solver asks of a timeline. *)

(* _violates_frozen_precedence: frozen_predecessor_end_offsets. *)
FloorsHold(placed) ==
  \A o \in DOMAIN placed :
    PredecessorOf[o] \in DOMAIN frozen => frozen[PredecessorOf[o]].end <= placed[o].start

(* _has_precedence_violation *)
ChainsHold(placed) ==
  \A o \in DOMAIN placed :
    PredecessorOf[o] \in DOMAIN placed => placed[PredecessorOf[o]].end <= placed[o].start

(* _overlap: machines with every setup, and the pools as the window sees   *)
(* them.                                                                   *)
Fits(placed) ==
  Separated(WithFrozen(placed)) /\ Seen(frozen)!PoolsRespected(WithFrozen(placed))

(* A bug: a complete schedule that fits need not be shown to the checker. *)
ValidWithoutChecker(placed) ==
  DOMAIN placed = Free /\ Fits(placed) /\ ChainsHold(placed) /\ FloorsHold(placed)

(* _is_valid_complete_schedule; the checker is not shown the frozen work. *)
IsValid(placed) ==
  /\ DOMAIN placed = Free
  /\ Fits(placed) /\ ChainsHold(placed) /\ FloorsHold(placed)
  /\ Seen(frozen)!Check(Free, placed, Everything) = {}

(* _candidate_is_sane *)
IsSane(placed) ==
  DOMAIN placed = Free /\ ChainsHold(placed) /\ FloorsHold(placed) /\ Fits(placed)

(* _window_notary_violations: what is said of frozen operations is passed  *)
(* over, except an overlap.                                                *)
WindowViolations(placed) ==
  {v \in Seen(frozen)!Check(Free, WithFrozen(placed), Everything) :
     v[2] \in Free \/ v[1] = "MACHINE_OVERLAP"}

(* _occupancy_conflict_violations: processing times and pools. *)
OccupancyConflict(placed) ==
  LET all == WithFrozen(placed)
  IN  \/ \E o \in DOMAIN all : ~ Apart([p \in DOMAIN all \ {o} |-> all[p]], o, all[o])
      \/ ~ Seen(frozen)!PoolsRespected(all)

IsClean(placed) == WindowViolations(placed) = {} /\ ~ OccupancyConflict(placed)

-----------------------------------------------------------------------------
(* The repair lanes: placements of some operations around the kept ones,   *)
(* frozen work included.                                                   *)

Kept(chosen) == [o \in DOMAIN current \ chosen |-> current[o]]

(* _native_repair_skip_reason and _try_native_greedy_repair: whatever the  *)
(* kernel packs behind the kept work, unless a violation touches it.       *)
NativeRepairs(base, ops) ==
  LET packed == {s \in SchedulesOf(ops) :
                   \A o \in ops : \A k \in On(base, s[o].wc) : base[k].end <= s[o].start}
      blocking(s) ==
        {v \in Seen(frozen)!Check(Free, Around(base, s), Everything) :
           v[2] \in Free /\ (v[1] = "MISSING_ASSIGNMENT" => v[2] \in ops)}
  IN  IF case.large \/ (\E o \in Free : RequiredBy(o) # {}) \/ (\E m \in Machines : Calendar[m] # {})
        THEN {}
        ELSE {s \in packed : blocking(s) = {}}

(* IncrementalRepair with radius 0: its notary must be clean, and calls    *)
(* frozen operations unknown; an empty base is refused.                    *)
PythonRepairs(base, ops) ==
  IF base = Empty \/ DOMAIN base \cap DOMAIN frozen # {}
    THEN {}
    ELSE {s \in SchedulesOf(ops) : Check(Free, RecomputeSetups(Around(base, s)), Everything) = {}}

(* _repair_greedy_outcome *)
GreedyOutcomes(base, ops) == NativeRepairs(base, ops) \cup PythonRepairs(base, ops)

(* _repair_cpsat_outcome: a sub-problem of the destroyed operations, with  *)
(* the kept ones of the machines it may use, without precedence edges.     *)
CpSatOutcomes(base, ops) ==
  LET relevant == [k \in {x \in DOMAIN base : \E o \in ops : base[x].wc \in EligibleFor[o]} |-> base[k]]
      model(s) ==
        /\ \A o \in ops : ClearOfFixed(base, s, o) /\ WithinTimeBounds(base, s, o) /\ InOneShift(s, o)
        /\ Separated(s)
        /\ Seen(frozen)!PoolsFit(relevant, s)
  IN  IF Seen(frozen)!FixedFits(relevant, ops) THEN {s \in SchedulesOf(ops) : model(s)} ELSE {}

(* _attempt_alns_pair_repair: the CP-SAT lane for small sets, the greedy   *)
(* lane behind it or alone; both re-check machines and floors.             *)
Repairs(base, ops) ==
  {s \in GreedyOutcomes(base, ops)
         \cup (IF Cardinality(ops) <= CpSatMaxDestroy THEN CpSatOutcomes(base, ops) ELSE {}) :
     Separated(Around(base, s)) /\ FloorsHold(s)}

-----------------------------------------------------------------------------
(* _reanchor_against_frozen: free assignments by start, each on its own    *)
(* machine at the earliest slot behind its predecessor; one whose          *)
(* predecessor is still to come, or that fits nowhere, waits for the next  *)
(* pass.                                                                   *)
ReanchorStep(placed, s) ==
  LET o == CHOOSE x \in s.todo : \A y \in s.todo : placed[x].start <= placed[y].start
      p == PredecessorOf[o]
      earliest == IF p \in DOMAIN s.at THEN s.at[p].end ELSE 0
      slots == Seen(frozen)!EarliestSlots(
                 s.at, Seen(frozen)!FreshWindows(s.at, RequiredBy(o)), GapScanFor(case.large, o),
                 o, placed[o].wc, earliest)
  IN  IF s.todo = {}
        THEN [todo |-> s.later, later |-> {}, at |-> s.at]
      ELSE IF p \in s.todo \cup s.later \/ slots = {}
        THEN [s EXCEPT !.todo = @ \ {o}, !.later = @ \cup {o}]
      ELSE [s EXCEPT !.todo = @ \ {o}, !.at = PlaceAt(@, o, CHOOSE x \in slots : TRUE)]

Reanchored(placed) ==
  LET last == (Cardinality(DOMAIN placed) + 1) * (Cardinality(DOMAIN placed) + 1)
      run[k \in 0 .. last] ==
        IF k = 0 THEN [todo |-> DOMAIN placed, later |-> {}, at |-> frozen]
                 ELSE ReanchorStep(placed, run[k - 1])
  IN  IF run[last].todo \cup run[last].later # {}
        THEN Empty
        ELSE [o \in DOMAIN placed |-> run[last].at[o]]

-----------------------------------------------------------------------------
(* The objective, kept per machine and per order. *)

MachineEnd(placed, m) == Latest({placed[o].end : o \in On(placed, m)})
MachineSetup(placed, m) == MapThenSumSet(LAMBDA o : ActualSetup(placed, o), On(placed, m))
UsedMachines(placed) == {placed[o].wc : o \in DOMAIN placed}
OrdersOf(ops) == {OrderOf[o] : o \in ops}

(* _build_machine_objective_cache *)
CacheOf(placed) ==
  [ends |-> [m \in UsedMachines(placed) |-> MachineEnd(placed, m)],
   setups |-> [m \in UsedMachines(placed) |-> MachineSetup(placed, m)],
   completion |-> [r \in OrdersOf(DOMAIN placed) |-> Completion(placed, r)]]

(* A bug: only the machines the operations came to are recomputed. *)
TouchedByArrivals(chosen, candidate) == {candidate[o].wc : o \in chosen}

(* _evaluate_candidate: the machines the destroyed operations were on and  *)
(* those they are now on.                                                  *)
TouchedMachines(chosen, candidate) ==
  {current[o].wc : o \in chosen \cap DOMAIN current} \cup {candidate[o].wc : o \in chosen}

(* _evaluate_objective_incremental: orders with work on a touched machine  *)
(* are completed anew.                                                     *)
UpdatedCache(cache, candidate, touched) ==
  LET kept(m) == m \in DOMAIN cache.ends \ touched
      machines == {m \in Machines : kept(m) \/ (m \in touched /\ On(candidate, m) # {})}
      orders == OrdersOf({o \in DOMAIN candidate : candidate[o].wc \in touched})
  IN  [ends |-> [m \in machines |-> IF kept(m) THEN cache.ends[m] ELSE MachineEnd(candidate, m)],
       setups |-> [m \in machines |-> IF kept(m) THEN cache.setups[m] ELSE MachineSetup(candidate, m)],
       completion |-> [r \in DOMAIN cache.completion \cup orders |->
                         IF r \in orders THEN Completion(candidate, r) ELSE cache.completion[r]]]

ValueOf(cache, placed) ==
  [makespan |-> Latest({cache.ends[m] : m \in DOMAIN cache.ends} \cup {0}),
   setup |-> MapThenSumSet(LAMBDA m : cache.setups[m], DOMAIN cache.setups),
   tardiness |-> MapThenSumSet(
                   LAMBDA r : Larger((IF r \in DOMAIN cache.completion THEN cache.completion[r] ELSE HorizonEnd)
                                     - Due[r], 0), Orders),
   scheduled |-> Cardinality(DOMAIN placed),
   cache |-> cache]

ScalarCost(v) == scalarize(v, Weights)

-----------------------------------------------------------------------------
(* Phase 1: the attempts at a seed, in order. *)

AlnsInit ==
  /\ case \in Cases
  /\ phase = "warm"
  /\ seed = Empty /\ current = Empty /\ best = Empty
  /\ warmUsed = FALSE
  /\ value = None /\ bestValue = None
  /\ destroyed = {}
  /\ iteration = 0 /\ streak = 0
  /\ outcome = None

SearchUntouched == UNCHANGED <<case, current, value, best, bestValue, destroyed, iteration, streak>>

GoTo(p) == phase' = p /\ UNCHANGED <<seed, warmUsed, outcome>> /\ SearchUntouched

Seeded(plan, p) ==
  /\ seed' = RecomputeSetups(plan)
  /\ phase' = p
  /\ warmUsed' = (warmUsed \/ phase = "warm")
  /\ UNCHANGED outcome /\ SearchUntouched

(* _error_result: no assignments. *)
Abort ==
  /\ phase' = "done"
  /\ outcome' = [status |-> "error", plan |-> Empty, from |-> "seeding"]
  /\ UNCHANGED <<seed, warmUsed>> /\ SearchUntouched

AfterSeed == IF frozen # Empty THEN "reanchor" ELSE "complete"

(* _collect_warm_start and _try_warm_start_seed: what the window still     *)
(* has, completed by the greedy lane around it while there is time.        *)
WarmCandidates ==
  LET supplied == [o \in DOMAIN case.warm \cap Free |-> case.warm[o]]
      missing == Free \ DOMAIN supplied
  IN  {supplied} \cup
      (IF missing = {} THEN {} ELSE {Around(supplied, s) : s \in GreedyOutcomes(supplied, missing)})

UsableWarmStart(candidate) ==
  IF IsValid(candidate) THEN {candidate}
  ELSE {plan \in {Reanchored(candidate)} : frozen # Empty /\ IsValid(plan)}

TryWarmStart ==
  /\ phase = "warm"
  /\ \E candidate \in WarmCandidates :
       IF DOMAIN case.warm \cap Free # {} /\ UsableWarmStart(candidate) # {}
         THEN \E plan \in UsableWarmStart(candidate) : Seeded(plan, AfterSeed)
         ELSE GoTo("frozen")

(* _try_frozen_seed: everything by the greedy lane, around the frozen work. *)
TryFrozenSeed ==
  /\ phase = "frozen"
  /\ \/ /\ frozen # Empty
        /\ \E s \in GreedyOutcomes(frozen, Free) : IsValid(s) /\ Seeded(s, AfterSeed)
     \/ GoTo("native")

(* _try_native_seed: only complete and without overlap of its own; a       *)
(* cheaper constructive schedule is preferred in small windows.            *)
TryNativeSeed ==
  LET native == case.native
      usable == /\ native # None
                /\ DOMAIN native = Free
                /\ \A o \in Free : Apart([p \in Free \ {o} |-> native[p]], o, native[o])
      cheaper(plan) == IsValid(plan) /\ ScalarCost(evaluate(plan)) < ScalarCost(evaluate(native))
  IN  /\ phase = "native"
      /\ \/ usable /\ Seeded(native, AfterSeed)
         \/ usable /\ \E plan \in case.constructive : cheaper(plan) /\ Seeded(plan, AfterSeed)
         \/ ~ usable /\ GoTo("cover")

(* _try_cover_seed: the list schedule, of large windows without frozen     *)
(* work or calendars, whatever it placed.                                  *)
TryCoverSeed ==
  /\ phase = "cover"
  /\ IF frozen = Empty /\ case.large /\ case.cover # None /\ (\A m \in Machines : Calendar[m] = {})
       THEN Seeded(case.cover, AfterSeed)
       ELSE GoTo("constructive")

(* _constructive_seed: beam or greedy, valid or at least not empty. *)
ConstructiveSeed ==
  /\ phase = "constructive"
  /\ \E plan \in case.constructive : IF plan = Empty THEN Abort ELSE Seeded(plan, AfterSeed)

(* _reanchor_initial *)
ReanchorSeed ==
  /\ phase = "reanchor"
  /\ IF IsValid(Reanchored(seed)) THEN Seeded(Reanchored(seed), "complete") ELSE Abort

(* _complete_initial: a partial seed of a window that is not large is      *)
(* completed by the greedy lane, or kept as it is.                         *)
CompleteSeed ==
  /\ phase = "complete"
  /\ \/ /\ DOMAIN seed # Free /\ ~ case.large
        /\ \E s \in GreedyOutcomes(seed, Free \ DOMAIN seed) : Seeded(Around(seed, s), "seeded")
     \/ GoTo("seeded")

(* The wall of phase 1 has been reached. *)
OutOfSeedingTime == phase \in {"complete", "seeded"} /\ Abort

(* _init_search_state *)
InitSearch ==
  LET valued == ValueOf(CacheOf(seed), seed)
  IN  /\ phase = "seeded"
      /\ current' = seed /\ value' = valued
      /\ best' = seed /\ bestValue' = valued
      /\ phase' = "searching"
      /\ UNCHANGED <<case, seed, warmUsed, destroyed, iteration, streak, outcome>>

(* _warm_start_skip_result: close enough to the lower bound, and returned  *)
(* without the final validation.                                           *)
SkipSearch ==
  /\ phase = "searching" /\ iteration = 0 /\ warmUsed
  /\ outcome' = [status |-> "feasible", plan |-> RecomputeSetups(best), from |-> "warm start"]
  /\ phase' = "done"
  /\ UNCHANGED <<case, seed, warmUsed, current, value, best, bestValue, destroyed, iteration, streak>>

-----------------------------------------------------------------------------
(* The search loop. *)

(* _destroy, with the cap on the closure. *)
DestroySets ==
  LET selected == {s \ FixedIds : s \in Selections(current, DestroySize)}
      closed == {SuccessorClosure(Free, s) : s \in selected \ {{}}}
  IN  UNION {CapPreservingClosure(c, MaxDestroy) : c \in closed}

Destroy ==
  /\ phase = "searching"
  /\ iteration < MaxIterations
  /\ destroyed' \in DestroySets
  /\ iteration' = iteration + 1
  /\ phase' = "repairing"
  /\ UNCHANGED <<case, seed, warmUsed, current, value, best, bestValue, streak, outcome>>

(* Everything that was selected is fixed, or nothing was selected. *)
DestroyNothing ==
  /\ phase = "searching"
  /\ iteration < MaxIterations
  /\ \E s \in Selections(current, DestroySize) \cup {{}} : s \subseteq FixedIds
  /\ iteration' = iteration + 1
  /\ UNCHANGED <<case, phase, seed, warmUsed, current, value, best, bestValue, destroyed, streak, outcome>>

NextIteration(newStreak) ==
  /\ streak' = newStreak
  /\ destroyed' = {}
  /\ phase' = IF newStreak >= MaxNoImprove THEN "finalizing" ELSE "searching"
  /\ UNCHANGED <<case, seed, warmUsed, iteration, outcome>>

(* No lane repaired, or the candidate is not sane: the streak stays. *)
RepairFails ==
  /\ phase = "repairing"
  /\ phase' = "searching"
  /\ destroyed' = {}
  /\ UNCHANGED <<case, seed, warmUsed, current, value, best, bestValue, iteration, streak, outcome>>

Candidates ==
  {RecomputeSetups(Around(Kept(destroyed), s)) :
     s \in Repairs(WithFrozen(Kept(destroyed)), destroyed)}

ValueOfMove(candidate) ==
  ValueOf(UpdatedCache(value.cache, candidate, TouchedMachines(destroyed, candidate)), candidate)

MoveTo(candidate, v) == current' = candidate /\ value' = v

NewBest(candidate, v) ==
  /\ ScalarCost(v) < ScalarCost(bestValue)
  /\ MoveTo(candidate, v)
  /\ best' = candidate /\ bestValue' = v
  /\ NextIteration(0)

(* A bug: what is better than the current schedule is taken for the best. *)
BetterIsBest(candidate, v) ==
  /\ ScalarCost(bestValue) <= ScalarCost(v) /\ ScalarCost(v) < ScalarCost(value)
  /\ MoveTo(candidate, v)
  /\ best' = candidate /\ bestValue' = v
  /\ NextIteration(0)

(* Better than the current schedule, but not than the best. *)
Better(candidate, v) ==
  /\ ScalarCost(bestValue) <= ScalarCost(v) /\ ScalarCost(v) < ScalarCost(value)
  /\ MoveTo(candidate, v)
  /\ UNCHANGED <<best, bestValue>>
  /\ NextIteration(0)

(* _sa_accept of what is not better, or its refusal. *)
NoBetter(candidate, v) ==
  /\ Larger(ScalarCost(bestValue), ScalarCost(value)) <= ScalarCost(v)
  /\ MoveTo(candidate, v) \/ UNCHANGED <<current, value>>
  /\ UNCHANGED <<best, bestValue>>
  /\ NextIteration(streak + 1)

Repair ==
  /\ phase = "repairing"
  /\ \E candidate \in Candidates :
       /\ IsSane(candidate)
       /\ \E v \in {ValueOfMove(candidate)} :
            NewBest(candidate, v) \/ Better(candidate, v) \/ NoBetter(candidate, v)

(* The deadline, the last iteration, or no time left for a repair. *)
StopSearch ==
  /\ phase \in {"searching", "repairing"}
  /\ phase' = "finalizing"
  /\ destroyed' = {}
  /\ UNCHANGED <<case, seed, warmUsed, current, value, best, bestValue, iteration, streak, outcome>>

-----------------------------------------------------------------------------
(* An incumbent the notary refuses gives way to the seed. *)
SeedRecovers(incumbent) == ~ IsClean(incumbent) /\ IsClean(seed) /\ FloorsHold(seed)

(* _final_validate and _finalize: the precedence flag is that of the best  *)
(* schedule, also when the seed is returned instead.                       *)
Finalize ==
  LET incumbent == RecomputeSetups(best)
      floorsHold == FloorsHold(incumbent)
      recovered == SeedRecovers(incumbent)
      clean == IsClean(incumbent) \/ recovered
  IN  /\ phase = "finalizing"
      /\ outcome' = [status |-> IF clean /\ floorsHold THEN "feasible" ELSE "error",
                     plan |-> IF recovered THEN seed ELSE incumbent,
                     from |-> IF recovered THEN "seed" ELSE "search"]
      /\ phase' = "done"
      /\ UNCHANGED <<case, seed, warmUsed, current, value, best, bestValue, destroyed, iteration, streak>>

AlnsNext ==
  \/ OutOfSeedingTime \/ StopSearch \/ Finalize
  \/ TryWarmStart \/ TryFrozenSeed \/ TryNativeSeed \/ TryCoverSeed \/ ConstructiveSeed
  \/ ReanchorSeed \/ CompleteSeed
  \/ InitSearch \/ SkipSearch
  \/ DestroyNothing \/ Destroy
  \/ RepairFails \/ Repair

AlnsSpec == AlnsInit /\ [][AlnsNext]_alnsVars

-----------------------------------------------------------------------------
(* Legal in its window: every operation of the window is placed, with all  *)
(* setups between frozen work and its own on both sides and what the       *)
(* window knows of the pools, behind frozen predecessors, in a shift,      *)
(* within its bounds, and by every chain and edge of the window.           *)
LegalInWindow(placed) ==
  LET all == WithFrozen(placed)
  IN  /\ DOMAIN placed = Free
      /\ Separated(all) /\ Seen(frozen)!PoolsRespected(all)
      /\ FloorsHold(placed) /\ ChainsHold(placed) /\ EdgesHold(placed, Edges)
      /\ \A o \in Free :
           /\ placed[o].wc \in EligibleFor[o]
           /\ Seen(frozen)!WithinShift(all, o)
           /\ Release[o] <= placed[o].start /\ placed[o].end <= HorizonEnd
           /\ LatestFinish[o] # None => placed[o].end <= LatestFinish[o]

(* A schedule called feasible is legal in its window: also when it was a   *)
(* warm start that skipped the final validation, and although no repair    *)
(* lane looks at edges or at the setups and pools behind what it inserts.  *)
ClaimIsLegal ==
  outcome # None => (outcome.status = "feasible" => LegalInWindow(outcome.plan))

(* The incremental evaluation is the full one: machines an operation left  *)
(* or joined and orders with work there are all that a move can change, so *)
(* after any series of accepted and refused moves the costs compared are   *)
(* the true ones.                                                          *)
CostsAreTrue ==
  value # None =>
    /\ value = ValueOf(CacheOf(current), current)
    /\ ScalarCost(value) = ScalarCost(evaluate(current))
    /\ ScalarCost(bestValue) = ScalarCost(evaluate(best))

(* What is returned never costs more than the seed, whatever worse         *)
(* schedules were accepted on the way and even when the best one was       *)
(* discarded by the final validation.                                      *)
NeverWorseThanSeed ==
  outcome # None =>
    (outcome.from # "seeding" => ScalarCost(evaluate(outcome.plan)) <= ScalarCost(evaluate(seed)))

(* A destroyed operation takes its successors with it, within the cap, so  *)
(* no kept operation waits for one that is being moved.                    *)
DestroyedIsClosed ==
  /\ SuccessorClosure(Free, destroyed) = destroyed
  /\ Cardinality(destroyed) <= MaxDestroy

(* A search that was started ends in an error only when its seed was       *)
(* already refused by the notary; around frozen work it never does.        *)
ErrorsComeFromTheSeed ==
  outcome # None =>
    (outcome.status = "error" /\ outcome.from # "seeding" => frozen = Empty /\ ~ IsClean(seed))

(* The status of a run is true: feasible of the plan that comes with it,   *)
(* and an error of the seed.                                               *)
StatusIsTrue == ClaimIsLegal /\ ErrorsComeFromTheSeed

=============================================================================
