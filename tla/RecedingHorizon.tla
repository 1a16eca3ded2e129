-------------------------- MODULE RecedingHorizon --------------------------
(***************************************************************************)
(* The rolling-horizon solver (synaps/solvers/rhc): windows advance over   *)
(* the horizon, an inner solver or the greedy fallback plans the           *)
(* operations admitted to each, what ends inside the window is committed   *)
(* and the rest seeds the next one; then the residual fill, the stabilizer *)
(* and the notary.                                                         *)
(*                                                                         *)
(* The sort keys, earliest starts and admission offsets are computed once, *)
(* before the first window, and never change: they are constants here.     *)
(* Which of the candidates the pressure ranking prefers is left open.      *)
(* Left out: warm starts and variable fixing, which only advise the inner  *)
(* solver.  The list schedule that replaces the windows for very large     *)
(* greedy instances is ListCover.                                          *)
(***************************************************************************)
EXTENDS FeasibilityChecker, Sequences

Seqs == INSTANCE SequencesExt

CONSTANTS
  OpenFrom,        \* operation.earliest_start, 0 when it publishes none
  Earliest,        \* op_earliest: releases and shortest durations, propagated
  AdmissionOffset, \* op_admission_offset_by_id
  DueOffset,       \* order_due_offsets of the operation's order
  SeqRank,         \* position by sequence in the order, then in the problem
  EarliestRank,    \* position in ops_sorted_by_earliest
  AdmissionRank,   \* position in ops_sorted_by_admission
  DispatchRank,    \* position by priority, then sequence
  CoverRank,       \* position in the residual fill's list
  Horizon,         \* horizon_minutes, the extended planning horizon
  WindowMinutes, OverlapMinutes,
  MaxWindows,      \* max_windows, or None
  OpCap,           \* effective_window_op_cap
  PoolLimit,       \* candidate_pool_limit
  AdmissionActive, \* candidate_admission_active
  ReadyFilter,     \* precedence_ready_candidate_filter_enabled
  FillTarget, MaxStretch,  \* of the adaptive window
  RelaxTarget,     \* progressive admission relaxation, 0 when it is off
  ScanTarget,      \* full-scan escalation, 0 when it is off
  BacktrackTail, BacktrackMax,
  Incumbents,      \* what the inner solver may answer, restricted to a window
  Configs          \* the options on and off together in a run

ASSUME RecedingHorizonAssumption ==
  /\ {Earliest, AdmissionOffset, DueOffset, OpenFrom} \subseteq [Ops -> Nat]
  /\ \A o \in Ops : /\ OpenFrom[o] <= Release[o] /\ Release[o] <= Earliest[o]
                    /\ AdmissionActive \/ AdmissionOffset[o] = Earliest[o]
  /\ \A rank \in {SeqRank, EarliestRank, AdmissionRank, DispatchRank, CoverRank} :
       rank \in [Ops -> Nat] /\ \A a, b \in Ops : a # b => rank[a] # rank[b]
  /\ \A o \in Ops : PredecessorOf[o] # None => SeqRank[PredecessorOf[o]] < SeqRank[o]
  /\ Horizon \in Nat /\ HorizonEnd <= Horizon
  /\ {WindowMinutes, OpCap, PoolLimit} \subseteq Nat \ {0}
  /\ {OverlapMinutes, FillTarget, MaxStretch, RelaxTarget, ScanTarget,
      BacktrackTail, BacktrackMax} \subseteq Nat
  /\ MaxWindows \in Nat \cup {None}
  /\ {AdmissionActive, ReadyFilter} \subseteq BOOLEAN
  /\ None \notin {"feasible", "error"}
  /\ Incumbents \subseteq [Ops -> Assignment]
  /\ \A i \in Incumbents, o \in Ops : i[o].end = i[o].start + Duration[o][i[o].wc]
  /\ Configs \subseteq [{"inner", "gate", "backtracking", "adaptive",
                         "repair", "repairOnTimeout"} -> BOOLEAN]

(* The wall clock against the budgets, which only moves forward. *)
InBudget == 0       \* the windows may go on
WindowsLate == 1    \* window_time_limit_s has passed
RunLate == 2        \* time_limit_s has passed
CoverLate == 3      \* coverage_deadline_s has passed

VARIABLES
  config,       \* the options of this run
  clock,
  phase,        \* "loop", "window", "cover", "finish", "done"
  offset,       \* window_start_offset
  windows,      \* window_count, as far as anything asks for it
  reach,        \* how far both frontier cursors have advanced
  frontier,     \* admission_candidate_ids and due_candidate_ids
  plan,         \* committed_assignment_by_op
  committed,    \* committed_assignments, the order of the list
  sealed,       \* sealed_window_op_ids
  tail,         \* operations of previous_window_tail_assignments
  w,            \* the window being solved
  timeLimited,  \* time_limit_reached
  status        \* the claim, None until it is made

progress == <<offset, windows, reach, frontier, tail>>
vars == <<config, clock, phase, progress, plan, committed, sealed, w, timeLimited, status>>

Lesser(a, b) == IF a <= b THEN a ELSE b

-----------------------------------------------------------------------------
(* Helpers over sets of operations. *)

(* The first n of a set by a rank. *)
FirstBy(rank, ops, n) ==
  {o \in ops : Cardinality({p \in ops : rank[p] < rank[o]}) < n}

ByRank(ops, rank) == Seqs!SetToSortSeq(ops, LAMBDA a, b : rank[a] < rank[b])

(* Positions by start, then by sequence. *)
StartRank(placed) ==
  [o \in DOMAIN placed |->
     Cardinality({p \in DOMAIN placed :
                    \/ placed[p].start < placed[o].start
                    \/ placed[p].start = placed[o].start /\ SeqRank[p] < SeqRank[o]})]

HoldsPredecessors(ops, resolved) ==
  \A o \in ops : PredecessorOf[o] \in {None} \cup resolved \cup ops

(* compute_precedence_closed_set, and the closure of the commit candidates: *)
(* the fixed point of dropping what has an unresolved predecessor outside.  *)
Closed(ops, resolved) == UNION {s \in SUBSET ops : HoldsPredecessors(s, resolved)}

(* _expand_predecessor_closure. *)
WithPredecessors(ops, resolved) ==
  LET expanded == {s \in SUBSET Ops : ops \subseteq s /\ HoldsPredecessors(s, resolved)}
  IN  {o \in Ops : \A s \in expanded : o \in s}

Depth[o \in Ops] == IF PredecessorOf[o] = None THEN 1 ELSE 1 + Depth[PredecessorOf[o]]

Uncommitted == Ops \ DOMAIN plan

Restricted(placed, ops) == [o \in ops |-> placed[o]]

-----------------------------------------------------------------------------
(* The candidates of a window. *)

(* _extend_candidate_frontiers, less what is committed. *)
FrontierUpTo(from, seen, end) ==
  (seen \cup {o \in Ops : \/ from <= AdmissionOffset[o] /\ AdmissionOffset[o] < end
                          \/ from <= DueOffset[o] /\ DueOffset[o] < end}) \ DOMAIN plan

Ready(ops, end, resolved) ==
  IF ReadyFilter THEN Closed({o \in ops : Earliest[o] < end}, resolved) ELSE ops

AdmittedBy(ops, end) == {o \in ops : AdmissionOffset[o] < end}

(* _gather_raw_candidates: where the window ends, stretched when adaptive   *)
(* windows are on and too few candidates are effective.                     *)
PlannedEnd == Lesser(offset + WindowMinutes + OverlapMinutes, Horizon)

StretchedEnd(raw) ==
  LET span == Larger(WindowMinutes + OverlapMinutes, 1)
      effective == Larger(1, IF AdmittedBy(raw, PlannedEnd) # {}
                               THEN Cardinality(AdmittedBy(raw, PlannedEnd))
                               ELSE Cardinality(raw))
      wanted == (span * FillTarget + effective - 1) \div effective
  IN  IF config.adaptive /\ AdmissionActive /\ effective < FillTarget
        THEN Larger(PlannedEnd, Lesser(Horizon, offset + Lesser(wanted, span * MaxStretch)))
        ELSE PlannedEnd

WindowEnd(resolved) ==
  StretchedEnd(Ready(FrontierUpTo(reach, frontier, PlannedEnd), PlannedEnd, resolved))

(* _recover_empty_frontier: the tail, else the operations that can start.   *)
Recovered(end) ==
  IF tail \ DOMAIN plan # {}
    THEN tail \ DOMAIN plan
    ELSE FirstBy(EarliestRank, {o \in Uncommitted : Earliest[o] < end}, PoolLimit)

(* _apply_admission_gate, with its relaxation. *)
PastGate(raw, end) ==
  LET admitted == Cardinality(AdmittedBy(raw, end))
  IN  IF admitted = 0 \/ (admitted < Cardinality(raw) /\ admitted < RelaxTarget)
        THEN raw ELSE AdmittedBy(raw, end)

(* _apply_full_scan: kept only when it finds more. *)
FullScan(ops, end, resolved) ==
  LET more == FirstBy(EarliestRank, Uncommitted \ ops, Larger(1, PoolLimit - Cardinality(ops)))
      found == Ready(ops \cup more, end, resolved)
  IN  IF Cardinality(ops) <= ScanTarget /\ Cardinality(found) > Cardinality(ops)
        THEN found ELSE ops

(* _clamp_candidate_pool: operations whose predecessor is open come last. *)
Clamped(ops) ==
  LET open(o) == PredecessorOf[o] \notin {None} \cup DOMAIN plan
      before(o) == {p \in ops : \/ open(o) /\ ~ open(p)
                                \/ open(o) = open(p) /\ AdmissionRank[p] < AdmissionRank[o]}
  IN  IF Cardinality(ops) <= PoolLimit THEN ops
      ELSE {o \in ops : Cardinality(before(o)) < PoolLimit}

(* _admit_candidates. *)
Scanned(ops, end, resolved) ==
  IF AdmissionActive /\ ScanTarget > 0 THEN FullScan(ops, end, resolved) ELSE ops

PastAdmission(raw, end) == IF AdmissionActive THEN PastGate(raw, end) ELSE raw

(* select_backtracking_assignments: what ends in the tail before the window *)
(* and everything committed behind it, unless that is too much.             *)
Rewound ==
  LET boundary == Larger(0, offset - BacktrackTail)
      inTime == {o \in DOMAIN plan : plan[o].end <= boundary}
      all == DOMAIN plan \ Closed(inTime, Uncommitted)
  IN  IF config.backtracking /\ BacktrackTail > 0 /\ Cardinality(all) <= BacktrackMax
        THEN all ELSE {}

-----------------------------------------------------------------------------
(* Placing a list of operations on a timeline, the loop the greedy          *)
(* fallback, the reanchoring and the residual fill share: sweep after sweep *)
(* over the operations left, each at its earliest end on one of its         *)
(* machines, until a sweep places none or the budget of placements is gone. *)
(* The outcomes are a set: machines that tie are tried in an order of the   *)
(* problem's own.                                                           *)

ChainFloor(placed, o) ==
  Larger(Earliest[o], IF PredecessorOf[o] = None THEN 0 ELSE placed[PredecessorOf[o]].end)

(* _cover_placement_floor: behind a published window the floor is that of   *)
(* the operation alone.                                                     *)
CoverFloor(placed, o) ==
  IF HardWindow[o]
    THEN Larger(OpenFrom[o], IF PredecessorOf[o] = None THEN 0 ELSE placed[PredecessorOf[o]].end)
    ELSE ChainFloor(placed, o)

FloorIn(caller, placed, o) ==
  IF caller = "fill" THEN CoverFloor(placed, o) ELSE ChainFloor(placed, o)

(* Within a limit of time, the slots that end first. *)
BestSlots(placed, seen, o, machines, floor, limit) ==
  LET slots == {s \in UNION {EarliestSlots(placed, seen, "all", o, m, floor) : m \in machines} :
                  limit = None \/ s.end <= limit}
  IN  {s \in slots : \A t \in slots : s.end <= t.end}

MayPlace(sofar, o, most) ==
  /\ Len(sofar.log) < most
  /\ o \notin DOMAIN sofar.plan
  /\ PredecessorOf[o] \in {None} \cup DOMAIN sofar.plan

Added(sofar, cache, o, slot) ==
  LET after == PlaceAt(sofar.plan, o, slot)
  IN  [plan |-> after, cache |-> CacheAfterAdd(cache, after, o), log |-> Append(sofar.log, o),
       todo |-> sofar.todo \ {o}]

PlaceOne(sofar, cache, o, machines, floor, limit) ==
  LET best == BestSlots(sofar.plan, WindowsSeenBy(cache, o), o, machines, floor, limit)
  IN  IF best = {} THEN {[sofar EXCEPT !.cache = cache, !.todo = @ \ {o}]}
      ELSE {Added(sofar, cache, o, slot) : slot \in best}

(* The operation a sweep comes to, and the next turn: a new sweep when this *)
(* one is through.                                                          *)
Visit(caller, machines, limit, most, sofar, o) ==
  IF ~ MayPlace(sofar, o, most) THEN {[sofar EXCEPT !.todo = @ \ {o}]}
  ELSE UNION {PlaceOne(sofar, cache, o, machines[o], FloorIn(caller, sofar.plan, o), limit) :
                cache \in {CachedFor(sofar.plan, sofar.cache, {RequiredBy(o)})}}

Turn(caller, ops, rank, machines, limit, most, sofar) ==
  IF sofar.todo = {} THEN {[sofar EXCEPT !.todo = ops]}
  ELSE UNION {Visit(caller, machines, limit, most, sofar, o) :
                o \in {x \in sofar.todo : \A y \in sofar.todo : rank[x] <= rank[y]}}

PlaceAll(caller, placed, ops, rank, machines, limit, most) ==
  LET turns == (Cardinality(ops) + 1) * (Cardinality(ops) + 1)
      start == [plan |-> placed, cache |-> [k \in {} |-> None], log |-> << >>, todo |-> ops]
      after[k \in 0 .. turns] ==
        IF k = 0 THEN {start}
        ELSE UNION {Turn(caller, ops, rank, machines, limit, most, sofar) : sofar \in after[k - 1]}
  IN  after[turns]

-----------------------------------------------------------------------------
(* Committing a window. *)

Frozen == Restricted(plan, DOMAIN plan \ w.rewound)

(* reanchor_inner_assignments: the incumbent replayed on the commitment, on *)
(* its own machines.  Nothing comes of it when an operation finds no slot,  *)
(* or a pool overflows.                                                     *)
Reanchored(inner) ==
  LET machines == [o \in DOMAIN inner |-> {inner[o].wc}]
      replays == PlaceAll("window", Frozen, DOMAIN inner, StartRank(inner), machines,
                          None, Cardinality(DOMAIN inner))
  IN  IF DOMAIN Frozen = {} THEN {inner}
      ELSE {Restricted(r.plan, DOMAIN inner) : r \in
              {x \in replays : DOMAIN inner \subseteq DOMAIN x.plan /\ PoolsRespected(x.plan)}}

(* collect_commit_candidates: what ends inside the window, or everything in *)
(* the last one, and never past the horizon.                                *)
EndsInside(planned) ==
  Closed({o \in DOMAIN planned :
            /\ planned[o].end <= Horizon
            /\ planned[o].end <= w.boundary \/ w.end >= Horizon},
         DOMAIN Frozen)

(* filter_commit_candidates_by_precedence: walked by start, an operation is *)
(* deferred unless its predecessor is kept and has ended.                   *)
InChainOrder(planned, ops) ==
  LET before(o) == IF PredecessorOf[o] \in DOMAIN Frozen THEN Frozen[PredecessorOf[o]]
                                                         ELSE planned[PredecessorOf[o]]
      inOrder(o) == PredecessorOf[o] # None => before(o).end <= planned[o].start
  IN  Closed({o \in ops : inOrder(o)}, DOMAIN Frozen)

(* A bug: the gate is forgotten. *)
CommitUngated(planned) == EndsInside(planned)

CommitCandidates(planned) ==
  IF config.gate THEN InChainOrder(planned, EndsInside(planned)) ELSE EndsInside(planned)

(* _commit_window: the frozen boundary and this window's commits. *)
Commit(planned, ops) ==
  /\ plan' = [o \in DOMAIN Frozen \cup ops |-> IF o \in ops THEN planned[o] ELSE plan[o]]
  /\ committed' = SelectSeq(committed, LAMBDA o : o \in DOMAIN Frozen) \o ByRank(ops, StartRank(planned))
  /\ sealed' = sealed \cap DOMAIN plan'

-----------------------------------------------------------------------------
(* The stabilizer: bounded sweeps that only push work later, never what is  *)
(* sealed, and note what a ceiling blocks.                                  *)

Ceiling(o) == IF LatestFinish[o] = None THEN HorizonEnd ELSE Lesser(LatestFinish[o], HorizonEnd)

Length(a) == a.end - a.start

StartingAt(placed, start) ==
  [o \in DOMAIN placed |->
     [placed[o] EXCEPT !.start = start[o], !.end = start[o] + Length(placed[o])]]

(* A sweep of new starts, and the operations it wanted later but could not. *)
Swept(now, start, stuck) ==
  [plan |-> StartingAt(now.plan, start),
   moved |-> now.moved \/ (\E o \in DOMAIN now.plan : start[o] # now.plan[o].start),
   blocked |-> now.blocked \/ stuck # {}]

(* _shift_later_for_precedence: along the chains, whatever the ceiling.     *)
ShiftForChains(now) ==
  LET start[o \in DOMAIN now.plan] ==
        IF o \in sealed \/ PredecessorOf[o] \notin DOMAIN now.plan
          THEN now.plan[o].start
          ELSE Larger(now.plan[o].start,
                      start[PredecessorOf[o]] + Length(now.plan[PredecessorOf[o]]))
  IN  Swept(now, start, {})

(* _shift_later_for_machine_setup: behind the operation before it in the    *)
(* sequence the sweep began with.                                           *)
ShiftForSetups(now) ==
  LET wanted(start, o) ==
        LET p == Predecessor(now.plan, o)
        IN  IF p = None \/ o \in sealed THEN now.plan[o].start
            ELSE start[p] + Length(now.plan[p]) + SetupBetween(now.plan[o].wc, p, o)
      fits(o, t) == t + Length(now.plan[o]) <= Ceiling(o)
      start[o \in DOMAIN now.plan] ==
        IF fits(o, wanted(start, o)) THEN Larger(now.plan[o].start, wanted(start, o))
                                     ELSE now.plan[o].start
  IN  Swept(now, start, {o \in DOMAIN now.plan : start[o] < wanted(start, o)})

(* _relocate_one_aux_assignment: to the next release of a pool that leaves  *)
(* room, under the setup it carries.                                        *)
RelocateForPools(now, o) ==
  LET current == now.plan[o]
      others == Restricted(now.plan, DOMAIN now.plan \ {o})
      seen == FreshWindows(others, RequiredBy(o))
      fits(t) == ResourcesFit(seen, o, t - current.setup, t + Length(current))
      later == {t \in CandidateStarts(seen, current.start, current.setup) :
                  t + Length(current) <= Ceiling(o) /\ fits(t)}
      kept == [x \in DOMAIN now.plan |-> now.plan[x].start]
  IN  IF RequiredBy(o) = {} \/ fits(current.start) THEN {now}
      ELSE IF later = {} THEN {[now EXCEPT !.blocked = TRUE]}
      ELSE {Swept(now, [kept EXCEPT ![o] = t], {}) : t \in First(later)}

(* _shift_later_for_aux: in the order of the list, from wherever the        *)
(* previous one went.                                                       *)
ShiftForPools(now) ==
  LET relocate(x, o) == IF o \in DOMAIN x.plan \ sealed THEN RelocateForPools(x, o) ELSE {x}
      after[k \in 0 .. Cardinality(DOMAIN now.plan)] ==
        IF k = 0 THEN {now} ELSE UNION {relocate(x, committed[k]) : x \in after[k - 1]}
  IN  IF PoolsRespected(now.plan) THEN {now} ELSE after[Cardinality(DOMAIN now.plan)]

(* stabilization_pass_budget. *)
PassBudget(ops) ==
  Larger(8, Lesser(64, 2 + Cardinality({Depth[o] : o \in ops})))

(* stabilize_temporal_consistency: passes until one moves nothing. *)
OnePass(now) ==
  UNION {{ShiftForChains(d) : d \in ShiftForPools(c)} :
           c \in {ShiftForSetups(b) :
                     b \in {ShiftForChains(x) : x \in {[now EXCEPT !.moved = FALSE]}}}}

Stabilized ==
  LET after[k \in 0 .. PassBudget(DOMAIN plan)] ==
        IF k = 0 THEN {[plan |-> plan, moved |-> TRUE, blocked |-> FALSE]}
        ELSE UNION {IF now.moved THEN OnePass(now) ELSE {now} : now \in after[k - 1]}
  IN  after[PassBudget(DOMAIN plan)]

Converged(stabilized) == ~ stabilized.moved /\ ~ stabilized.blocked

(* A bug: full coverage is taken for feasibility. *)
ClaimCoverage(placed, converged) ==
  IF DOMAIN placed = Ops /\ converged THEN "feasible" ELSE "error"

(* finalize_rhc_claim_status, and the empty result: never a claim. *)
Claim(placed, converged) ==
  IF DOMAIN placed = Ops /\ converged /\ Check(Ops, placed, Everything) = {}
    THEN "feasible" ELSE "error"

-----------------------------------------------------------------------------
NoWindow == [ops |-> {}, rewound |-> {}, end |-> 0, boundary |-> 0]

Init ==
  /\ config \in Configs
  /\ clock = InBudget
  /\ phase = "loop"
  /\ offset = 0 /\ windows = 0 /\ reach = 0
  /\ frontier = {} /\ tail = {} /\ sealed = {}
  /\ plan = [o \in {} |-> None]
  /\ committed = << >>
  /\ w = NoWindow
  /\ timeLimited = FALSE
  /\ status = None

(* The clock is read, never waited for: it may move at any point. *)
Tick ==
  /\ phase # "done"
  /\ clock' \in clock + 1 .. CoverLate
  /\ UNCHANGED <<config, phase, progress, plan, committed, sealed, w, timeLimited, status>>

WindowsLeft ==
  /\ ~ timeLimited
  /\ offset < Horizon
  /\ MaxWindows # None => windows < MaxWindows

(* _run_one_window up to the solve. *)
Resolved == DOMAIN plan \cup tail

RawCandidates(end) ==
  LET ready == Ready(FrontierUpTo(reach, frontier, end), end, Resolved)
  IN  IF ready = {} THEN Recovered(end) ELSE ready

CandidatesOf(end) ==
  UNION {Clamped(scanned) : scanned \in
    {Scanned(admitted, end, Resolved) : admitted \in
      {PastAdmission(raw, end) : raw \in {RawCandidates(end)}}}}

StartWindow(end) ==
  /\ phase = "loop" /\ WindowsLeft /\ clock = InBudget
  /\ windows' = Lesser(windows + 1, IF MaxWindows = None THEN 1 ELSE Larger(1, MaxWindows))
  /\ reach' = Larger(reach, end)
  /\ frontier' = FrontierUpTo(reach, frontier, end)

SealedNow == IF windows > 0 THEN sealed \cup DOMAIN plan ELSE sealed

(* A bug: what is rewound stays sealed. *)
StaySealed(ops) == SealedNow

SealedBut(ops) == SealedNow \ ops

(* A bug: the horizon stays where it is. *)
SkipInPlace(end) ==
  /\ StartWindow(end)
  /\ CandidatesOf(end) = {}
  /\ sealed' = SealedNow
  /\ UNCHANGED <<config, clock, phase, offset, tail, plan, committed, w, timeLimited, status>>

(* _skip_empty_window: the tail is kept for the next one. *)
SkipWindow(end) ==
  /\ StartWindow(end)
  /\ CandidatesOf(end) = {}
  /\ offset' = offset + WindowMinutes
  /\ sealed' = SealedNow
  /\ UNCHANGED <<config, clock, phase, tail, plan, committed, w, timeLimited, status>>

(* _rank_and_cap_window and _build_window_operations: the chosen            *)
(* candidates, the tail, what is rewound, and their open predecessors.      *)
OpenWindow(end, rewound) ==
  /\ StartWindow(end)
  /\ \E candidates \in {CandidatesOf(end)} :
       /\ candidates # {}
       /\ \E chosen \in kSubset(Lesser(OpCap, Cardinality(candidates)), candidates) :
            w' = [ops |-> WithPredecessors(chosen \cup (tail \ DOMAIN plan) \cup rewound,
                                           DOMAIN plan \ rewound),
                  rewound |-> rewound,
                  end |-> end,
                  boundary |-> offset + WindowMinutes]
  /\ sealed' = SealedBut(rewound)
  /\ phase' = "window"
  /\ UNCHANGED <<config, clock, offset, tail, plan, committed, timeLimited, status>>

EndWindow(rest) ==
  /\ tail' = rest
  /\ offset' = offset + WindowMinutes
  /\ phase' = "loop"
  /\ w' = NoWindow
  /\ UNCHANGED <<config, windows, reach, frontier, status>>

(* _commit_inner_result: an incumbent that survives the reanchoring. *)
AcceptInner ==
  /\ phase = "window" /\ config.inner
  /\ \E incumbent \in Incumbents :
     \E planned \in Reanchored(Restricted(incumbent, w.ops)) :
       /\ Commit(planned, CommitCandidates(planned))
       /\ EndWindow(DOMAIN planned \ CommitCandidates(planned))
  /\ UNCHANGED <<clock, timeLimited>>

(* A placement loop reads the clock before each placement: it makes them    *)
(* all, or is cut after some of them once the deadline has passed.          *)
PlacementsMade(n, deadline, most) ==
  \/ /\ clock < deadline
     /\ most = n
     /\ UNCHANGED <<clock, timeLimited>>
  \/ /\ most < n
     /\ clock >= deadline => most = 0
     /\ clock' = Larger(clock, deadline)
     /\ timeLimited' = TRUE

(* _run_greedy_fallback: the inner solver is not configured, was refused by *)
(* the pace guard or the budget, failed, or could not be reanchored.        *)
GreedyFallback ==
  /\ phase = "window"
  /\ \E most \in 0 .. Cardinality(w.ops) :
       /\ PlacementsMade(Cardinality(w.ops), WindowsLate, most)
       /\ \E placed \in PlaceAll("window", Frozen, w.ops, DispatchRank, EligibleFor,
                                 Horizon, most) :
          \E planned \in {Restricted(placed.plan, DOMAIN placed.plan \ DOMAIN Frozen)} :
            Commit(planned, CommitCandidates(planned))
  /\ EndWindow({})

(* The window loop is over: the horizon, the cap on windows or the budget.  *)
EndWindows ==
  /\ phase = "loop"
  /\ ~ WindowsLeft \/ clock # InBudget
  /\ timeLimited' = (timeLimited \/ WindowsLeft)
  /\ phase' = "cover"
  /\ UNCHANGED <<config, clock, progress, plan, committed, sealed, w, status>>

(* _residual_fill. *)
FillMayRun ==
  /\ config.repair
  /\ IF config.repairOnTimeout THEN clock < CoverLate ELSE ~ timeLimited /\ clock < RunLate

SkipFill ==
  /\ phase = "cover"
  /\ Uncommitted = {} \/ ~ FillMayRun
  /\ phase' = "finish"
  /\ UNCHANGED <<config, clock, progress, plan, committed, sealed, w, timeLimited, status>>

ResidualFill ==
  /\ phase = "cover"
  /\ Uncommitted # {} /\ FillMayRun
  /\ \E most \in 0 .. Cardinality(Uncommitted) :
       /\ PlacementsMade(Cardinality(Uncommitted), CoverLate, most)
       /\ \E placed \in PlaceAll("fill", plan, Uncommitted, CoverRank, EligibleFor,
                                 Horizon, most) :
            /\ plan' = placed.plan
            /\ committed' = committed \o placed.log
  /\ phase' = "finish"
  /\ UNCHANGED <<config, progress, sealed, w, status>>

(* _finalize. *)
Finalize ==
  /\ phase = "finish"
  /\ \E stable \in Stabilized :
       /\ plan' = RecomputeSetups(stable.plan)
       /\ status' = Claim(plan', Converged(stable))
  /\ phase' = "done"
  /\ UNCHANGED <<config, clock, progress, committed, sealed, w, timeLimited>>

Run == \/ \E end \in {WindowEnd(Resolved)} : SkipWindow(end) \/ OpenWindow(end, Rewound)
       \/ AcceptInner \/ GreedyFallback
       \/ EndWindows \/ SkipFill \/ ResidualFill \/ Finalize

Next == Run \/ Tick

(* The solve runs on a thread of its own and never waits for another.       *)
Spec == Init /\ [][Next]_vars /\ WF_vars(Run)

-----------------------------------------------------------------------------
(* What is committed always holds every predecessor of its operations, in   *)
(* every window and after a rewind or a cut; and with the commit gate on no *)
(* operation of it starts before its predecessor ends, whatever the inner   *)
(* solver answered (_window.py, filter_commit_candidates_by_precedence).    *)
CommitmentIsOrdered ==
  \A o \in DOMAIN plan : PredecessorOf[o] # None =>
    /\ PredecessorOf[o] \in DOMAIN plan
    /\ config.gate => plan[PredecessorOf[o]].end <= plan[o].start

(* What earlier windows sealed is not moved by a later window, by the fill  *)
(* or by the stabilizer; to move it a window must rewind it first, and then *)
(* it is no longer sealed (_solver.py, _rank_and_cap_window; _window.py,    *)
(* immutable_op_ids).                                                       *)
KeepsSealed ==
  \A o \in sealed \cap sealed' :
    o \in DOMAIN plan' /\ [plan'[o] EXCEPT !.setup = plan[o].setup] = plan[o]

SealedWorkStays == [][KeepsSealed]_vars

(* A run claims a feasible schedule only when every operation is in it and  *)
(* it is legal (finalize_rhc_claim_status).                                 *)
ClaimIsTrue == status = "feasible" => Legal(Ops, plan)

(* Every run ends with a claim or an error, whatever the inner solver does. *)
RunEnds == <>(status # None)

=============================================================================
