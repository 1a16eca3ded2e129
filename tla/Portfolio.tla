------------------------------ MODULE Portfolio ------------------------------
(***************************************************************************)
(* The entry points above the solvers (synaps/portfolio.py) and what they  *)
(* lay around a solve: the routing, the pinning of the issued plan, the    *)
(* time and memory guards (guards.py) with the thread that watches the     *)
(* process's memory, the honest status (coverage_outcome.py), verification *)
(* (validation.py) and the exit code of the process (cli.py).              *)
(*                                                                         *)
(* A caller submits the same problem again and again; solvers are external *)
(* and may answer anything.  The notary is reduced to what pinning touches:*)
(* every operation once, at a start its window allows, no two together.    *)
(* Box limits, which may be fractions, are in half seconds, others in      *)
(* seconds.  A watcher that outlives its call by the join's timeout shares *)
(* nothing with the next call and is forgotten.                            *)
(***************************************************************************)
EXTENDS Router, FiniteSets, FiniteSetsExt

CONSTANTS
  Ops, Starts,
  Windows,       \* [Ops -> SUBSET Starts]: the problem as it was loaded
  Environments,  \* what the SYNAPS_... variables say
  Platforms,     \* "posix" reads the peak of the process, "nt" its memory, "none" nothing
  Requests,
  Questions,     \* [profile, ctx]: what is asked of the router alone
  Results,       \* what solvers may return: [status, rows]
  MaxMemory, MaxCalls   \* bounds of the instance

Row == [op : Ops, start : Starts]
(* What guards one call. *)
ResourceLimits ==
  [timeout : Nat \cup {None}, memory : Nat \cup {None}, failOpen : BOOLEAN]
Statuses == {"optimal", "feasible", "infeasible", "timeout", "error"}
Success == {"optimal", "feasible"}

ASSUME PortfolioAssumption ==
  /\ Ops # {} /\ IsFiniteSet(Ops) /\ Starts \subseteq Nat
  /\ Windows \in [Ops -> SUBSET Starts]
  /\ \A res \in Results : res.status \in Statuses /\ res.rows \subseteq Row
  /\ None \notin Int \cup ResourceLimits
  /\ \A e \in Environments :
       /\ {e.timeout, e.memory} \subseteq Int \cup {None}
       /\ e.forced \in BOOLEAN /\ e.failOpen \in BOOLEAN \cup {None}
  /\ \A r \in Requests :
       /\ r.kind \in {"solve", "repair"} /\ r.box \in Nat \cup {None}
       /\ r.kind = "solve" =>
            /\ r.ctx.latency \in Int \cup {None}
            /\ r.issued \in [DOMAIN r.issued -> Starts] /\ DOMAIN r.issued \subseteq Ops
  /\ Platforms \subseteq {"posix", "nt", "none"}
  /\ {MaxMemory, MaxCalls} \subseteq Nat

VARIABLES
  env, platform,
  windows,   \* the problem's, which pinning overwrites in place
  memory, peak,
  stage,     \* "idle", "guarded", "running", "stopping", "settled"
  request, config, limits,
  forwarded, \* the solver's time_limit_s
  watcher,   \* "off", "waiting", "sampling", "over"
  breached,
  result, answer,
  calls

call == <<request, config, limits, forwarded>>
process == <<env, platform, memory, peak>>
vars == <<env, platform, windows, memory, peak, stage, request, config, limits,
          forwarded, watcher, breached, result, answer, calls>>

-----------------------------------------------------------------------------
(* Limits. *)

(* int() of the solver's own limit. *)
WholeSeconds(box) == box \div 2

(* A limit from outside may be any number, and counts if it is positive.   *)
Positive(values) == {v \in values \ {None} : v > 0}

(* The limits the environment and the routing context set from outside.    *)
Walls(r) == Positive({env.timeout, IF r.kind = "solve" THEN r.ctx.latency ELSE None})

(* The solver's own limit is one of them where guards are forced.          *)
OwnWall(r) ==
  IF r.box # None /\ WholeSeconds(r.box) > 0 /\ env.forced THEN {WholeSeconds(r.box)} ELSE {}

LimitsOver(candidates) ==
  LET timeout == IF candidates # {} THEN Min(candidates) ELSE IF env.forced THEN 600 ELSE None
      limit == IF Positive({env.memory}) = {} THEN None ELSE env.memory
  IN  IF timeout = None /\ limit = None /\ ~ env.forced
        THEN None
        ELSE [timeout |-> timeout, memory |-> limit,
              failOpen |-> IF env.failOpen = None THEN ~ env.forced ELSE env.failOpen]

(* A bug: a latency of zero is the strictest limit of all.                 *)
LimitsForAnyNumber(r) ==
  LimitsOver(Walls(r) \cup OwnWall(r) \cup
             (IF r.kind = "solve" THEN {r.ctx.latency} \ {None} ELSE {}))

(* resolve_portfolio_resource_limits *)
LimitsFor(r) == LimitsOver(Walls(r) \cup OwnWall(r))

(* guarded_solve: the stricter of the two, in half seconds. *)
Forwarded(r, lim) ==
  IF lim = None \/ lim.timeout = None THEN r.box
  ELSE IF r.box = None THEN 2 * lim.timeout
  ELSE 2 * Min({WholeSeconds(r.box), lim.timeout})

(* _publish_time_limit_honesty *)
Published(r, lim) ==
  LET numeric == ({r.box} \cup (IF lim = None \/ lim.timeout = None THEN {} ELSE {2 * lim.timeout})) \ {None}
  IN  IF numeric = {} THEN None ELSE Min(numeric)

MemoryIsLimited == limits # None /\ limits.memory # None

(* _check_memory_limit raises. *)
OverLimit ==
  MemoryIsLimited /\ IF platform = "none" THEN ~ limits.failOpen
                     ELSE (IF platform = "posix" THEN peak ELSE memory) > limits.memory

-----------------------------------------------------------------------------
(* Coverage and verification. *)

Covered(rows) == {row.op : row \in rows}

Coverage(n) ==
  IF n = 0 THEN "empty" ELSE IF n >= Cardinality(Ops) THEN "full" ELSE "incomplete"

HonestStatus(status, coverage) ==
  IF coverage = "empty" /\ status \in Success THEN "error"
  ELSE IF coverage = "incomplete" /\ status = "optimal" THEN "feasible"
  ELSE status

(* stamp_honest_coverage *)
Stamped(res) ==
  [status |-> HonestStatus(res.status, Coverage(Cardinality(Covered(res.rows)))), rows |-> res.rows]

(* _process_exit counts rows. *)
ExitCode(status, rows) ==
  LET coverage == Coverage(Cardinality(rows))
  IN  IF coverage = "empty" THEN 3
      ELSE IF status = "error" THEN 1
      ELSE IF coverage = "incomplete" THEN 2
      ELSE IF status \in Success THEN 0
      ELSE 1

Legal(win, rows) ==
  /\ Covered(rows) = Ops /\ Cardinality(rows) = Cardinality(Ops)
  /\ \A row \in rows : row.start \in win[row.op]
  /\ \A row, other \in rows : row.start = other.start => row = other

(* verify_schedule_result *)
Verified(win, res) == res.status \in Success /\ Legal(win, res.rows)

-----------------------------------------------------------------------------
(* The issued plan up to the freeze, one start for every operation in it.  *)
Locked(r) == {o \in DOMAIN r.issued : r.issued[o] < r.freeze}

(* A bug: the operations that start at the end of the freeze are pinned in *)
(* place of those that start before it.                                    *)
PinnedAtTheEnd(win, r) ==
  [o \in Ops |-> IF o \in DOMAIN r.issued /\ r.issued[o] = r.freeze THEN {r.issued[o]} ELSE win[o]]

(* pin_issued_plan: whatever the window was, it is the issued slot now.    *)
Pinned(win, r) == [o \in Ops |-> IF o \in Locked(r) THEN {r.issued[o]} ELSE win[o]]

NoCall == [kind |-> "none"]

Init ==
  /\ env \in Environments /\ platform \in Platforms
  /\ windows = Windows
  /\ memory = 0 /\ peak = 0
  /\ stage = "idle"
  /\ request = NoCall /\ config = None /\ limits = None /\ forwarded = None
  /\ watcher = "off" /\ breached = FALSE
  /\ result = None /\ answer = None
  /\ calls = 0

(* route_solver_config on its own.  Bound: asked first, and nothing else.   *)
Route ==
  /\ stage = "idle" /\ calls = 0 /\ memory = 0
  /\ calls' = MaxCalls
  /\ \E q \in Questions :
       /\ request' = [kind |-> "route", config |-> None, profile |-> q.profile, ctx |-> q.ctx]
       /\ config' = RouteOf(q.profile, q.ctx)
  /\ UNCHANGED <<process, windows, stage, limits, forwarded, watcher, breached, result, answer>>

(* What the process holds comes and goes.  Bound: between calls it stays.  *)
Allocate ==
  /\ stage # "idle"
  /\ memory' \in 0 .. MaxMemory \ {memory}
  /\ peak' = Max({peak, memory'})
  /\ UNCHANGED <<env, platform, windows, stage, request, config, limits, forwarded,
                 watcher, breached, result, answer, calls>>

Begin(r, chosen) ==
  /\ stage = "idle" /\ calls < MaxCalls
  /\ calls' = calls + 1
  /\ request' = r
  /\ config' = chosen
  /\ limits' = LimitsFor(r)
  /\ forwarded' = Forwarded(r, LimitsFor(r))
  /\ stage' = "guarded"
  /\ watcher' = "off" /\ breached' = FALSE
  /\ result' = None /\ answer' = None
  /\ UNCHANGED process

(* solve_schedule, to the first check of the guard. *)
SolveSchedule ==
  \E r \in Requests :
    /\ r.kind = "solve"
    /\ Begin(r, IF r.config = None THEN RouteOf(r.profile, r.ctx) ELSE r.config)
    /\ windows' = Pinned(windows, r)

(* repair_schedule: no operation disrupted, or an identity argument among  *)
(* the solver's, is a ValueError.                                          *)
RepairSchedule ==
  \E r \in Requests :
    /\ r.kind = "repair"
    /\ r.disrupted # {} /\ ~ r.overrides
    /\ Begin(r, "INCREMENTAL_REPAIR")
    /\ UNCHANGED windows

RefuseRepair ==
  \E r \in Requests :
    /\ r.kind = "repair" /\ stage = "idle" /\ calls < MaxCalls
    /\ r.disrupted = {} \/ r.overrides
    /\ calls' = calls + 1
    /\ request' = r /\ config' = None /\ limits' = None /\ forwarded' = None
    /\ answer' = [kind |-> "ValueError"]
    /\ UNCHANGED <<process, windows, stage, watcher, breached, result>>

(* _run_guarded_solve answers for the guard. *)
MemoryError == [status |-> "error", rows |-> {}]

(* The check before the solve; the solver starts, under watch when memory  *)
(* is limited.                                                             *)
CheckBefore ==
  /\ stage = "guarded"
  /\ IF OverLimit
       THEN stage' = "settled" /\ result' = Stamped(MemoryError) /\ UNCHANGED watcher
       ELSE /\ stage' = "running"
            /\ watcher' = (IF MemoryIsLimited THEN "waiting" ELSE "off")
            /\ UNCHANGED result
  /\ UNCHANGED <<process, windows, call, breached, answer, calls>>

(* The watcher wakes while the solver runs, and samples. *)
WatcherWakes ==
  /\ stage = "running" /\ watcher = "waiting"
  /\ watcher' = "sampling"
  /\ UNCHANGED <<process, windows, stage, call, breached, result, answer, calls>>

WatcherSamples ==
  /\ watcher = "sampling"
  /\ breached' = (breached \/ OverLimit)
  /\ watcher' = (IF OverLimit THEN "over" ELSE "waiting")
  /\ UNCHANGED <<process, windows, stage, call, result, answer, calls>>

(* The solver returns, and stops the watcher. *)
SolverReturns ==
  /\ stage = "running"
  /\ result' \in Results
  /\ stage' = "stopping"
  /\ UNCHANGED <<process, windows, call, watcher, breached, answer, calls>>

SolverRaises ==
  /\ stage = "running"
  /\ stage' = "idle" /\ watcher' = "off"
  /\ answer' = [kind |-> "raised"]
  /\ UNCHANGED <<process, windows, call, breached, result, calls>>

(* A bug: only what the watcher saw counts. *)
JudgeWithoutLastSample ==
  /\ stage = "stopping"
  /\ stage' = "settled" /\ watcher' = "off"
  /\ result' = Stamped(IF breached THEN MemoryError ELSE result)
  /\ UNCHANGED <<process, windows, call, breached, answer, calls>>

(* After the join, or its timeout: what the watcher saw, and a last sample.*)
Judge ==
  /\ stage = "stopping"
  /\ stage' = "settled" /\ watcher' = "off"
  /\ result' = Stamped(IF breached \/ OverLimit THEN MemoryError ELSE result)
  /\ UNCHANGED <<process, windows, call, breached, answer, calls>>

(* Verification against the problem, as it is pinned, and the answer. *)
Deliver ==
  /\ stage = "settled"
  /\ stage' = "idle"
  /\ answer' = IF request.verify /\ result.status \in Success /\ ~ Verified(windows, result)
                 THEN [kind |-> "PortfolioValidationError"]
                 ELSE [kind |-> "result", status |-> result.status, rows |-> result.rows,
                       verified |-> request.verify /\ Verified(windows, result),
                       limit |-> Published(request, limits),
                       exit |-> ExitCode(result.status, result.rows)]
  /\ UNCHANGED <<process, windows, call, watcher, breached, result, calls>>

Next ==
  \/ Route
  \/ Allocate
  \/ SolveSchedule \/ RepairSchedule \/ RefuseRepair
  \/ CheckBefore
  \/ WatcherWakes \/ WatcherSamples
  \/ SolverReturns \/ SolverRaises
  \/ Judge \/ Deliver

Spec == Init /\ [][Next]_vars

-----------------------------------------------------------------------------
Answered == answer # None /\ answer.kind = "result"

(* Whatever a solver says and whichever calls came before, a successful    *)
(* answer has placed something, an optimal one everything; a verified one  *)
(* is legal and keeps the issued plan up to its freeze; and what exits     *)
(* with success placed something by a solver that succeeded.               *)
AnswersAreHonest ==
  Answered =>
    /\ answer.status \in Success => answer.rows # {}
    /\ answer.status = "optimal" => Covered(answer.rows) = Ops
    /\ answer.status \in Success /\ request.verify => answer.verified
    /\ answer.verified =>
         /\ Legal(windows, answer.rows)
         /\ request.kind = "solve" =>
              \A o \in Locked(request) : [op |-> o, start |-> request.issued[o]] \in answer.rows
    /\ answer.exit = 0 => answer.status \in Success

(* A solver's answer is taken only if no sample of the watcher was above   *)
(* the limit, if where the peak can be read the process never was, at no   *)
(* moment of any call, and if where nothing can be read the guard was asked*)
(* to fail open.                                                           *)
MemoryIsGuarded ==
  [][stage = "stopping" /\ stage' = "settled" /\ MemoryIsLimited /\ result' # MemoryError =>
       /\ ~ breached
       /\ platform = "posix" => peak <= limits.memory
       /\ platform = "none" => limits.failOpen]_vars

(* What limits a solve: its own box and the positive limits from outside,  *)
(* ten minutes where guards are forced and nothing else does.              *)
Granted(r) ==
  LET set == {2 * t : t \in Walls(r)} \cup ({r.box} \ {None})
  IN  IF set = {} /\ env.forced THEN {1200} ELSE set

(* The solver gets the strictest limit there is, to the second: never more *)
(* than its own box, the environment or the preferred latency allow, never *)
(* less because of a zero or a negative number among them, which is no     *)
(* limit; and it is published the limit it has.                            *)
TimeLimitIsStrictest ==
  stage = "running" =>
    /\ forwarded # None <=> Granted(request) # {}
    /\ forwarded # None =>
         /\ \A t \in Granted(request) : forwarded <= t
         /\ \E t \in Granted(request) : t < forwarded + 2
         /\ forwarded <= Published(request, limits) /\ Published(request, limits) < forwarded + 2

ExactConfigs == {"CPSAT-10", "CPSAT-30", "LBBD-10", "LBBD-10-HD", "LBBD-20-HD"}
AlnsConfigs == {"ALNS-300", "ALNS-500", "ALNS-1000"}

(* router.py:87 "Non-empty calendar -> CALENDAR_AWARE only", :116 "ALNS is *)
(* not a coverage route on hard windows": a route is aware of the problem's*)
(* calendar, exact where that is required and there is none, constructive  *)
(* within a second, and no ALNS where operations have windows.             *)
RoutesFitTheProblem ==
  request.kind \in {"route", "solve"} /\ request.config = None =>
    LET p == request.profile  ctx == request.ctx
    IN  /\ p.calendar => config \in CalendarAware
        /\ ctx.exact /\ ~ p.calendar => config \in ExactConfigs
        /\ Hurried(ctx) /\ ~ ctx.exact => config \in CalendarAware
        /\ p.windows => config \notin AlnsConfigs
=============================================================================
