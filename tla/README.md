# SynAPS in TLA+

SynAPS plans jobs on machines: a TypeScript control plane takes requests over
HTTP, starts one Python process per request, and that process runs one or more
of a family of scheduling solvers (`synaps/solvers`) whose plans pass a
feasibility checker, the *notary*, before they are claimed. These modules model
the parts of that program whose correctness depends on the order of steps:
requests and callbacks in the event loop, a child process and its timers,
futures in a process pool, operations inserted one after another into machine
timelines, waves of repairs, windows that roll over a horizon, a search that
wanders between schedules, a queue with retries and ejections, a thread that
watches memory while a solver runs; and the constraint model that is handed to
CP-SAT, as the set of schedules it admits.

Paths below are relative to the repository. `PROJECT.json` names, for every
definition that models code, the file, lines and symbol it stands for.

## 1. Inventory

| Component | State it keeps | Operations | Hard behaviour | What makes it correct |
|---|---|---|---|---|
| Asynchronous jobs, `control-plane/src/solve-jobs.ts` | map of records, in-flight counter | POST enqueue, GET poll, eviction, `runJob` | `setImmediate` and `await` between check and use; expiry of records that are running; two capacity limits | counter = active jobs, active records never evicted, answers only move forward, every job settles |
| Synchronous routes, `control-plane/src/app.ts` | concurrency gate; each handler's chain and attempts | `/solve` with fallback chain, `/repair` | retry releases and takes the slot; errors at every step; admission differs per attempt | gate exact, no solver twice, answer fits the last attempt |
| Python bridge, `control-plane/src/python-executor.ts` | child, timers, flags, temporary directory | spawn, stdin, streams, timeout, kill, read, clean up | timer against exit against close; a child that ignores SIGTERM; workers of the child that hold its pipes; failing `rm` | settles once, and does settle once its pipes are released; no process or directory left; no response from a killed child |
| Dispatch kernel, `synaps/solvers/_dispatch_support.py` | `MachineIndex`: timeline per machine, cached pool occupancy | three gap scans, slot search, insertion, recomputed setups | an insertion changes the setup of what follows; the cache keeps the old one | machines separated with setups, pools, shifts, windows |
| Greedy dispatch, `greedy_dispatch.py` | partial schedule | select, place, stop | any order of operations, precedence edges of four types, time limit | partial schedules always legal where the code promises it; feasible is complete |
| LBBD, `lbbd_solver.py`, `_lbbd_core.py` | no-goods, bounds, incumbent, iteration | master, subproblems, merge, cut, stop | time limits at any step, unproven failures, refused merges | incumbents legal, bound sound, infeasible true, ends |
| Process pool, `_process_pool.py` | executor, futures, broken flag | submit, collect, settle, in-process fallback | completion out of order, early end of a round, death of a worker | a returned round leaves no work behind |
| Notary, `feasibility_checker.py` | none | `check` over a scope | derived and stamped setups, scopes that skip machines | clean verdict ⇒ legal plan |
| Repair, `incremental_repair.py`, `delta_notary.py`, `planning_policy.py` | issued plan (shared objects), neighbourhood, index | neighbourhood, reinsertion, micro model, claim, adoption | waves of repairs over shared objects; partial notary; freeze window | only what may move moves; claims true; delta notary as strong as the full one |
| RHC, `synaps/solvers/rhc/` | frontiers, commitment, seals, tail, window | window loop, inner solve, reanchoring, greedy fallback, residual fill, stabilizer, claim | budgets that run out anywhere; rewinding of committed work; any inner answer | commitment closed and ordered, seals kept, claim true, ends |
| ALNS, `alns_solver.py` | seed, current and best solution with their costs, cached parts of the objective | seven attempts at a seed, destroy, repair, accept, validate, recover | cached against full evaluation, recovery after validation, frozen work the checker does not see | a feasible answer legal, costs true, never worse than the seed |
| LBBD-HD, `lbbd_hd_solver.py` | as LBBD with cuts of its own | partition, cuts, sound master | cuts that are not sound | bound sound |
| List schedule, `synaps/solvers/rhc/_cover.py` | queue, machine tails and gaps, homes of families, leftovers | append, insert, retry in two waves, eject | retries on rebuilt tails, reservations, half a swap | placed work apart and in its windows, nothing lost, nothing given up that fits |
| CP-SAT and Pareto, `cpsat_solver.py`, `pareto_slice_solver.py` | slices solved so far | encode, cut symmetry, solve, extract, slice | several goals in one integer, cuts, frozen work outside the circuits | answers legal, optimal and infeasible true, bound sound |
| Portfolio and guards, `portfolio.py`, `guards.py`, `planning_policy.py` | watcher thread and its event, resident-size limits, the caller's problem | route, pin, solve, verify, publish status | breach between two samples, three limits on one solve, windows pinned in place | status, exit and limit honest, memory guarded |
| Router, `router.py`, and registry | none | a ladder of decisions | order of the rungs | calendar and exact requests never become a heuristic that ignores them |
| Beam, rule sweep, lanes | several dispatch states; cloned machines | expand, prune, unroll | lanes of one machine merged back | plan legal on the unrolled machine |
| Replay manifest, CLI, contracts | files under a lock | append, parse, serialize | two processes, one file | no lost entry |
| Native accelerators, cable domain, benchmarks, rendering | none that outlives a call | numeric kernels, generators, formatting | – | equal to the Python reference |

How they interact: the routes and the job store call the bridge and wait for
its promise (`Executor` is what they may assume); the bridge's child runs the
portfolio, which runs one solver; every constructive solver uses the dispatch
kernel; LBBD uses the pool; RHC uses an inner solver (ALNS or CP-SAT), the
kernel, the list schedule and the notary; ALNS is seeded by the list schedule
and repairs with the kernel or CP-SAT; repair uses the kernel, CP-SAT and the
notary. All hazards, each with the line where it bites, are under "hazards" in
`PROJECT.json`.

## 2. Modules

```
SolveJobs ────┐                 Executor (abstract)
SolveGateway ─┤                    ▲ refines
              ├─────────────── PythonBridge
              └── ControlPlane_proofs
Router ── Portfolio ── Portfolio_proofs
SubproblemPool ── LbbdLoop ── LbbdLoop_proofs

DispatchTimeline ── Precedence ──┬── GreedyDispatch
                                 └── FeasibilityChecker ──┬── RecedingHorizon
                                                          ├── ListCover
        Objective ── DestroyOperators ── AlnsRun ─────────┤
            └─────────────────────────── CpSatSolver ─────┤
                                                          └── CpSatModel ── IncrementalRepair

CpSatModel_proofs ──┬── Dispatchers_proofs (GreedyDispatch, ListCover)
                    ├── IncrementalRepair_proofs
                    ├── RecedingHorizon_proofs
                    └── Optimizers_proofs (CpSatSolver, AlnsRun)
```

Every module that is run has an `MC` module with its instance (except
`PythonBridge`, which needs none).

**SolveJobs.** An action is the code between two suspension points: a request
handler (eviction and the answer included), the `setImmediate` callback up to
its `await`, the continuation with its `finally`. `scheduled` and `awaiting`
are the callbacks the event loop owes. `polled` and `answer` record what
clients were told; they are history and guard nothing.

**SolveGateway.** A handler suspends only on the executor's promise, so an
action is a whole turn: from the request to its first execution or answer, or
from one settled execution to the next. Release in `finally` and acquire of the
next attempt are therefore one step, and that is a property checked
(`RetryKeepsItsSlot`), with a mutant in which they are the other way round.
Files as problem references, authentication and rate limits are left out.

**Executor, PythonBridge.** `Executor` is one promise that settles once (`Spec`) and
does settle (`Settles`). `PythonBridge` is one call of `executePythonContract`: one action
per segment between awaits (`Spawn`, `Close`, `Stat`, `ReadFile`, `Rm`), per
timer, per stream event, and the child as the environment: it may ignore
SIGTERM, hang, flood its output, end at any point, or leave any file. It may
also start pool workers (`_process_pool.py:60`, which LBBD does by default).
They inherit its stdout and stderr and outlive it when it is killed
(`pipesHeld`), and the `close` event the call waits for (`python-executor.ts:267`)
comes only when they are gone. `ImplementsExecutor` is the refinement, under the
mapping "the promise is pending until `rm` has been awaited": its safety part
holds in any case, its liveness part if the pipes are released in the end
(`PipesAreReleased`). Without that premise TLC finds the call that waits forever.

**DispatchTimeline** is the kernel as operators over an integer-minute grid: a
timeline is a function from operations to assignments, the gap scans choose
pairs of neighbours, `EarliestSlots` is `find_earliest_feasible_slot` with its
setup, shift, window and pool conditions, and the resource-window cache is kept
apart from the true occupancy because the code updates it incrementally.
**GreedyDispatch** is the generation loop. The ATCS index ranks ready
operations by data the model leaves out, so any ready operation may be taken.

**SubproblemPool, LbbdLoop.** The pool's driver (submission, collection,
settling, fallback) interleaves with workers that take, finish and die. The
loop composes it: an assignment of operations to machines is an abstract value
with a cost in the master, clusters, and the cost of its best legal schedule.
HiGHS, CP-SAT and the post-assembly answer anything that is consistent with
those. `proven` and `refused` are history: which masters ended with a dual
bound, and which assignments had a merged schedule refused.

**FeasibilityChecker** translates every family of the notary, with the scope
the delta notary gives it, and states `Legal` independently of the checker's
walks. **IncrementalRepair** runs waves of repairs over an issued plan. The
assignments a repair leaves in place are the caller's own objects, so
recomputing setups also writes in the issued plan; the model keeps that alias.

**RecedingHorizon** has one action per turn of the window loop (skip, open),
per way a window ends (inner result accepted, greedy fallback), and for the
residual fill and the finalization with its stabilizer. Sort keys, earliest
starts and offsets are computed once by the code and are constants here. The
clock moves at any point and only decides which budget has passed. What the
inner solver answers is any member of `Incumbents`, illegal ones included: that
is weaker than what `AlnsRun` shows of it, so nothing the window loop keeps
depends on the inner solver being right.

**ListCover** is the list schedule that covers instances too large for windows:
a queue that appends to machine tails or inserts into idle gaps, two waves of
retries with the reservations of families, and the ejection of a placed
operation. One action places or gives up one operation, or ends a wave; an
ejection is one action, because one call takes the victim out, places both or
puts it back. Tails, gaps and resource windows are functions of what is placed, and
rebuilt where the code rebuilds them.

**Objective** is the objective vector and its two rankings. **CpSatModel** is
the constraint model as a predicate: an assignment of CP-SAT's variables is a
schedule, and `Admits` says which ones satisfy the circuits, setup intervals,
cumulatives and the constraints between free and frozen work. It is written from
the encoding and compared with the notary's `Legal`, which is written from the
checker. **CpSatSolver** adds the objective integer of every mode with its
overflow guard, the symmetry cut, the extracted answer with its bound, and the
Pareto slices. CP-SAT returns any solution when it stops early, a cheapest one
when it claims OPTIMAL, and a bound that no solution undercuts.

**DestroyOperators** gives each of the seven destroy operators as the family of
sets it may pick, and the closure and cap over them. **AlnsRun** is one search:
one action per attempt at a seed, per destruction, per fate of a repaired
candidate (new best, better, accepted, refused, not sane), and the final
validation. `Seen` is the problem as the window knows it, without the frozen
operations; what frozen work takes of the pools is known to nobody, as in the
code. Weights of operators, temperature and clock only choose among these steps
and are free.

**Router** is the decision ladder as one operator over profiles and contexts.
**Portfolio** is a caller that submits the same problem again and again, with
the watcher as a process of its own between the check before a solve and the
last sample after it; `pin_issued_plan` writes in the caller's problem, so
windows pinned by one call are there in the next. Solvers may answer anything.

Definitions under "A bug" comments are the altered forms that the mutants
substitute; no module uses them.

## 3. Runs

| Run | Bounds | Distinct states | What it shows |
|---|---|---|---|
| `solve_jobs` | 3 ids, 2 tenants, store of 2, 2 slots, ttl 1, clock to 2 | 426 016 | counter exact and refusals justified, nothing active evicted, polls monotone, jobs settle |
| `solve_gateway` | 2 requests, one slot, a fallback chain that names a heavy solver twice, sizes on both sides of the two caps | 9 992 | exact gate, own slot for a retry, answers that fit the attempts |
| `python_bridge` | one call with a timeout | 5 130 | no child, holder of its pipes or directory left, trustworthy response, refinement of `Executor` |
| `greedy_dispatch` | 7 operations, 2 machines, one pool, 2 shifts, 2 edge types, both size classes | 3 139 | separation, windows and lags in every order; pools and shifts while nothing fills a gap |
| `lbbd_loop` | 3 assignments, 2 workers, 4 iterations | 1 219 736 | true status, sound bounds and gap stop, no overlap of rounds, end |
| `incremental_repair` | 7 operations, 2 waves, 7 kinds of request, all legal issued plans of a slot grid | 57 452 | claims, reach of the radius, who moves |
| `receding_horizon` | 5 operations in 2 chains, windows of 6 over 16 minutes, 4 option sets, 3 incumbents | 4 371 | ordered commitment, true claim, seals, end |
| `list_cover` | 6 operations, 2 machines, one with two shifts, one pool, one night of three, both ready rules | 1 270 | sound placements at every step, retries that give up only on what is stuck, ejections that lose nothing |
| `alns_run` | 4 operations, 2 machines, one pool, 5 windows with and without frozen work | 14 083 | true status, true costs, never worse than the seed, closed destroy sets |
| `cpsat_solver` | 4 free and one frozen operation, 2 machines, horizon 6, 6 settings, 2 slices | 4 092 | legal answers, true optimum and bound, best slice |
| `portfolio` | 2 operations, 2 calls, 5 environments, 3 platforms, latencies below, at and above zero, memory to 2, every question of a grid to the router | 418 695 | honest answers, strictest limit, guarded memory, fitting routes |

Why the bounds are enough to be interesting: a store of two records for three
jobs makes it fill, refuse, expire and refill; one slot and two requests make
every retry compete; three LBBD assignments are one best, one second best and
one that cannot be scheduled, so no-goods, refused merges and the gap stop meet
in one run; the dispatch instance has a machine whose setup is longer one way
than the other, a gap before an operation whose setup changes, and an operation
that competes for the tool on a machine with two shifts; the repair instance
needs a cleaning that a third operation makes unnecessary, so removing one
operation lengthens another's setup; two RHC windows overlap a chain of three,
so a tail, a rewind and a seal all occur. In the night of `list_cover`
operations fit only by insertion, a second wave, a stolen home or an ejection,
and all four occur. The cases of `alns_run` are a warm start that lacks an
operation, one that opens an edge too early, a native seed that violates
precedence, an empty and a poor constructive seed, and two windows beside frozen
work. The settings of `cpsat_solver` have weights large enough to fill the
multiplier and to overflow it, a cap, both secondary objectives and the cut; its
frozen work has a case that fits no horizon. Two calls of `portfolio` are enough
for a pinned window, a peak or a late watcher of the first to meet the second.
Every action and disjunct of every next-state relation fires.

One run looks for a disagreement and finds it (`findings` in `PROJECT.json`):
`cpsat_symmetry`. The symmetry cut is documented to order genuinely
interchangeable machines, but calendars are not part of what makes them
interchangeable: with two presses that differ in their shifts the answer is
INFEASIBLE although a legal schedule exists. `cpsat_solver` gives both presses
the same shifts, and there the cut keeps an optimum.

### What the properties are stated around

The code departs from its documents in other places too. No run is spent on
them; the passing properties say how far their consequences reach, and the
notes under `hazards` give the lines.

- *Gateway*: a timeout followed by a chain whose last solver is too expensive
  for the problem is answered 422 (`app.ts:1097`), where the runtime contract
  gives 504 to a timeout. `AnswerFitsAttempts` leaves that case out.
- *Kernel*: filling a gap can push the next operation's setup out of its shift
  and outgrow its cached pool window, where the calendar is called a hard
  constraint; `AppendKeepsPoolsAndShifts` is about appending.
- *LBBD*: an assignment whose merged schedule was refused is excluded like one
  of known cost (`lbbd_solver.py:326`); `StatusIsTrue` excepts it from what
  infeasible means.
- *Repair*: recomputed setups are written in the caller's own assignments before
  these become the baseline of the delta notary (`incremental_repair.py:346`),
  so it can miss a grown setup that leaves its shift, and a refused repair
  leaves the caller's plan rewritten. `ClaimMeansLegal` excepts exactly the
  former.
- *List schedule*: an operation with a window of its own is not floored by its
  order's release (`_cover.py:170`), where a regression test asks for it; an
  ejected operation can be placed again behind its successor (`_cover.py:860`);
  a start delayed for a pool can leave its shift, and the delay gives up although
  a later start fits (`_cover.py:378`). `CoverIsSound` speaks of chains until an
  ejection, of changeovers after one only where they add up, and of shifts where no
  resource is held; the notary, and with it
  `ClaimIsTrue`, refuses the rest. An insertion may shorten the changeover of the
  operation behind it, which the index of a wave goes on counting
  (`_cover.py:665`): a leftover that holds a resource can be refused although it
  fits, and `LeftoversAreStuck` speaks of those as the index sees the pools.
- *ALNS*: frozen work's use of pools is invisible inside a window, the greedy
  repair lane never succeeds beside frozen work, and a native seed is only
  checked for completeness and overlap. `StatusIsTrue` is about the window next to
  its frozen work: every changeover to and from it counts in full, pools and
  shifts count as the window sees them. Of the window's plan alone a pool can be
  over-asked: where frozen work stands between two free operations, the changeover
  straight from one to the other, which never runs, would hold the pool.
- *CP-SAT*: the constraints between frozen and free work hold for every pair,
  not only neighbours, so a legal schedule can be refused: optimality is stated
  without frozen work. Makespan and tardiness variables of a FEASIBLE answer may
  exceed the schedule's own values. The Pareto solver never compares its
  selection with its baseline, so `SliceIsParetoBest` needs every slice proved.
- *Portfolio*: on POSIX the resident size read is the peak of the process, so
  after one breach every later guarded call is refused; the exit code counts
  rows and the status distinct operations; a box under a second becomes 0
  (`guards.py:222`); windows pinned for one call stay pinned.

### Fairness

- *SolveJobs*: the event loop runs every callback; a bridge promise settles,
  which is `Executor`'s liveness. Nothing is assumed of clients or the clock.
- *SolveGateway*: the bridge settles every execution. Nothing else.
- *PythonBridge*: the call's own continuations and timers run, a fatal signal
  is delivered, and the close event comes once the child has exited and nobody
  holds its pipes. Nothing is assumed of the child, so `ImplementsExecutor`
  rests on the timeout and the escalation; it needs `TimeoutEnabled`. Nothing is
  assumed of the child's workers either, so the property carries the condition
  that they let go of the pipes.
- What `SolveJobs` and `SolveGateway` assume of a bridge promise is therefore
  shown only under a timeout and that condition. Nothing in the code enforces
  it: the escalation kills the child alone. A call whose workers stay keeps its
  job running and its slot taken, and `AcceptedJobSettles` and
  `EveryRequestAnswered` say nothing of such a run.
- *LbbdLoop*: the solver's thread goes on and workers finish what they take,
  because CP-SAT has a time limit per cluster. Fairness is weak: it does not
  force the deadline or a worker's death.
- *RecedingHorizon*: the solver's thread goes on; the clock is free, so the run
  ends whether or not a budget runs out.
- The other modules state safety only. A greedy dispatch, a repair wave, a list
  schedule, a search and a slice loop end by a counter or a shrinking set of
  operations, and how long a solver called by `Portfolio` takes is its own.

## 4. Proofs

Proved with TLAPS for all values of the constants that satisfy the named
assumptions.

**ControlPlane_proofs** holds the proofs of the three machines of the control
plane. *SolveJobs*, from `SolveJobsAssumption`. The inductive invariant
`Accounting` adds to the checked invariants what makes them inductive: scheduled
and awaiting jobs are disjoint, the map is finite and holds only issued ids (so
a fresh id adds one record and one active job, and the counter and the
cardinality move together), and no record was created in the future.
From it: `TypeCorrect`, `ActiveJobsAreStored`, `SlotsAreExact`, `StoreBounded`.
`RefusalsAreJustified` follows from it because a refusal is recorded with the map
as eviction left it, and nothing it mentions changes before the next answer; with
the exact counter it gives `CapacityExact`. `PollsOnlyMoveForward` is an action
property and needs one more invariant, `PollsAreBehind`: what a client was told
last is still true of its record, or older.

**LbbdLoop_proofs**, from the assumptions of the pool and the loop. `PoolInv`
says what the pool may hold at each place of the driver; `LoopInv` is a
conjunction of `Places` (which variables mean something in which phase), `Cuts`
(the incumbent is legal, and while there is none every excluded assignment was
refused or has no legal schedule), `Bounds` (each proven bound is below every
assignment it speaks for) and `Ends` (what each reason to stop implies). `Cuts` is needed because
the soundness of "infeasible" is a statement about excluded assignments, and
`Bounds` because the gap is taken to masters that already hold no-goods. From
them: `NoOverlap`, `OnlyLegalIncumbents` and `InfeasibleIsTrue`, which make
`StatusTrue`, and `BoundIsSound` and `GapStopIsJustified`, which make
`BoundsSound`. That HiGHS and CP-SAT are right and that the master's cost
is a relaxation are assumptions (`LbbdLoopAssumption`, `CanAnswer`).

*PythonBridge*, from `PythonBridgeAssumption`, that is with the timeout
on or off. `BridgeInv` ties the place of the call to what the child and the
timers can still do there: between the close event and the read of the file the
child has ended well and no timer is armed, so nothing can mark the run as late
after its file has been trusted; and an armed escalation means that a child
still alive has had its SIGTERM. From it the types (`BridgeTypes`),
`NoChildOutlivesItsCall` and `DirectoriesAreRemoved`, together
`CallsLeaveNothing`, then `ResponsesAreTrustworthy`, `KillComesLast`, and
`SettlesAtMostOnce`: every step of the bridge is a step of `Executor` or leaves
its promise alone.

**CpSatModel_proofs (first part), Dispatchers_proofs (first part)**, from
`DispatchTimelineAssumption`, `PrecedenceAssumption` and
`GreedyDispatchAssumption` (finitely many operations and edges, whole-minute
data, positive durations). The kernel's lemmas carry the argument. A gap *splits* a machine when every operation on it
starts no later than the gap's left neighbour or no earlier than its right one;
the gaps of the three scans split the machine (`ScannedGapSplits`), in the
window scan only because a slot must also end by the latest finish
(`SliceSplits`: nothing behind the slice can start before that). A slot the
evaluation returns leaves the setups on both sides (`SlotInGapFits`), so
inserting it into a separated timeline keeps it separated
(`InsertionKeepsSeparated`, where the neighbours of the new operation change
and no other pair becomes adjacent). `EarliestSlotIsSound` puts these together.
The loop's invariant `IInv` is the type invariant, separation, the bounds, and
that the cached windows end at times: nothing about their beginnings, which do
go stale, so the theorems hold however stale the cache is. From it
`GreedyTypes`, `MachinesNeverOverlap`, `LagsAndWindowsHold`. Separation is
proved of the whole-minute grid. Pools and shifts need the beginnings as well and
hold only while nothing fills a gap: `AppendInv` adds to `IInv` that every
machine has only been appended to, which keeps the cached windows exactly those
of the timeline. An append puts the operation behind all others of its machine
(`AppendedSlot`), so no setup that stands there changes (`AppendKeepsSetups`),
the slot was checked against the true occupancy (`SearchedIsTrue`), and adding
the operation asks of each pool, in each minute, what was checked
(`AddKeepsPools`). From it `AppendsAreTrue`.

*SolveGateway*, from `SolveGatewayAssumption`: any number of requests
and slots, any fallback chain. `GatewayInv` is `GateCounts` (the counter is the
number of handlers that execute) and `HandlersFit` (the attempts of a handler are
the entries of its chain up to where it stands that admission accepts, in their
order, and all but the last failed in a way that may be retried). The chain is a
fold over the configured sequence: that it is a chain at all, begins with the
solver asked for and names none twice, is `AttemptChainIsChain`. From them
`GateExact`, `RetriesKeepTheirSlot` and `AnswersFitAttempts`.

**Dispatchers_proofs (second part)**, the list schedule, from
`ListCoverAssumption`. `CoverInv` says that every placed operation sits well (an
eligible machine, the deadline, the floor of its window or of the data), that
what is queued waits for nothing, and what holds in three stretches of a run:
until a gap is filled, the stamped changeovers are the ones the sequence needs and
the index is the true occupancy (`AppendsOnly`); until an ejection, operations
are apart and chains in order (`InOrder`); and in a pass of the last wave that has
placed nothing, what it has passed over still finds no place (`StuckSoFar`, which
the index keeps true because it only grows). All through, an operation ends
before the next one on its machine starts. A place is found at a tail, where
the delay from release to release is a recursion that climbs to the deadline
(`ClimbStops`, `DelayFacts`), or in a gap, by the kernel's lemmas; wherever it is
found it fits (`PlacesAreFound`, `PlaceGains`), and a tail keeps pools and shifts
(`TailKeepsPoolsAndShifts`). An ejection takes an operation out from
between two others, and nothing in the code looks at these again
(`_cover.py:879`). They still do not overlap, and what comes in does not overlap
them: a slot in a gap of a machine that only keeps its operations apart keeps
them apart, whatever their changeovers (`InsertionKeepsApart`). Their own
changeover may no longer fit. On four operations, where the changeover that
appears when a tool's holder is ejected takes three minutes and the place it left
one, TLC finds two operations too close, and nothing but the notary would notice.
`CoverIsSound` therefore states changeovers after an ejection only of setups where
no changeover is longer than one by way of a third operation
(`ChangeoversAddUp`, `RemovalKeepsSeparated`); matrices without that property are
legal (`validation.py:103`), and for them it states the rest. `CoverStaysSound`
proves it for every problem; `RetriesExhaust` and the action property
`NoPlaceIsLost` come from the same invariant.

**CpSatModel_proofs (second part)**, from the assumptions of the notary and the
constraint model. `NotaryIsSound`: a check over everything that finds nothing
means `Legal`, which is stated of pairs of operations and of minutes where the
checker walks neighbours and samples the starts of intervals
(`PoolsAtTheirFullest`: a pool is fullest where something starts). `ModelIsExact`:
when nothing is frozen and each predecessor is among the operations, an admitted
schedule is legal once its setups are stamped (`AdmittedMeansLegal`,
`LegalIgnoresStamps`), and every legal plan is among the schedules tried
(`SchedulesMissNothing`) and admitted; so "infeasible" and "optimal" speak of
legal plans. `FrozenWorkStaysClear`: around frozen work, which the circuits do
not know, every changeover still has its time. `SchedulesPlaceAll`: a schedule
places all that was free.

**IncrementalRepair_proofs**, from those and the repair's (an issued plan places
operations on eligible machines for exactly their durations).
`DeltaScopeSuffices`: over a plan that verified, the delta notary's scope leaves
only shifts unseen, because an operation it does not look at has its stamp and
its predecessor unchanged (`UnwalkedSequence`, `DeltaOccupancy`). Then what moves:
each further layer of the radius adds an operation or the reach is closed
(`EveryLayerAdds`), so that with as many layers as operations it is closed under
successors (`ReachIsClosed`, `RecommendedIsClosed`). `IInv` is the invariant of a
wave: what is outside the neighbourhood stays where the plan had it (`InPlace`),
and what a repair put back stands behind its predecessor (`InsertedInOrder`). It
is needed because the claim is made at the end of a wave about the whole plan.
From them `ClaimsAreLegal`, `ChainsMoveWhole` and the action property
`OnlyDisruptedMoves`.

**Optimizers_proofs (first part)**, from the above and `CpSatSolverAssumption` (frozen work is
placed for exactly its durations and holds the predecessors the problem lacks; the
grid of the slices is not empty and does not go below the baseline). `SolveInv` says that a published
answer is one the model allows for its problem and setting. With `ModelIsExact`
and `FrozenWorkStaysClear` the schedule in it is legal (`AnswersAreLegal`);
frozen work is an input, so changeovers within it are clear only if they were.
`LegalIsSolution` turns claims about solutions into claims about legal schedules:
the secondary terms together stay below the multiplier of the first
(`SecondaryIsBounded`), so the least value of the integer the model minimizes is
the least in the documented hierarchy (`MultiplierSeparates`), and the bound
divided by the multiplier is below every makespan (`QuotientIsBounded`); together
`OptimaAreProved`. It leaves the symmetry cut out, for the calendars may set
machines apart that the cut takes for the same; the violated run shows what then
happens. `SlicesInv` carries the two stages: every slice is an outcome under its
cap, and no solved slice beats the chosen one. The chosen slice beats the last,
and the last every legal schedule under the widest cap (`SlicesAreBest`). Its
hypothesis is the code's own degradation: a primary objective too large to be
scaled is dropped, and the claim with it.

**Optimizers_proofs (second part)**, from `AlnsRunAssumption`: what is frozen and
what other solvers supply as seeds are plans with whole durations, sizes and
weights are natural numbers, and no state is the blank one of frozen work. `RunInv` says that `current`, `best` and the seed are
plans of the window's free operations, that the cache in `value` is the cache of
`current` and the best value that of `best`, that `best` costs no more than the
seed, and that what is destroyed is closed under successors. Typing has to be
carried through re-anchoring, whose slots come from the kernel as a window sees it
(`SeenSlotIsTyped`, `ReanchoredIsTyped`). The objective adds up over machines and
orders (`CostOfCache`), so an update that recomputes every machine and order a
moved operation was or is on gives the cache of the new schedule (`UpdateIsExact`);
the same walk over arrivals only, the mutant of the run, lacks that hypothesis. A
closure is closed after as many layers as there are operations
(`ClosureIsClosed`), and the cap gives back operations whose predecessors are all
given back already (`CapKeepsClosed`). From them `CostsStayTrue`,
`AnswerNeverCostsMore` and `DestroyedStaysClosed`.

`RunStatusIsTrue` is about a notary that is shown less than there is. It walks
the sequences everybody walks (`SeenSequence`) and sees no changeover next to
frozen work (`SeenSetup`, `SeenActualSetup`), so its silence means bounds, chains,
edges and shifts (`CleanFacts`, `SilentChains`, `SilentEdges`) but changeovers only
where nothing is frozen (`CleanIsSeparated`). Around frozen work these come from
elsewhere: `Grounded` adds to `RunInv` that the seed was valid before it was stamped
(`SeedIsValid`: the warm start passed the check, and every other seed is
re-anchored and checked, or the run ends in an error), and that a best schedule
other than the seed passed the check of candidates with every setup
(`BestIsOrdered`). A valid seed is clean next to the frozen work although it was
checked without it (`ValidIsClean`): frozen work between two operations takes a
changeover away and adds none that is seen (`FrozenWorkShortensSetups`), so windows
of pools and shifts only shrink (`ValidInShift`, `ValidIsSilent`). Hence the
recovery to the seed always succeeds there, which is why an error is possible only
without frozen work and with a refused seed (`FinalizeIsTrue`), and a warm start
that skips the final validation is legal all the same (`ValidIsLegal`).

**RecedingHorizon_proofs**, from the assumptions of the notary and
`RecedingHorizonAssumption`: an operation comes later in its sequence than its
predecessor and a predecessor belongs to the same problem (`model.py` validates
both), and an incumbent gives every operation its duration on its machine. Of the
incumbent's starts, of the budgets and of the clock nothing is assumed. `Inv` adds to
the checked invariants that the plan is typed, that sealed work is committed
together with its predecessors (`SealedIsWhole`), that an open window leaves
behind it what holds its predecessors and no sealed work, and may place nothing
that stays behind it (`WindowIsAhead`), and that no claim is made before the end. `WindowIsAhead` is needed
because a window may rewind committed work: what is left must still be whole when
the window commits only part of what it planned. The placement loop, the shifts
along the chains and behind the setups, the walk over the pools and the passes
of the stabilizer are recursive, and are first shown to have values (`TurnsExist`,
`ChainStartsExist`, `SetupStartsExist`, `WalksExist`, `PassesExist`). Then what
the loop places (`OutcomesAreAttempts`), that the shift along the chains puts
every chain in order (`ChainsAreOrdered`), that no shift moves sealed work, and that
a pass ends with that first shift, whatever the pools did before it
(`StabilizerKeeps`). From them `CommitmentStaysOrdered`, `ClaimsAreTrue` (with
`NotaryIsSound`) and the action property `SealedStays`.

Folds and recursive functions over finite sets are within reach although
induction is not: a definition is shown to have a value by taking a smallest
subset (or number) for which there is none, and its facts likewise. The library
of such lemmas is in CpSatModel_proofs (`FoldExists`, `TotalWithout`,
`TotalGrows`) and, for sequences, ControlPlane_proofs (`FiniteRecursion`).

**Portfolio_proofs**, from `PortfolioAssumption`: any problem, environment,
requests and answers of solvers, any course of memory. `PortfolioInv` keeps what
the call under way was given (`Underway`), that its route was the ladder's
(`Routed`), that the caller's windows are pinned where this call froze them
(`IssuedIsPinned`, which a later call's pins cannot disturb because calls do not
overlap), and that what is to be delivered has been stamped (`ResultFits`).
`ForwardedIsStrictest` is the arithmetic of three limits of which any may be
missing, or zero or negative and then no limit, `LadderFits` the decision ladder for every profile, `StampedIsHonest`
the honest status. From them all four properties of the run:
`AnswersStayHonest`, `StrictestLimitGiven`, `RoutesAlwaysFit`,
`MemoryStaysGuarded`.

Only model-checked: all liveness and fairness (`AcceptedJobSettles`,
`EveryRequestAnswered`, `SolveEnds`, `RunEnds`, the liveness part of
`ImplementsExecutor`), which is out of the prover's reach. Every other
invariant and action property of a passing run is a theorem.

## 5. Not modelled, and the plan

Left out for good: HiGHS models and the search inside CP-SAT (constraint-solver
input and a library), scoring kernels (floating-point ranks that the models
leave free), rendering, schemas, metrics, benchmarks, generators, the cable
domain (it generates instances and runs the solvers above).

Left out of modelled components, with the reason in `components`: maximum lags,
modes and parallel lanes; calendars of auxiliary resources; material and energy
in the objective; `sound_cuts` of LBBD; warm starts and hybrid routing of RHC,
which only advise the inner solver; the native list schedule, whose result the
same driver verifies; file-backed instances, rate limits and authentication; the
router's advisory predictor, which no caller passes and which could go past the
calendar rule.

Behaviour met while modelling that no property covers: jobs do not pass the
synchronous gate, so the two limits add up; a ttl of zero or less keeps records
for ever; the output limit sends SIGTERM and never escalates, so without a
timeout a child that ignores it is waited for; grandchildren that keep the pipes
open hold the close event back for as long as they live, so a call can stay
pending, with its slot, although its timeout has fired and its child is dead
(section 3, Fairness); the stabilizer's precedence sweep has no ceiling;
work that is rewound and not committed again is only found by the residual fill.

Assumptions of the models' instances that the code does not make: all times are
whole minutes; and the setups of `list_cover` add up (`ChangeoversAddUp`), so
that its run checks changeovers after an ejection too.

Order of further work:

1. LBBD-HD over `SubproblemPool`, with its sound master apart.
2. Parallel lanes over `DispatchTimeline`, with the beam and the rule sweep; the
   replay manifest under its lock.
