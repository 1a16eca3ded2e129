------------------------------ MODULE LbbdLoop ------------------------------
(***************************************************************************)
(* _LbbdRun.execute (synaps/solvers/lbbd_solver.py): a master proposes an  *)
(* assignment of operations to machines, the cluster subproblems schedule  *)
(* it, no-goods exclude what has been explored.  An assignment stands for  *)
(* a map of operations to machines and carries what the solvers can find   *)
(* out about it: the master's makespan, its clusters, the best makespan of *)
(* a legal schedule.  HiGHS, CP-SAT and the notary are taken to be right.  *)
(* sound_cuts, off by default, is left out.                                *)
(***************************************************************************)
EXTENDS SubproblemPool

CONSTANTS
  Assignments,
  ClustersOf,     \* _cluster_machines of an assignment
  Relax,          \* C_max of an assignment in the master
  LegalCost,      \* its best legal makespan, or None
  Makespans,      \* the makespans schedules have
  MaxIterations,
  GapPercent,     \* gap_threshold
  ParallelAbove,  \* 3: more clusters than this are solved in parallel
  None, Infinity

(* A complete schedule: its makespan, and whether it breaks no hard rule.  *)
Schedules == [cost : Makespans, legal : BOOLEAN]

ASSUME LbbdLoopAssumption ==
  /\ ClustersOf \in [Assignments -> Seq(Clusters) \ {<<>>}]
  /\ Relax \in [Assignments -> Nat]
  /\ Makespans \subseteq Nat
  /\ LegalCost \in [Assignments -> Makespans \cup {None}]
  /\ \A a \in Assignments : LegalCost[a] # None => Relax[a] <= LegalCost[a]
  /\ \A a \in Assignments : \A i \in DOMAIN ClustersOf[a] :
       ClustersOf[a][i] \in Unsolvable => LegalCost[a] = None
  /\ MaxIterations \in Nat /\ GapPercent \in Nat /\ ParallelAbove \in Nat
  /\ None \notin Nat \cup Assignments \cup Schedules /\ Infinity \notin Nat

VARIABLES
  phase,         \* of execute
  iteration,
  current,       \* the assignment of this iteration's master
  benders_cuts,  \* the no-goods: the assignments they exclude
  lb,            \* the largest master bound
  first_bound,   \* lb_evolution[0], the bound of the master without no-goods
  proven,        \* what of the bounds had a dual bound behind it: "all", "first", "not_first"
  incumbent,     \* best_assignments, or None
  refused,       \* incumbent_rejections: the assignments they came from
  result

loopVars == <<phase, iteration, current, benders_cuts, lb, first_bound, proven, incumbent, refused, result>>
vars == <<poolVars, loopVars>>

best_ub == IF incumbent = None THEN Infinity ELSE incumbent.cost
Statuses == {"feasible", "timeout", "infeasible"}

Init ==
  /\ PoolInit
  /\ phase = "warm_start" /\ iteration = 0 /\ current = None /\ benders_cuts = {}
  /\ lb = 0 /\ first_bound = None /\ proven = "all" /\ incumbent = None /\ refused = {} /\ result = None

(* Schedules that greedy, or the merge of cluster schedules, can produce.  *)
CanBeBuilt(a, s) == s.legal => LegalCost[a] # None /\ LegalCost[a] <= s.cost

(* _notary_refuses: the merge re-times operations and may break windows.   *)
NotaryRefuses(s) == ~s.legal

Improves(s) == incumbent = None \/ s.cost < incumbent.cost

(* The candidate becomes the incumbent if it improves it and is not refused *)
Consider(a, s) ==
  /\ incumbent' = IF Improves(s) /\ ~NotaryRefuses(s) THEN s ELSE incumbent
  /\ refused' = IF Improves(s) /\ NotaryRefuses(s) THEN refused \cup {a} ELSE refused

-----------------------------------------------------------------------------
(* The end of the solve. *)

(* A bug: the bound of the masters that hold no-goods is reported. *)
BestMasterBound == lb

(* _reported_lower_bound: the first master holds no no-good. *)
reported_lower_bound == IF first_bound = None THEN 0 ELSE first_bound

Finish(status, reason) ==
  /\ phase' = "done"
  /\ result' = [status |-> status, reason |-> reason, lower_bound |-> reported_lower_bound]

FinalResult(reason) == Finish(IF incumbent = None THEN "timeout" ELSE "feasible", reason)

(* The break of the loop at the time limit or after the last iteration.    *)
Stop ==
  /\ phase = "loop"
  /\ FinalResult(IF iteration = MaxIterations THEN "iterations" ELSE "time_limit")
  /\ UNCHANGED <<poolVars, iteration, current, benders_cuts, lb, first_bound, proven, incumbent, refused>>

-----------------------------------------------------------------------------
GreedyWarmStart ==
  /\ phase = "warm_start" /\ phase' = "loop"
  /\ \/ UNCHANGED <<incumbent, refused>>   \* greedy found nothing, or is not used
     \/ \E a \in Assignments, s \in Schedules : CanBeBuilt(a, s) /\ Consider(a, s)
  /\ UNCHANGED <<poolVars, iteration, current, benders_cuts, lb, first_bound, proven, result>>

Open == Assignments \ benders_cuts

(* extract_master_solution: the smaller of the master's makespan and the   *)
(* dual bound, if there is one.                                            *)
MasterBound(a, dual) == IF dual # None /\ dual < Relax[a] THEN dual ELSE Relax[a]

DualBounds == {Relax[a] : a \in Assignments}

(* The master is optimal or, stopped at its time limit, has a solution,    *)
(* with a dual bound or before the first one.                              *)
MasterSolves(a, dual) ==
  /\ phase = "loop" /\ iteration < MaxIterations /\ a \in Open
  /\ dual # None => \A b \in Open : dual <= Relax[b]
  /\ iteration' = iteration + 1 /\ current' = a /\ phase' = "subproblems"
  /\ LET bound == MasterBound(a, dual) IN
     /\ first_bound' = IF first_bound = None THEN bound ELSE first_bound
     /\ lb' = IF bound > lb THEN bound ELSE lb
  /\ proven' = CASE dual # None -> proven
                [] iteration = 0 -> "not_first"
                [] OTHER -> IF proven = "all" THEN "first" ELSE proven
  /\ UNCHANGED <<poolVars, benders_cuts, incumbent, refused, result>>

(* _master_failed_result: nothing is left, or the time limit came first.   *)
MasterFails ==
  /\ phase = "loop" /\ iteration < MaxIterations
  /\ \E proven_infeasible \in BOOLEAN :
       /\ proven_infeasible => Open = {}
       /\ IF incumbent # None THEN FinalResult("master")
          ELSE Finish(IF proven_infeasible THEN "infeasible" ELSE "timeout", "master")
  /\ UNCHANGED <<poolVars, iteration, current, benders_cuts, lb, first_bound, proven, incumbent, refused>>

-----------------------------------------------------------------------------
(* The subproblems of the current assignment. *)

DispatchSubproblems ==
  /\ phase = "subproblems"
  /\ StartRound(ClustersOf[current],
                IF Len(ClustersOf[current]) > ParallelAbove THEN "parallel" ELSE "serial")
  /\ phase' = "waiting"
  /\ UNCHANGED <<iteration, current, benders_cuts, lb, first_bound, proven, incumbent, refused, result>>

(* The deadline passes before the parallel round, or a serial cluster.     *)
DeadlinePassed ==
  /\ phase = "subproblems" /\ phase' = "loop" /\ current' = None
  /\ UNCHANGED <<poolVars, iteration, benders_cuts, lb, first_bound, proven, incumbent, refused, result>>

sub_optimal == \A i \in DOMAIN results : results[i] = "optimal"

RoundOver ==
  /\ phase = "waiting" /\ call = "returned" /\ EndRound /\ current' = None

(* A bug: a round that ended without a schedule excludes its assignment.   *)
AnyFailure == verdict # "complete"

InfeasibilityProven == verdict = "infeasible"

SubproblemsFail ==
  /\ RoundOver /\ verdict # "complete"
  /\ benders_cuts' = IF InfeasibilityProven THEN benders_cuts \cup {current} ELSE benders_cuts
  /\ phase' = "loop"
  /\ UNCHANGED <<iteration, lb, first_bound, proven, incumbent, refused, result>>

(* _post_assemble_assignments pushed work past the horizon or out of every *)
(* shift: unproven, no cut.                                                *)
AssemblyFails ==
  /\ RoundOver /\ verdict = "complete"
  /\ phase' = "loop"
  /\ UNCHANGED <<iteration, benders_cuts, lb, first_bound, proven, incumbent, refused, result>>

GapClosed(ub) == ub # Infinity /\ (ub - lb) * 100 < GapPercent * ub

(* _record_feasible_subproblem and the no-good behind it. *)
SubproblemsFeasible(s) ==
  /\ RoundOver /\ verdict = "complete" /\ CanBeBuilt(current, s)
  /\ Consider(current, s)
  /\ IF GapClosed(best_ub')
     THEN Finish("feasible", "gap") /\ UNCHANGED benders_cuts
     ELSE /\ phase' = "loop" /\ UNCHANGED result
          /\ benders_cuts' = IF sub_optimal THEN benders_cuts \cup {current} ELSE benders_cuts
  /\ UNCHANGED <<iteration, lb, first_bound, proven>>
-----------------------------------------------------------------------------
RunRound ==
  \/ phase = "waiting" /\ DriverNext /\ UNCHANGED loopVars
  \/ SubproblemsFail \/ AssemblyFails
  \/ \E s \in Schedules : SubproblemsFeasible(s)

Solve ==
  \/ GreedyWarmStart \/ Stop \/ MasterFails
  \/ \E a \in Assignments, dual \in DualBounds \cup {None} : MasterSolves(a, dual)
  \/ DispatchSubproblems \/ DeadlinePassed \/ RunRound

Work == WorkersNext /\ UNCHANGED loopVars

Next == Solve \/ Work

(* The solve's thread runs on, and a worker finishes what it has taken:    *)
(* CP-SAT has a time limit per cluster.                                    *)
Fairness ==
  /\ WF_vars(Solve)
  /\ WF_vars(UNCHANGED loopVars /\ \E i \in DOMAIN futures :
               WorkerTake(i) \/ \E answer \in Answers : WorkerFinish(i, answer))

Spec == Init /\ [][Next]_vars

FairSpec == Spec /\ Fairness

-----------------------------------------------------------------------------
(* A schedule that breaks a hard constraint never becomes the incumbent,   *)
(* although cluster schedules are merged and re-timed, and "feasible" is   *)
(* reported exactly when there is an incumbent.                            *)
FeasibleIsLegal ==
  /\ incumbent # None => incumbent.legal
  /\ result # None => (result.status = "feasible" <=> incumbent # None)

(* The lower bound in the metadata bounds every legal schedule of every    *)
(* assignment, explored, excluded or not, whenever the first master ended  *)
(* with a dual bound.                                                      *)
ReportedBoundIsSound ==
  result # None /\ proven # "not_first" =>
    \A a \in Assignments : LegalCost[a] # None => result.lower_bound <= LegalCost[a]

(* When the loop stops because the gap has closed, no assignment that is   *)
(* still open holds a schedule that beats the incumbent by more than the   *)
(* threshold, although the gap is taken to masters that hold no-goods.     *)
GapStopLeavesNothingBetter ==
  (result # None /\ result.reason = "gap" /\ proven = "all") =>
     \A a \in Open : LegalCost[a] # None =>
       (incumbent.cost - LegalCost[a]) * 100 < GapPercent * incumbent.cost

(* "infeasible" is only said of a problem without legal schedules, unless  *)
(* the notary refused the merged schedule of an assignment.                *)
InfeasibleUnlessRefused ==
  result # None /\ result.status = "infeasible" =>
    \A a \in Assignments \ refused : LegalCost[a] = None

(* What a solve says of its problem is true: feasible of a schedule it     *)
(* holds, infeasible of a problem without one.                             *)
StatusIsTrue == FeasibleIsLegal /\ InfeasibleUnlessRefused

(* What a solve concludes from its bounds is true, of the whole problem    *)
(* when it reports one and of what is still open when it stops at the gap. *)
BoundsAreSound == ReportedBoundIsSound /\ GapStopLeavesNothingBetter

(* An abandoned round leaves nothing in the pool to the next one.          *)
RoundsDoNotOverlap ==
  call \in {"idle", "serial", "returned"} => Outstanding = {}

(* The solve ends, whatever workers die and whatever clusters fail.        *)
SolveEnds == <>(phase = "done")
=============================================================================
