-------------------------- MODULE LbbdLoop_proofs --------------------------
(***************************************************************************)
(* Theorems about the LBBD loop and its process pool, for every set of     *)
(* assignments, clusters and workers.  PoolInv says what the pool may hold *)
(* at each place of the driver; LoopInv what the loop knows of the         *)
(* assignments it has excluded and of those still open.                    *)
(***************************************************************************)
EXTENDS LbbdLoop, TLAPS

Quiet == \A i \in DOMAIN futures : futures[i] \notin {"queued", "running"}

PoolInv ==
  /\ \A i \in DOMAIN futures : i \in DOMAIN jobs
  /\ \A i \in DOMAIN futures : futures[i] = "infeasible" => jobs[i] \in Unsolvable
  /\ verdict = "infeasible" => \E i \in DOMAIN jobs : jobs[i] \in Unsolvable
  /\ executor = "dead" => Quiet
  /\ \A i \in DOMAIN futures : futures[i] = "dead" => executor = "dead"
  /\ call \in {"idle", "serial", "returned", "in_process"} => Quiet

LEMMA QuietIsEmpty == Quiet <=> Outstanding = {}
BY DEF Quiet, Outstanding, InState

LEMMA EmptyFacts == DOMAIN Empty = {}
BY DEF Empty

LEMMA InitPool == Init => PoolInv
BY EmptyFacts DEF Init, PoolInit, PoolInv, Quiet

(* What a submission adds is a queued future with an index of its own. *)
LEMMA SubmitPool == ASSUME PoolInv, Submit PROVE PoolInv'
<1>1. PICK i \in FirstMissing(futures) : futures' = With(futures, i, "queued")
  BY DEF Submit
<1>2. i \in DOMAIN jobs /\ i \notin DOMAIN futures
  BY <1>1 DEF FirstMissing
<1>3. /\ DOMAIN futures' = DOMAIN futures \cup {i}
      /\ \A j \in DOMAIN futures : futures'[j] = futures[j]
      /\ futures'[i] = "queued"
  BY <1>1, <1>2 DEF With
<1>4. /\ jobs' = jobs /\ verdict' = verdict /\ executor' = "up" /\ executor # "dead"
      /\ call' \in {"collect", "submit"}
  BY DEF Submit
<1> QED BY <1>2, <1>3, <1>4 DEF PoolInv, Quiet

LEMMA FallBackPool ==
  ASSUME PoolInv, SubmitRaises \/ CollectRaises PROVE PoolInv'
<1>1. executor = "dead"
  BY DEF PoolInv, SubmitRaises, CollectRaises, Raises
<1>2. FallBack
  BY DEF SubmitRaises, CollectRaises
<1> QED BY <1>1, <1>2 DEF PoolInv, Quiet, FallBack

LEMMA CollectPool ==
  ASSUME PoolInv, NEW i \in DOMAIN futures, Collect(i) PROVE PoolInv'
<1>1. /\ jobs' = jobs /\ futures' = futures /\ executor' = executor
      /\ call' \in {"collect", "settle"}
      /\ \/ verdict' = VerdictOf(futures[i])
         \/ verdict' = "complete"
         \/ verdict' = verdict
  BY DEF Collect
<1>2. verdict' = "infeasible" => \E j \in DOMAIN jobs : jobs[j] \in Unsolvable
  BY <1>1 DEF PoolInv, VerdictOf
<1> QED BY <1>1, <1>2 DEF PoolInv, Quiet

LEMMA SolveHerePool ==
  ASSUME PoolInv, NEW answer \in Answers, SolveHere(answer) PROVE PoolInv'
<1>1. PICK i \in FirstMissing(results) :
        /\ CanAnswer(i, answer)
        /\ \/ verdict' = VerdictOf(answer) /\ call' = AfterSolveHere
           \/ verdict' = "complete" /\ call' = AfterSolveHere
           \/ UNCHANGED <<verdict, call>>
  BY DEF SolveHere
<1>2. i \in DOMAIN jobs
  BY DEF FirstMissing
<1>3. /\ jobs' = jobs /\ futures' = futures /\ executor' = executor
      /\ call \in {"serial", "in_process"}
  BY DEF SolveHere
<1>4. verdict' = "infeasible" => \E j \in DOMAIN jobs : jobs[j] \in Unsolvable
  BY <1>1, <1>2 DEF PoolInv, VerdictOf, CanAnswer
<1> QED BY <1>3, <1>4 DEF PoolInv, Quiet

LEMMA SettlePool == ASSUME PoolInv, Settle \/ Return PROVE PoolInv'
<1>1. CASE Settle
  <2>1. /\ DOMAIN futures' = DOMAIN futures
        /\ \A i \in DOMAIN futures : futures'[i] = futures[i] \/ futures'[i] = "cancelled"
    BY <1>1 DEF Settle
  <2> QED BY <1>1, <2>1 DEF PoolInv, Quiet, Settle
<1>2. CASE Return
  BY <1>2, QuietIsEmpty DEF PoolInv, Quiet, Return, AllSettled
<1> QED BY <1>1, <1>2

LEMMA WorkersPool == ASSUME PoolInv, WorkersNext PROVE PoolInv'
<1>1. ASSUME NEW i \in DOMAIN futures, WorkerTake(i) PROVE PoolInv'
  <2>1. /\ futures[i] = "queued" /\ executor = "up"
        /\ futures' = [futures EXCEPT ![i] = "running"]
        /\ UNCHANGED <<jobs, results, executor, broken, call, verdict>>
    BY <1>1 DEF WorkerTake, InState
  <2> QED BY <2>1 DEF PoolInv, Quiet
<1>2. ASSUME NEW i \in DOMAIN futures, NEW answer \in Answers, WorkerFinish(i, answer)
      PROVE PoolInv'
  <2>1. /\ futures[i] = "running" /\ CanAnswer(i, answer)
        /\ futures' = [futures EXCEPT ![i] = answer]
        /\ UNCHANGED <<jobs, results, executor, broken, call, verdict>>
    BY <1>2 DEF WorkerFinish, InState
  <2>2. answer = "infeasible" => jobs[i] \in Unsolvable
    BY <2>1 DEF CanAnswer
  <2> QED BY <2>1, <2>2 DEF PoolInv, Quiet, Answers
<1>3. CASE WorkerDies
  <2>1. /\ DOMAIN futures' = DOMAIN futures
        /\ \A i \in DOMAIN futures :
             /\ futures'[i] \in {futures[i], "dead"}
             /\ futures'[i] \notin {"queued", "running"}
        /\ executor' = "dead"
        /\ UNCHANGED <<jobs, results, broken, call, verdict>>
    BY <1>3 DEF WorkerDies, Outstanding, InState
  <2> QED BY <2>1 DEF PoolInv, Quiet
<1> QED BY <1>1, <1>2, <1>3 DEF WorkersNext

LEMMA DriverPool == ASSUME PoolInv, DriverNext PROVE PoolInv'
BY SubmitPool, FallBackPool, CollectPool, SolveHerePool, SettlePool DEF DriverNext

LEMMA StartRoundPool ==
  ASSUME NEW clusters, NEW mode, PoolInv, StartRound(clusters, mode) PROVE PoolInv'
BY EmptyFacts DEF PoolInv, Quiet, StartRound

LEMMA EndRoundPool == ASSUME PoolInv, EndRound PROVE PoolInv'
BY EmptyFacts DEF PoolInv, Quiet, EndRound

(* Every step of the loop leaves the pool alone or is one of the above.    *)
LEMMA NextPool == ASSUME PoolInv, [Next]_vars PROVE PoolInv'
<1>1. CASE UNCHANGED poolVars
  BY <1>1 DEF PoolInv, Quiet, poolVars
<1>2. CASE DispatchSubproblems
  BY <1>2, StartRoundPool DEF DispatchSubproblems
<1>3. CASE RunRound
  <2>1. DriverNext \/ EndRound
    BY <1>3 DEF RunRound, SubproblemsFail, AssemblyFails, SubproblemsFeasible, RoundOver
  <2> QED BY <2>1, DriverPool, EndRoundPool
<1>4. CASE Work
  BY <1>4, WorkersPool DEF Work
<1>5. ASSUME GreedyWarmStart \/ Stop \/ MasterFails \/ DeadlinePassed PROVE UNCHANGED poolVars
  BY <1>5 DEF GreedyWarmStart, Stop, MasterFails, DeadlinePassed
<1>6. ASSUME NEW a, NEW dual, MasterSolves(a, dual) PROVE UNCHANGED poolVars
  BY <1>6 DEF MasterSolves
<1>7. CASE UNCHANGED vars
  BY <1>1, <1>7 DEF vars
<1> QED BY <1>1, <1>2, <1>3, <1>4, <1>5, <1>6, <1>7 DEF Next, Solve

(* The pool's invariant holds of the whole solve: a worker that dies       *)
(* leaves nothing running, and no round starts over another one's work.    *)
THEOREM PoolIsKept == Spec => []PoolInv
BY InitPool, NextPool, PTL DEF Spec

(* solve_clusters and settle: when a round has returned, none of its       *)
(* futures is queued or running, whatever died or failed in it.            *)
THEOREM NoOverlap == Spec => []RoundsDoNotOverlap
<1>1. PoolInv => RoundsDoNotOverlap
  BY QuietIsEmpty DEF PoolInv, RoundsDoNotOverlap
<1> QED BY <1>1, PoolIsKept, PTL

-----------------------------------------------------------------------------
(* What the loop knows at every point. *)

Places ==
  /\ phase \in {"warm_start", "loop", "subproblems", "waiting", "done"}
  /\ result # None => phase = "done"
  /\ phase \in {"subproblems", "waiting"} => current \in Assignments
  /\ phase = "waiting" => jobs = ClustersOf[current]
  /\ phase \in {"subproblems", "waiting"} => iteration # 0

Cuts ==
  /\ incumbent \in Schedules \cup {None}
  /\ incumbent # None => incumbent.legal
  /\ incumbent = None => \A a \in benders_cuts \ refused : LegalCost[a] = None

(* The first master has no no-goods, and a proven bound is below every     *)
(* assignment that was open then, so below all that are open now.          *)
Bounds ==
  /\ lb \in Nat /\ iteration \in Nat /\ first_bound \in Nat \cup {None}
  /\ first_bound = None <=> iteration = 0
  /\ iteration = 0 => benders_cuts = {} /\ lb = 0 /\ proven = "all"
  /\ proven \in {"all", "first", "not_first"}
  /\ iteration # 0 /\ proven # "not_first" => \A a \in Assignments : first_bound <= Relax[a]
  /\ proven = "all" => \A a \in Open : lb <= Relax[a]

Ends ==
  result # None =>
    /\ result.lower_bound = reported_lower_bound
    /\ result.status = "feasible" <=> incumbent # None
    /\ result.status = "infeasible" => incumbent = None /\ Open = {}
    /\ result.reason = "gap" => incumbent # None /\ (incumbent.cost - lb) * 100 < GapPercent * incumbent.cost

LoopInv == Places /\ Cuts /\ Bounds /\ Ends

LEMMA NoneIsNothing == None \notin Nat /\ None \notin Assignments /\ None \notin Schedules
BY LbbdLoopAssumption

LEMMA InitLoop == Init => LoopInv
<1> SUFFICES ASSUME Init PROVE LoopInv
  OBVIOUS
<1>1. Places /\ Cuts /\ Ends
  BY DEF Init, Places, Cuts, Ends
<1>2. \A a \in Assignments : 0 <= Relax[a]
  BY LbbdLoopAssumption
<1>3. Bounds
  BY <1>2 DEF Init, Bounds, Open
<1> QED BY <1>1, <1>3 DEF LoopInv

LEMMA ConsiderFacts ==
  ASSUME Cuts, NEW a \in Assignments, NEW s \in Schedules, Consider(a, s)
  PROVE  /\ incumbent' \in Schedules \cup {None}
         /\ incumbent' # None => incumbent'.legal
         /\ incumbent # None => incumbent' # None
         /\ incumbent' = None => a \in refused'
         /\ refused \subseteq refused'
<1>1. s # None /\ s.legal \in BOOLEAN
  BY NoneIsNothing DEF Schedules
<1>2. CASE Improves(s) /\ NotaryRefuses(s)
  BY <1>2 DEF Consider, Cuts
<1>3. CASE Improves(s) /\ ~NotaryRefuses(s)
  BY <1>1, <1>3 DEF Consider, Cuts, NotaryRefuses
<1>4. CASE ~Improves(s)
  BY <1>4 DEF Consider, Cuts, Improves
<1> QED BY <1>2, <1>3, <1>4

(* Every step that ends the solve says what Ends promises. *)
LEMMA FinishEnds ==
  ASSUME NEW status, NEW reason, Finish(status, reason), UNCHANGED first_bound,
         status = "feasible" <=> incumbent' # None,
         status = "infeasible" => incumbent' = None /\ Open' = {},
         reason = "gap" => /\ incumbent' # None
                           /\ (incumbent'.cost - lb') * 100 < GapPercent * incumbent'.cost
  PROVE  Ends'
<1>1. /\ result' = [status |-> status, reason |-> reason, lower_bound |-> reported_lower_bound]
      /\ reported_lower_bound' = reported_lower_bound
  BY DEF Finish, reported_lower_bound
<1> QED BY <1>1 DEF Ends

LEMMA WarmStartLoop == ASSUME LoopInv, GreedyWarmStart PROVE LoopInv'
<1>1. /\ phase = "warm_start" /\ phase' = "loop" /\ result = None
      /\ UNCHANGED <<poolVars, iteration, current, benders_cuts, lb, first_bound, proven, result>>
  BY DEF GreedyWarmStart, LoopInv, Places
<1>2. Cuts'
  <2>1. CASE UNCHANGED <<incumbent, refused>>
    BY <1>1, <2>1 DEF LoopInv, Cuts
  <2>2. ASSUME NEW a \in Assignments, NEW s \in Schedules, Consider(a, s) PROVE Cuts'
    BY <1>1, <2>2, ConsiderFacts DEF LoopInv, Cuts
  <2> QED BY <2>1, <2>2 DEF GreedyWarmStart
<1>3. Places' /\ Bounds' /\ Ends'
  BY <1>1 DEF LoopInv, Places, Bounds, Ends, Open
<1> QED BY <1>2, <1>3 DEF LoopInv

LEMMA StopLoop == ASSUME LoopInv, Stop PROVE LoopInv'
<1>1. /\ phase' = "done"
      /\ UNCHANGED <<poolVars, iteration, current, benders_cuts, lb, first_bound, proven, incumbent, refused>>
  BY DEF Stop, FinalResult, Finish
<1>2. PICK reason \in {"iterations", "time_limit"} : FinalResult(reason)
  BY DEF Stop
<1>3. Ends'
  BY <1>1, <1>2, FinishEnds DEF FinalResult
<1>4. Places' /\ Cuts' /\ Bounds'
  BY <1>1 DEF LoopInv, Places, Cuts, Bounds, Open
<1> QED BY <1>3, <1>4 DEF LoopInv

LEMMA MasterFailsLoop == ASSUME LoopInv, MasterFails PROVE LoopInv'
<1>1. /\ phase' = "done"
      /\ UNCHANGED <<poolVars, iteration, current, benders_cuts, lb, first_bound, proven, incumbent, refused>>
  BY DEF MasterFails, FinalResult, Finish
<1>2. PICK status \in Statuses :
        /\ Finish(status, "master")
        /\ status = "feasible" <=> incumbent # None
        /\ status = "infeasible" => incumbent = None /\ Open = {}
  BY DEF MasterFails, FinalResult, Statuses
<1>3. Ends'
  BY <1>1, <1>2, FinishEnds DEF Open
<1>4. Places' /\ Cuts' /\ Bounds'
  BY <1>1 DEF LoopInv, Places, Cuts, Bounds, Open
<1> QED BY <1>3, <1>4 DEF LoopInv

(* A master that ends with a dual bound: below all that is open. *)
LEMMA MasterSolvesBounds ==
  ASSUME LoopInv, NEW a \in Assignments, NEW dual \in DualBounds \cup {None},
         MasterSolves(a, dual)
  PROVE  Bounds'
<1> DEFINE bound == MasterBound(a, dual)
<1>1. /\ iteration' = iteration + 1 /\ benders_cuts' = benders_cuts
      /\ first_bound' = IF first_bound = None THEN bound ELSE first_bound
      /\ lb' = IF bound > lb THEN bound ELSE lb
      /\ proven' = CASE dual # None -> proven
                     [] iteration = 0 -> "not_first"
                     [] OTHER -> IF proven = "all" THEN "first" ELSE proven
  BY DEF MasterSolves
<1>2. Relax \in [Assignments -> Nat] /\ None \notin Nat
  BY LbbdLoopAssumption
<1>3. dual # None => dual \in Nat
  BY <1>2 DEF DualBounds
<1>4. bound \in Nat
  BY <1>2, <1>3 DEF MasterBound
<1>5. dual # None => \A b \in Open : bound <= Relax[b]
  <2>1. SUFFICES ASSUME dual # None, NEW b \in Open PROVE bound <= Relax[b]
    OBVIOUS
  <2>2. dual <= Relax[b] /\ b \in Assignments
    BY <2>1 DEF MasterSolves, Open
  <2>3. bound <= dual
    BY <1>2, <1>3, <2>1 DEF MasterBound
  <2> QED BY <1>2, <1>3, <1>4, <2>1, <2>2, <2>3
<1>6. Open' = Open
  BY <1>1 DEF Open
<1> HIDE DEF bound
<1>7. /\ lb' \in Nat /\ iteration' \in Nat /\ first_bound' \in Nat /\ iteration' # 0
      /\ proven' \in {"all", "first", "not_first"}
  BY <1>1, <1>4, <1>2 DEF LoopInv, Bounds
<1>8. proven' # "not_first" => \A b \in Assignments : first_bound' <= Relax[b]
  <2>1. CASE iteration = 0
    <3>1. first_bound = None /\ Open = Assignments
      BY <2>1 DEF LoopInv, Bounds, Open
    <3> QED BY <1>1, <1>5, <2>1, <3>1
  <2>2. CASE iteration # 0
    <3>1. first_bound' = first_bound /\ (proven' # "not_first" => proven # "not_first")
      BY <1>1, <2>2 DEF LoopInv, Bounds
    <3> QED BY <2>2, <3>1 DEF LoopInv, Bounds
  <2> QED BY <2>1, <2>2
<1>9. proven' = "all" => \A b \in Open' : lb' <= Relax[b]
  <2>1. proven' = "all" => dual # None /\ proven = "all"
    BY <1>1 DEF LoopInv, Bounds
  <2>2. lb' = bound \/ lb' = lb
    BY <1>1
  <2> QED BY <1>5, <1>6, <2>1, <2>2 DEF LoopInv, Bounds
<1> QED BY <1>2, <1>7, <1>8, <1>9 DEF Bounds

LEMMA MasterSolvesLoop ==
  ASSUME LoopInv, NEW a \in Assignments, NEW dual \in DualBounds \cup {None},
         MasterSolves(a, dual)
  PROVE  LoopInv'
<1>1. /\ phase = "loop" /\ phase' = "subproblems" /\ current' = a
      /\ UNCHANGED <<poolVars, benders_cuts, incumbent, refused, result>>
  BY DEF MasterSolves
<1>2. iteration' # 0
  BY DEF MasterSolves, LoopInv, Bounds
<1>3. Places' /\ Cuts' /\ Ends'
  BY <1>1, <1>2 DEF LoopInv, Places, Cuts, Ends
<1> QED BY <1>3, MasterSolvesBounds DEF LoopInv

LEMMA DispatchLoop == ASSUME LoopInv, DispatchSubproblems \/ DeadlinePassed PROVE LoopInv'
<1>1. /\ phase = "subproblems" /\ result = None
      /\ UNCHANGED <<iteration, benders_cuts, lb, first_bound, proven, incumbent, refused, result>>
  BY DEF DispatchSubproblems, DeadlinePassed, LoopInv, Places
<1>2. Cuts' /\ Bounds' /\ Ends'
  BY <1>1 DEF LoopInv, Cuts, Bounds, Ends, Open
<1>3. Places'
  <2>1. CASE DispatchSubproblems
    BY <1>1, <2>1 DEF DispatchSubproblems, StartRound, LoopInv, Places
  <2>2. CASE DeadlinePassed
    BY <1>1, <2>2 DEF DeadlinePassed, LoopInv, Places
  <2> QED BY <2>1, <2>2
<1> QED BY <1>2, <1>3 DEF LoopInv

(* The pool's own steps change none of what the loop knows. *)
LEMMA PoolStepsLoop ==
  ASSUME LoopInv, UNCHANGED loopVars, jobs' = jobs PROVE LoopInv'
<1>1. Places' /\ Cuts'
  BY DEF loopVars, LoopInv, Places, Cuts
<1>2. Bounds' /\ Ends'
  BY DEF loopVars, LoopInv, Bounds, Ends, Open, reported_lower_bound
<1> QED BY <1>1, <1>2 DEF LoopInv

LEMMA PoolStepsKeepJobs == DriverNext \/ WorkersNext => jobs' = jobs
BY DEF DriverNext, WorkersNext, Submit, SubmitRaises, CollectRaises, FallBack, Settle, Return,
       Collect, SolveHere, WorkerTake, WorkerFinish, WorkerDies

(* A no-good of a failed round excludes an assignment one of whose         *)
(* clusters has no schedule.                                               *)
LEMMA SubproblemsFailLoop ==
  ASSUME PoolInv, LoopInv, SubproblemsFail \/ AssemblyFails PROVE LoopInv'
<1>1. /\ phase = "waiting" /\ phase' = "loop" /\ result = None
      /\ UNCHANGED <<iteration, lb, first_bound, proven, incumbent, refused, result>>
      /\ current \in Assignments /\ jobs = ClustersOf[current]
  BY DEF SubproblemsFail, AssemblyFails, RoundOver, LoopInv, Places
<1>2. /\ benders_cuts' \subseteq benders_cuts \cup {current}
      /\ benders_cuts \subseteq benders_cuts'
      /\ current \in benders_cuts' \ benders_cuts => verdict = "infeasible"
  BY DEF SubproblemsFail, AssemblyFails, InfeasibilityProven
<1>3. verdict = "infeasible" => LegalCost[current] = None
  BY <1>1, LbbdLoopAssumption DEF PoolInv
<1>4. Cuts'
  BY <1>1, <1>2, <1>3 DEF LoopInv, Cuts
<1>5. iteration # 0
  BY <1>1 DEF LoopInv, Bounds, Places
<1>6. Bounds'
  <2>1. Open' \subseteq Open
    BY <1>2 DEF Open
  <2> QED BY <1>1, <1>5, <2>1 DEF LoopInv, Bounds
<1>7. Places' /\ Ends'
  BY <1>1 DEF LoopInv, Places, Ends
<1> QED BY <1>4, <1>6, <1>7 DEF LoopInv

(* A no-good of a scheduled round excludes an assignment whose schedule    *)
(* became the incumbent, met a better one, or was refused.                 *)
LEMMA SubproblemsFeasibleLoop ==
  ASSUME LoopInv, NEW s \in Schedules, SubproblemsFeasible(s) PROVE LoopInv'
<1>1. /\ phase = "waiting" /\ result = None /\ iteration # 0 /\ current \in Assignments
      /\ UNCHANGED <<iteration, lb, first_bound, proven>>
      /\ Consider(current, s)
  BY DEF SubproblemsFeasible, RoundOver, LoopInv, Places
<1>2. /\ incumbent' \in Schedules \cup {None}
      /\ incumbent' # None => incumbent'.legal
      /\ incumbent # None => incumbent' # None
      /\ incumbent' = None => current \in refused'
      /\ refused \subseteq refused'
  BY <1>1, ConsiderFacts DEF LoopInv
<1>3. benders_cuts' = benders_cuts \/ benders_cuts' = benders_cuts \cup {current}
  BY DEF SubproblemsFeasible
<1>4. Cuts'
  BY <1>2, <1>3 DEF LoopInv, Cuts
<1>5. Bounds'
  <2>1. Open' \subseteq Open
    BY <1>3 DEF Open
  <2> QED BY <1>1, <2>1 DEF LoopInv, Bounds
<1>6. CASE GapClosed(best_ub')
  <2>1. Finish("feasible", "gap") /\ phase' = "done"
    BY <1>6 DEF SubproblemsFeasible, Finish
  <2>2. incumbent' # None /\ (incumbent'.cost - lb') * 100 < GapPercent * incumbent'.cost
    BY <1>1, <1>6 DEF GapClosed, best_ub
  <2>3. Ends'
    BY <1>1, <2>1, <2>2, FinishEnds
  <2>4. Places'
    BY <2>1 DEF Places, Finish
  <2> QED BY <1>4, <1>5, <2>3, <2>4 DEF LoopInv
<1>7. CASE ~GapClosed(best_ub')
  <2>1. phase' = "loop" /\ result' = None
    BY <1>1, <1>7 DEF SubproblemsFeasible
  <2> QED BY <1>4, <1>5, <2>1 DEF LoopInv, Places, Ends
<1> QED BY <1>6, <1>7

LEMMA NextLoop == ASSUME PoolInv, LoopInv, [Next]_vars PROVE LoopInv'
<1>1. CASE Solve
  <2>1. CASE RunRound
    BY <2>1, PoolStepsLoop, PoolStepsKeepJobs, SubproblemsFailLoop, SubproblemsFeasibleLoop DEF RunRound
  <2> QED BY <1>1, <2>1, WarmStartLoop, StopLoop, MasterFailsLoop, MasterSolvesLoop, DispatchLoop
          DEF Solve
<1>2. CASE Work
  BY <1>2, PoolStepsLoop, PoolStepsKeepJobs DEF Work
<1>3. CASE UNCHANGED vars
  BY <1>3, PoolStepsLoop DEF vars, poolVars
<1> QED BY <1>1, <1>2, <1>3 DEF Next

LEMMA LoopIsKept == Spec => []LoopInv
BY InitLoop, NextLoop, PoolIsKept, PTL DEF Spec

(* _notary_refuses gates every incumbent, the warm start's and the merged  *)
(* ones; "feasible" is said exactly when there is one.                     *)
THEOREM OnlyLegalIncumbents == Spec => []FeasibleIsLegal
<1>1. LoopInv => FeasibleIsLegal
  BY DEF LoopInv, Cuts, Ends, FeasibleIsLegal
<1> QED BY <1>1, LoopIsKept, PTL

(* _reported_lower_bound: the bound of the master without no-goods, if it  *)
(* ended with a dual bound, is below every legal schedule.                 *)
THEOREM BoundIsSound == Spec => []ReportedBoundIsSound
<1>1. LoopInv => ReportedBoundIsSound
  <2>1. SUFFICES ASSUME LoopInv, result # None, proven # "not_first",
                        NEW a \in Assignments, LegalCost[a] # None
                 PROVE  result.lower_bound <= LegalCost[a]
    BY DEF ReportedBoundIsSound
  <2>2. Relax[a] \in Nat /\ LegalCost[a] \in Nat /\ Relax[a] <= LegalCost[a]
    BY <2>1, LbbdLoopAssumption
  <2>3. reported_lower_bound \in Nat /\ reported_lower_bound <= Relax[a]
    BY <2>1, <2>2 DEF LoopInv, Bounds, reported_lower_bound
  <2>4. result.lower_bound = reported_lower_bound
    BY <2>1 DEF LoopInv, Ends
  <2> QED BY <2>2, <2>3, <2>4
<1> QED BY <1>1, LoopIsKept, PTL

(* _record_feasible_subproblem: the gap is taken to masters that hold      *)
(* no-goods, which bound what is still open and nothing else.              *)
THEOREM GapStopIsJustified == Spec => []GapStopLeavesNothingBetter
<1>1. LoopInv => GapStopLeavesNothingBetter
  <2>1. SUFFICES ASSUME LoopInv, result # None, result.reason = "gap", proven = "all",
                        NEW a \in Open, LegalCost[a] # None
                 PROVE  (incumbent.cost - LegalCost[a]) * 100 < GapPercent * incumbent.cost
    BY DEF GapStopLeavesNothingBetter
  <2>2. /\ incumbent # None /\ lb <= Relax[a] /\ lb \in Nat
        /\ (incumbent.cost - lb) * 100 < GapPercent * incumbent.cost
    BY <2>1 DEF LoopInv, Ends, Bounds
  <2>3. incumbent.cost \in Nat /\ GapPercent * incumbent.cost \in Nat
    <3>1. incumbent \in Schedules
      BY <2>1, <2>2 DEF LoopInv, Cuts
    <3>2. incumbent.cost \in Nat
      BY <3>1, LbbdLoopAssumption DEF Schedules
    <3> QED BY <3>2, LbbdLoopAssumption
  <2>4. Relax[a] \in Nat /\ LegalCost[a] \in Nat /\ Relax[a] <= LegalCost[a]
    BY <2>1, LbbdLoopAssumption DEF Open
  <2> QED BY <2>2, <2>3, <2>4
<1> QED BY <1>1, LoopIsKept, PTL

(* _master_failed_result: "infeasible" needs an exhausted master, and what *)
(* was excluded without an incumbent was infeasible or refused.            *)
THEOREM InfeasibleIsTrue == Spec => []InfeasibleUnlessRefused
<1>1. LoopInv => InfeasibleUnlessRefused
  BY DEF LoopInv, Cuts, Ends, Open, InfeasibleUnlessRefused
<1> QED BY <1>1, LoopIsKept, PTL

(* The status of a solve is true of its problem.                           *)
THEOREM StatusTrue == Spec => []StatusIsTrue
<1>1. FeasibleIsLegal /\ InfeasibleUnlessRefused => StatusIsTrue
  BY DEF StatusIsTrue
<1> QED BY <1>1, OnlyLegalIncumbents, InfeasibleIsTrue, PTL

(* What a solve concludes from its bounds is true.                         *)
THEOREM BoundsSound == Spec => []BoundsAreSound
<1>1. ReportedBoundIsSound /\ GapStopLeavesNothingBetter => BoundsAreSound
  BY DEF BoundsAreSound
<1> QED BY <1>1, BoundIsSound, GapStopIsJustified, PTL
=============================================================================
