--------------------------- MODULE SubproblemPool ---------------------------
(***************************************************************************)
(* The process pool of one LBBD solve (synaps/solvers/_process_pool.py):   *)
(* solve_clusters submits one future per machine cluster, takes them in    *)
(* the order they complete, ends the round at the first failed one, and    *)
(* solves in-process once the pool has broken.  The driver is the thread   *)
(* of the solve; workers and their deaths interleave with it.              *)
(***************************************************************************)
EXTENDS Integers, Sequences, FiniteSets

CONSTANTS
  Clusters,    \* machine clusters, each with its subproblem
  Unsolvable,  \* the clusters whose subproblem has no schedule
  NumWorkers   \* kwargs["num_workers"]

ASSUME SubproblemPoolAssumption == Unsolvable \subseteq Clusters /\ NumWorkers \in Nat

VARIABLES
  jobs,      \* the clusters of the round, in cluster order
  futures,   \* state of the futures submitted in this round, by cluster index
  results,   \* results_by_index
  executor,  \* ProcessPoolExecutor: not created yet, up, or dead (a worker died)
  broken,    \* SubproblemPool.broken
  call,      \* where solve_clusters, or the serial loop, is
  verdict    \* what the round returns

poolVars == <<jobs, futures, results, executor, broken, call, verdict>>

Answers == {"optimal", "feasible", "infeasible", "failed"}
Empty == [i \in {} |-> "none"]
With(f, i, value) == [j \in DOMAIN f \cup {i} |-> IF j = i THEN value ELSE f[j]]

PoolInit ==
  /\ jobs = <<>> /\ futures = Empty /\ results = Empty
  /\ executor = "none" /\ broken = FALSE /\ call = "idle" /\ verdict = "none"

(* What CP-SAT may answer: a time limit or an error can hit any cluster.   *)
CanAnswer(i, answer) ==
  \/ answer = "failed"
  \/ answer = "infeasible" /\ jobs[i] \in Unsolvable
  \/ answer \in {"optimal", "feasible"} /\ jobs[i] \notin Unsolvable

Workers == IF NumWorkers > 1 THEN NumWorkers ELSE 1

InState(s) == {i \in DOMAIN futures : futures[i] = s}
(* The index in cluster order that f has no entry for yet. *)
FirstMissing(f) == {i \in DOMAIN jobs \ DOMAIN f : 1..(i - 1) \subseteq DOMAIN f}
Outstanding == InState("queued") \cup InState("running")

(* A failed cluster ends the round; infeasible_proven is that cluster's.   *)
EndsRound(answer) == answer \in {"infeasible", "failed"}
VerdictOf(answer) == IF answer = "infeasible" THEN "infeasible" ELSE "unproven"

-----------------------------------------------------------------------------
(* The driver. *)

StartRound(clusters, mode) ==
  /\ call = "idle"
  /\ jobs' = clusters /\ futures' = Empty /\ results' = Empty /\ verdict' = "none"
  /\ call' = IF mode = "parallel" THEN IF broken THEN "in_process" ELSE "submit" ELSE "serial"
  /\ UNCHANGED <<executor, broken>>

Submit ==
  /\ call = "submit" /\ executor # "dead"
  /\ \E i \in FirstMissing(futures) : futures' = With(futures, i, "queued")
  /\ call' = IF DOMAIN futures' = DOMAIN jobs THEN "collect" ELSE "submit"
  /\ executor' = "up"
  /\ UNCHANGED <<jobs, results, broken, verdict>>

FallBack ==
  /\ broken' = TRUE /\ results' = Empty /\ call' = "in_process"
  /\ UNCHANGED <<jobs, futures, executor, verdict>>

(* submit() raises BrokenProcessPool. *)
SubmitRaises == call = "submit" /\ executor = "dead" /\ FallBack

(* A bug: a future that died with the pool is not noticed. *)
NothingRaises(i) == FALSE

(* future.result() raises BrokenProcessPool. *)
Raises(i) == futures[i] = "dead"

CollectRaises == call = "collect" /\ (\E i \in DOMAIN futures : Raises(i)) /\ FallBack

Collect(i) ==
  /\ call = "collect" /\ i \in DOMAIN futures \ DOMAIN results /\ futures[i] \in Answers
  /\ IF EndsRound(futures[i])
     THEN verdict' = VerdictOf(futures[i]) /\ call' = "settle" /\ UNCHANGED results
     ELSE /\ results' = With(results, i, futures[i])
          /\ IF DOMAIN results' = DOMAIN jobs
             THEN verdict' = "complete" /\ call' = "settle"
             ELSE UNCHANGED <<verdict, call>>
  /\ UNCHANGED <<jobs, futures, executor, broken>>

AfterSolveHere == IF call = "serial" THEN "returned" ELSE "settle"

(* _solve_in_process, and the loop of _solve_subproblems: in cluster order *)
SolveHere(answer) ==
  /\ call \in {"serial", "in_process"}
  /\ \E i \in FirstMissing(results) :
       /\ CanAnswer(i, answer)
       /\ IF EndsRound(answer)
          THEN verdict' = VerdictOf(answer) /\ call' = AfterSolveHere /\ UNCHANGED results
          ELSE /\ results' = With(results, i, answer)
               /\ IF DOMAIN results' = DOMAIN jobs
                  THEN verdict' = "complete" /\ call' = AfterSolveHere
                  ELSE UNCHANGED <<verdict, call>>
  /\ UNCHANGED <<jobs, futures, executor, broken>>

(* settle: cancel what is queued, then wait for what is running. *)
Settle ==
  /\ call = "settle" /\ call' = "wait"
  /\ futures' = [i \in DOMAIN futures |-> IF futures[i] = "queued" THEN "cancelled" ELSE futures[i]]
  /\ UNCHANGED <<jobs, results, executor, broken, verdict>>

(* A bug: settle cancels and does not wait. *)
NotEvenWaiting == TRUE

AllSettled == Outstanding = {}

Return ==
  /\ call = "wait" /\ AllSettled /\ call' = "returned"
  /\ UNCHANGED <<jobs, futures, results, executor, broken, verdict>>

EndRound ==
  /\ call' = "idle" /\ jobs' = <<>> /\ futures' = Empty /\ results' = Empty /\ verdict' = "none"
  /\ UNCHANGED <<executor, broken>>

-----------------------------------------------------------------------------
(* The worker processes. *)

WorkerTake(i) ==
  /\ executor = "up" /\ i \in InState("queued") /\ Cardinality(InState("running")) < Workers
  /\ futures' = [futures EXCEPT ![i] = "running"]
  /\ UNCHANGED <<jobs, results, executor, broken, call, verdict>>

WorkerFinish(i, answer) ==
  /\ i \in InState("running") /\ CanAnswer(i, answer)
  /\ futures' = [futures EXCEPT ![i] = answer]
  /\ UNCHANGED <<jobs, results, executor, broken, call, verdict>>

(* A worker dies: the executor fails every future it has not completed.    *)
WorkerDies ==
  /\ executor = "up" /\ executor' = "dead"
  /\ futures' = [i \in DOMAIN futures |-> IF i \in Outstanding THEN "dead" ELSE futures[i]]
  /\ UNCHANGED <<jobs, results, broken, call, verdict>>

DriverNext ==
  \/ Submit \/ SubmitRaises \/ CollectRaises \/ Settle \/ Return
  \/ \E i \in DOMAIN futures : Collect(i)
  \/ \E answer \in Answers : SolveHere(answer)

WorkersNext ==
  \/ \E i \in DOMAIN futures : WorkerTake(i) \/ \E answer \in Answers : WorkerFinish(i, answer)
  \/ WorkerDies
=============================================================================
