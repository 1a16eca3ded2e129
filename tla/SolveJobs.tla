----------------------------- MODULE SolveJobs -----------------------------
(***************************************************************************)
(* The asynchronous job store of the control plane                         *)
(* (control-plane/src/solve-jobs.ts) together with the two HTTP routes of  *)
(* app.ts that use it: POST /api/v1/solve/jobs and GET                     *)
(* /api/v1/solve/jobs/:jobId.                                              *)
(*                                                                         *)
(* Node runs one callback at a time, so an action is the code between two  *)
(* suspension points: a request handler, the setImmediate callback up to   *)
(* its await, and the continuation of that await.                          *)
(***************************************************************************)
EXTENDS Integers, FiniteSets

CONSTANTS
  JobIds,       \* the values randomUUID() can return; each is drawn once
  Tenants,      \* what resolveTenant() yields, null included
  MaxJobs,      \* options.maxJobs
  MaxInflight,  \* options.maxInflight
  Ttl,          \* options.ttlMs in clock ticks; eviction is off when <= 0
  MaxClock      \* bound of the modelled wall clock

ASSUME SolveJobsAssumption ==
  /\ MaxJobs \in Nat
  /\ MaxInflight \in Nat
  /\ Ttl \in Int
  /\ MaxClock \in Nat

VARIABLES
  jobs,       \* the Map of records: a function on the ids it holds
  inflight,   \* the counter the capacity check reads
  scheduled,  \* ids whose setImmediate callback has not run yet
  awaiting,   \* ids whose runJob is suspended on options.run()
  issued,     \* ids returned to clients so far
  clock,      \* Date.now()
  polled,     \* the last answer a permitted GET gave for each issued id
  answer      \* what the request handled by the last step was told

jobsVars == <<jobs, inflight, scheduled, awaiting, issued, clock, polled, answer>>

NoTime == -1    \* completed_at: null

JobStatuses == {"pending", "running", "succeeded", "failed"}
Unsettled == {"pending", "running"}

SolveJobRecord ==
  [tenant : Tenants, status : JobStatuses, created_at : Nat,
   completed_at : Nat \cup {NoTime}, result : BOOLEAN, error : BOOLEAN]

-----------------------------------------------------------------------------
(* evictExpired: the records a call leaves in the map. *)

Anchor(record) ==
  IF record.completed_at = NoTime THEN record.created_at ELSE record.completed_at

Expired(record) == Ttl > 0 /\ Anchor(record) <= clock - Ttl

(* A bug: eviction that ignores the status. *)
KeptByAge == {j \in DOMAIN jobs : ~ Expired(jobs[j])}

Kept == {j \in DOMAIN jobs : ~ Expired(jobs[j]) \/ jobs[j].status \in Unsettled}

EvictExpired == [j \in Kept |-> jobs[j]]

-----------------------------------------------------------------------------
JobsInit ==
  /\ jobs = [j \in {} |-> NoTime]
  /\ inflight = 0
  /\ scheduled = {}
  /\ awaiting = {}
  /\ issued = {}
  /\ clock = 0
  /\ polled = [j \in JobIds |-> "unseen"]
  /\ answer = "none"

NewRecord(tenant) ==
  [tenant |-> tenant, status |-> "pending", created_at |-> clock,
   completed_at |-> NoTime, result |-> FALSE, error |-> FALSE]

(* POST: eviction precedes both capacity checks. *)
Accept(tenant, j) ==
  /\ j \notin issued
  /\ inflight < MaxInflight
  /\ Cardinality(Kept) < MaxJobs
  /\ jobs' = [k \in Kept \cup {j} |-> IF k = j THEN NewRecord(tenant) ELSE jobs[k]]
  /\ inflight' = inflight + 1
  /\ scheduled' = scheduled \cup {j}
  /\ issued' = issued \cup {j}
  /\ answer' = "accepted"
  /\ UNCHANGED <<awaiting, clock, polled>>

Refuse ==
  /\ \/ /\ inflight >= MaxInflight
        /\ answer' = "inflight limit"
     \/ /\ inflight < MaxInflight
        /\ Cardinality(Kept) >= MaxJobs
        /\ answer' = "store capacity"
  /\ jobs' = EvictExpired
  /\ UNCHANGED <<inflight, scheduled, awaiting, issued, clock, polled>>

(* GET: 404 when the map has no such record, 403 for another tenant. *)
GetSolveJob(tenant, j) ==
  /\ j \in issued
  /\ jobs' = EvictExpired
  /\ \/ /\ j \notin Kept
        /\ polled' = [polled EXCEPT ![j] = "gone"]
     \/ /\ j \in Kept
        /\ jobs[j].tenant # tenant
        /\ UNCHANGED polled
     \/ /\ j \in Kept
        /\ jobs[j].tenant = tenant
        /\ polled' = [polled EXCEPT ![j] = jobs[j].status]
  /\ answer' = "none"
  /\ UNCHANGED <<inflight, scheduled, awaiting, issued, clock>>

(* A bug: the slot is not given back. *)
NotDecremented == inflight

Decremented == IF inflight > 0 THEN inflight - 1 ELSE 0

(* The setImmediate callback: runJob up to its await, or its early return  *)
(* when the record is no longer in the map.                                *)
RunJob(j) ==
  LET found == j \in DOMAIN jobs IN
  /\ j \in scheduled
  /\ scheduled' = scheduled \ {j}
  /\ jobs' = [k \in DOMAIN jobs |->
                IF k = j THEN [jobs[k] EXCEPT !.status = "running"] ELSE jobs[k]]
  /\ awaiting' = IF found THEN awaiting \cup {j} ELSE awaiting
  /\ inflight' = IF found THEN inflight ELSE Decremented
  /\ answer' = "none"
  /\ UNCHANGED <<issued, clock, polled>>

(* Bugs: no completion time, and a failed job put back in the queue. *)
SettledUndated(record, ok) ==
  [record EXCEPT !.status = IF ok THEN "succeeded" ELSE "failed", !.result = ok, !.error = ~ ok]

SettledRequeued(record, ok) ==
  [record EXCEPT !.status = IF ok THEN "succeeded" ELSE "pending", !.result = ok,
                 !.error = ~ ok, !.completed_at = clock]

(* The continuation: the record the closure holds, in the map or not. *)
Settled(record, ok) ==
  [record EXCEPT !.status = IF ok THEN "succeeded" ELSE "failed",
                 !.result = ok, !.error = ~ ok, !.completed_at = clock]

(* A bug: the finally does nothing, so the job stays active. *)
SettleWithoutFinally(j) ==
  /\ j \in awaiting
  /\ \E ok \in BOOLEAN :
       jobs' = [k \in DOMAIN jobs |-> IF k = j THEN Settled(jobs[k], ok) ELSE jobs[k]]
  /\ answer' = "none"
  /\ UNCHANGED <<inflight, awaiting, scheduled, issued, clock, polled>>

SettleJob(j) ==
  /\ j \in awaiting
  /\ awaiting' = awaiting \ {j}
  /\ inflight' = Decremented
  /\ \E ok \in BOOLEAN :
       jobs' = [k \in DOMAIN jobs |-> IF k = j THEN Settled(jobs[k], ok) ELSE jobs[k]]
  /\ answer' = "none"
  /\ UNCHANGED <<scheduled, issued, clock, polled>>

Tick ==
  /\ clock < MaxClock
  /\ clock' = clock + 1
  /\ answer' = "none"
  /\ UNCHANGED <<jobs, inflight, scheduled, awaiting, issued, polled>>

JobsNext ==
  \/ \E t \in Tenants, j \in JobIds : Accept(t, j) \/ GetSolveJob(t, j)
  \/ Refuse
  \/ \E j \in JobIds : RunJob(j) \/ SettleJob(j)
  \/ Tick

JobsSpec == JobsInit /\ [][JobsNext]_jobsVars

(* The event loop runs every setImmediate callback, and the bridge settles *)
(* every request, as PythonBridge does with a timeout and pipes that are   *)
(* released: no fairness is assumed of the clients.                        *)
FairJobsSpec == JobsSpec /\ \A j \in JobIds : WF_jobsVars(RunJob(j)) /\ WF_jobsVars(SettleJob(j))

-----------------------------------------------------------------------------
Answers == {"none", "accepted", "inflight limit", "store capacity"}

(* Every variable has its type. *)
JobsTypeOK ==
  /\ DOMAIN jobs \subseteq JobIds
  /\ jobs \in [DOMAIN jobs -> SolveJobRecord]
  /\ inflight \in Nat
  /\ scheduled \subseteq JobIds
  /\ awaiting \subseteq JobIds
  /\ issued \subseteq JobIds
  /\ clock \in 0 .. MaxClock
  /\ polled \in [JobIds -> JobStatuses \cup {"unseen", "gone"}]
  /\ answer \in Answers

Active == scheduled \cup awaiting

(* A job that is queued or running stays in the map with the status that   *)
(* says so, whatever its age: eviction never makes runJob find no record   *)
(* (its early-return branch), nor lets a result be written to a record no  *)
(* client can read.                                                        *)
ActiveJobIsStored ==
  \A j \in JobIds :
    /\ j \in scheduled => j \in DOMAIN jobs /\ jobs[j].status = "pending"
    /\ j \in awaiting => j \in DOMAIN jobs /\ jobs[j].status = "running"

(* The counter the 429 check reads is the number of jobs queued or         *)
(* running, and that number never passes the configured limit: no path     *)
(* through enqueue, runJob and its finally leaks or double-frees a slot.   *)
InflightIsActiveCount ==
  /\ inflight = Cardinality(Active)
  /\ inflight <= MaxInflight

(* The map never holds more than maxJobs records, and all the records that *)
(* are neither queued nor running are settled, with exactly one of result  *)
(* and error and a completion time that lies between the job's creation    *)
(* and now.                                                                *)
StoreIsBoundedAndSettled ==
  /\ Cardinality(DOMAIN jobs) <= MaxJobs
  /\ \A j \in DOMAIN jobs \ Active :
       /\ jobs[j].status = IF jobs[j].result THEN "succeeded" ELSE "failed"
       /\ jobs[j].result # jobs[j].error
       /\ jobs[j].completed_at \in jobs[j].created_at .. clock

(* A 429 is never the work of a record that could have been evicted: when  *)
(* the store says it is full, every settled record in it is younger than   *)
(* the ttl, and when it says inflight, that many jobs really are active.   *)
RefusalIsJustified ==
  /\ answer = "store capacity" =>
       /\ Cardinality(DOMAIN jobs) = MaxJobs
       /\ \A j \in DOMAIN jobs \ Active : ~ Expired(jobs[j])
  /\ answer = "inflight limit" => Cardinality(Active) >= MaxInflight

(* Capacity is counted exactly: no slot is lost or given out twice, and no *)
(* client is refused one that is free.                                     *)
CapacityIsExact == InflightIsActiveCount /\ RefusalIsJustified

Rank(status) ==
  CASE status = "unseen" -> 0
    [] status = "pending" -> 1
    [] status = "running" -> 2
    [] status \in {"succeeded", "failed"} -> 3
    [] status = "gone" -> 4

(* What a client polling one job is told only moves forward: pending,      *)
(* running, one final status that never changes, then 404 for ever.        *)
PollsMoveForward ==
  [][\A j \in JobIds : polled'[j] = polled[j] \/ Rank(polled'[j]) > Rank(polled[j])]_jobsVars

(* Every accepted job is eventually settled, as long as the bridge settles:*)
(* its slot is given back and its record carries a final status until it   *)
(* is evicted.                                                             *)
AcceptedJobSettles ==
  \A j \in JobIds : j \in issued ~> [](j \notin Active)
=============================================================================
