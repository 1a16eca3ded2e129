------------------------ MODULE ControlPlane_proofs ------------------------
(***************************************************************************)
(* Theorems about the three machines of the control plane.                 *)
(*                                                                         *)
(* SolveJobs, for every set of ids and tenants and every limit.            *)
(* Accounting is the inductive invariant: eviction spares exactly the      *)
(* unsettled records, so the jobs the counter stands for are always in     *)
(* the map, and every other record is settled.                             *)
(*                                                                         *)
(* PythonBridge, one call of executePythonContract, with the timeout on or *)
(* off.  BridgeInv ties the place of the call to what the child and the    *)
(* timers may still do there: once the pipes have closed no timer is left  *)
(* that could mark the run as late, and a SIGKILL can only come from an    *)
(* escalation whose SIGTERM the child has had.                             *)
(*                                                                         *)
(* SolveGateway, the synchronous routes, for any number of requests and    *)
(* slots and every fallback chain.  GatewayInv says that a handler holds a *)
(* slot exactly while its bridge call runs (GateCounts) and that what a    *)
(* handler has tried, and has answered, is what the loop over its chain    *)
(* allows (HandlersFit).  The chain itself is a fold over the configured   *)
(* sequence; that the fold has a value, and that the value is a chain      *)
(* without repetition in the configured order, is proved first, by taking  *)
(* a smallest subset on which it would fail.                               *)
(***************************************************************************)
EXTENDS SolveJobs, PythonBridge, SolveGateway, FiniteSetTheorems, TLAPS


-----------------------------------------------------------------------------
(* The asynchronous solve jobs.                                            *)

Accounting ==
  /\ JobsTypeOK
  /\ IsFiniteSet(DOMAIN jobs)
  /\ DOMAIN jobs \subseteq issued
  /\ scheduled \cap awaiting = {}
  /\ ActiveJobIsStored
  /\ InflightIsActiveCount
  /\ StoreIsBoundedAndSettled
  /\ \A j \in DOMAIN jobs : jobs[j].created_at <= clock

(* Eviction keeps every active job and is a restriction of the map.        *)
LEMMA EvictionSparesActive ==
  ASSUME Accounting
  PROVE  /\ Kept \subseteq DOMAIN jobs
         /\ Active \subseteq Kept
         /\ IsFiniteSet(Kept)
         /\ Cardinality(Kept) <= Cardinality(DOMAIN jobs)
         /\ EvictExpired \in [Kept -> SolveJobRecord]
         /\ Cardinality(Kept) \in Nat /\ Cardinality(DOMAIN jobs) \in Nat
<1>1. Kept \subseteq DOMAIN jobs
  BY DEF Kept
<1>2. Active \subseteq Kept
  BY DEF Accounting, JobsTypeOK, ActiveJobIsStored, Active, Kept, Unsettled
<1>3. IsFiniteSet(Kept) /\ Cardinality(Kept) <= Cardinality(DOMAIN jobs)
  BY <1>1, FS_Subset DEF Accounting
<1>4. EvictExpired \in [Kept -> SolveJobRecord]
  BY <1>1 DEF EvictExpired, Accounting, JobsTypeOK
<1>5. Cardinality(Kept) \in Nat /\ Cardinality(DOMAIN jobs) \in Nat
  BY <1>3, FS_CardinalityType DEF Accounting
<1> QED BY <1>1, <1>2, <1>3, <1>4, <1>5

LEMMA ActiveIsFinite ==
  ASSUME Accounting
  PROVE  IsFiniteSet(Active) /\ Cardinality(Active) \in Nat
<1>1. Active \subseteq DOMAIN jobs
  BY DEF Accounting, JobsTypeOK, ActiveJobIsStored, Active
<1> QED BY <1>1, FS_Subset, FS_CardinalityType DEF Accounting

LEMMA InitAccounting == JobsInit => Accounting
<1> SUFFICES ASSUME JobsInit PROVE Accounting
  OBVIOUS
<1> USE SolveJobsAssumption DEF JobsInit
<1>1. DOMAIN jobs = {} /\ Active = {}
  BY DEF Active
<1>2. JobsTypeOK
  BY <1>1 DEF JobsTypeOK, SolveJobRecord, Answers, SolveJobsAssumption
<1>3. ActiveJobIsStored /\ scheduled \cap awaiting = {}
  BY DEF ActiveJobIsStored
<1>4. InflightIsActiveCount
  BY <1>1, FS_EmptySet DEF InflightIsActiveCount, SolveJobsAssumption
<1>5. IsFiniteSet(DOMAIN jobs) /\ StoreIsBoundedAndSettled
  BY <1>1, FS_EmptySet DEF StoreIsBoundedAndSettled, SolveJobsAssumption
<1> QED BY <1>1, <1>2, <1>3, <1>4, <1>5 DEF Accounting

LEMMA AcceptAccounting ==
  ASSUME Accounting, NEW t \in Tenants, NEW j \in JobIds, Accept(t, j)
  PROVE  Accounting'
<1>0. /\ Kept \subseteq DOMAIN jobs /\ Active \subseteq Kept
      /\ IsFiniteSet(Kept) /\ Cardinality(Kept) \in Nat
  BY EvictionSparesActive
<1>1. DOMAIN jobs' = Kept \cup {j} /\ j \notin Kept /\ j \notin DOMAIN jobs
  BY <1>0 DEF Accept, Accounting
<1>2. Active' = Active \cup {j} /\ j \notin Active
  BY <1>0, <1>1 DEF Accept, Active
<1>3. JobsTypeOK'
  <2>1. NewRecord(t) \in SolveJobRecord
    BY DEF NewRecord, SolveJobRecord, JobStatuses, NoTime, Accounting, JobsTypeOK
  <2>2. jobs' \in [DOMAIN jobs' -> SolveJobRecord]
    BY <1>0, <1>1, <2>1 DEF Accept, Accounting, JobsTypeOK
  <2>3. DOMAIN jobs' \subseteq JobIds
    BY <1>0, <1>1 DEF Accounting, JobsTypeOK
  <2>4. /\ inflight' = inflight + 1 /\ scheduled' = scheduled \cup {j}
        /\ issued' = issued \cup {j} /\ answer' = "accepted"
        /\ UNCHANGED <<awaiting, clock, polled>>
    BY DEF Accept
  <2>5. /\ inflight' \in Nat /\ scheduled' \subseteq JobIds /\ issued' \subseteq JobIds
        /\ answer' \in Answers
    <3>1. inflight \in Nat /\ scheduled \subseteq JobIds /\ issued \subseteq JobIds
      BY DEF Accounting, JobsTypeOK
    <3> QED BY <2>4, <3>1 DEF Answers
  <2>6. /\ awaiting' \subseteq JobIds /\ clock' \in 0 .. MaxClock
        /\ polled' \in [JobIds -> JobStatuses \cup {"unseen", "gone"}]
    BY <2>4 DEF Accounting, JobsTypeOK
  <2> QED BY <2>2, <2>3, <2>5, <2>6 DEF JobsTypeOK
<1>4. IsFiniteSet(DOMAIN jobs') /\ Cardinality(DOMAIN jobs') <= MaxJobs
  <2>1. IsFiniteSet(Kept \cup {j}) /\ Cardinality(Kept \cup {j}) = Cardinality(Kept) + 1
    BY <1>0, <1>1, FS_AddElement
  <2> QED BY <1>0, <1>1, <2>1, SolveJobsAssumption DEF Accept, SolveJobsAssumption
<1>5. DOMAIN jobs' \subseteq issued' /\ (scheduled \cap awaiting = {})'
  BY <1>0, <1>1, <1>2 DEF Accept, Accounting, Active
<1>6. ActiveJobIsStored'
  BY <1>0, <1>1, <1>2 DEF Accept, Accounting, ActiveJobIsStored, Active, NewRecord
<1>7. InflightIsActiveCount'
  <2>1. Cardinality(Active \cup {j}) = Cardinality(Active) + 1
    BY <1>2, ActiveIsFinite, FS_AddElement
  <2> QED BY <1>2, <2>1, ActiveIsFinite, SolveJobsAssumption
        DEF Accept, Accounting, InflightIsActiveCount, SolveJobsAssumption
<1>8. StoreIsBoundedAndSettled' /\ (\A k \in DOMAIN jobs : jobs[k].created_at <= clock)'
  <2>1. \A k \in DOMAIN jobs' \ {j} : jobs'[k] = jobs[k] /\ k \in DOMAIN jobs
    BY <1>1 DEF Accept, Kept
  <2>2. jobs'[j].created_at = clock
    BY <1>1 DEF Accept, NewRecord
  <2>3. clock' = clock /\ clock \in Int
    BY DEF Accept, Accounting, JobsTypeOK
  <2> QED BY <1>2, <1>4, <2>1, <2>2, <2>3 DEF Accounting, StoreIsBoundedAndSettled
<1> QED BY <1>3, <1>4, <1>5, <1>6, <1>7, <1>8 DEF Accounting

(* Both requests that change nothing but the set of records kept.          *)
LEMMA EvictAccounting ==
  ASSUME Accounting, jobs' = EvictExpired,
         UNCHANGED <<inflight, scheduled, awaiting, issued, clock>>,
         polled' \in [JobIds -> JobStatuses \cup {"unseen", "gone"}], answer' \in Answers
  PROVE  Accounting'
<1>1. DOMAIN jobs' = Kept /\ \A k \in Kept : jobs'[k] = jobs[k]
  BY DEF EvictExpired
<1>2. Active' = Active
  BY DEF Active
<1>3. JobsTypeOK'
  BY <1>1, EvictionSparesActive DEF Accounting, JobsTypeOK
<1>4. IsFiniteSet(DOMAIN jobs') /\ Cardinality(DOMAIN jobs') <= MaxJobs
  BY <1>1, EvictionSparesActive, SolveJobsAssumption
     DEF Accounting, StoreIsBoundedAndSettled, SolveJobsAssumption
<1>5. DOMAIN jobs' \subseteq issued' /\ (scheduled \cap awaiting = {})'
  BY <1>1, EvictionSparesActive DEF Accounting
<1>6. ActiveJobIsStored'
  BY <1>1, EvictionSparesActive DEF Accounting, ActiveJobIsStored, Active
<1>7. InflightIsActiveCount'
  BY <1>2 DEF Accounting, InflightIsActiveCount
<1>8. StoreIsBoundedAndSettled' /\ (\A k \in DOMAIN jobs : jobs[k].created_at <= clock)'
  BY <1>1, <1>2, <1>4, EvictionSparesActive DEF Accounting, StoreIsBoundedAndSettled
<1> QED BY <1>3, <1>4, <1>5, <1>6, <1>7, <1>8 DEF Accounting

LEMMA GetAccounting ==
  ASSUME Accounting, NEW t \in Tenants, NEW j \in JobIds, GetSolveJob(t, j)
  PROVE  Accounting'
<1>1. polled' \in [JobIds -> JobStatuses \cup {"unseen", "gone"}]
  <2>1. j \in Kept => jobs[j].status \in JobStatuses
    BY EvictionSparesActive DEF Accounting, JobsTypeOK, SolveJobRecord
  <2> QED BY <2>1 DEF GetSolveJob, Accounting, JobsTypeOK
<1> QED BY <1>1, EvictAccounting DEF GetSolveJob, Answers

LEMMA RefuseAccounting ==
  ASSUME Accounting, Refuse
  PROVE  Accounting'
BY EvictAccounting DEF Refuse, Answers, Accounting, JobsTypeOK

LEMMA RunJobAccounting ==
  ASSUME Accounting, NEW j \in JobIds, RunJob(j)
  PROVE  Accounting'
<1>1. j \in scheduled /\ j \in DOMAIN jobs /\ j \notin awaiting
  BY DEF RunJob, Accounting, ActiveJobIsStored
<1>2. /\ scheduled' = scheduled \ {j}
      /\ awaiting' = awaiting \cup {j}
      /\ UNCHANGED <<inflight, issued, clock, polled>>
      /\ answer' = "none"
  BY <1>1 DEF RunJob
<1>3. /\ DOMAIN jobs' = DOMAIN jobs
      /\ jobs'[j] = [jobs[j] EXCEPT !.status = "running"]
      /\ \A k \in DOMAIN jobs \ {j} : jobs'[k] = jobs[k]
  BY <1>1 DEF RunJob
<1>4. Active' = Active /\ j \in Active
  BY <1>1, <1>2 DEF Active
<1>5. JobsTypeOK'
  <2>1. jobs'[j] \in SolveJobRecord
    BY <1>1, <1>3 DEF Accounting, JobsTypeOK, SolveJobRecord, JobStatuses
  <2>2. jobs' \in [DOMAIN jobs' -> SolveJobRecord]
    <3>1. jobs' = [k \in DOMAIN jobs |-> jobs'[k]]
      BY <1>3 DEF RunJob
    <3> QED BY <2>1, <1>3, <3>1 DEF Accounting, JobsTypeOK
  <2> QED BY <1>2, <1>3, <2>2 DEF Accounting, JobsTypeOK, Answers
<1>6. ActiveJobIsStored'
  <2>1. jobs'[j].status = "running"
    BY <1>1, <1>3 DEF Accounting, JobsTypeOK, SolveJobRecord
  <2> QED BY <1>1, <1>2, <1>3, <2>1 DEF Accounting, ActiveJobIsStored
<1>7. InflightIsActiveCount'
  BY <1>2, <1>4 DEF Accounting, InflightIsActiveCount
<1>8. StoreIsBoundedAndSettled'
  BY <1>2, <1>3, <1>4 DEF Accounting, StoreIsBoundedAndSettled
<1>9. (\A k \in DOMAIN jobs : jobs[k].created_at <= clock)'
  <2>1. jobs'[j].created_at = jobs[j].created_at
    BY <1>1, <1>3 DEF Accounting, JobsTypeOK, SolveJobRecord
  <2> QED BY <1>2, <1>3, <2>1 DEF Accounting
<1>10. IsFiniteSet(DOMAIN jobs') /\ DOMAIN jobs' \subseteq issued'
  BY <1>2, <1>3 DEF Accounting
<1>11. (scheduled \cap awaiting = {})'
  BY <1>2 DEF Accounting
<1> QED BY <1>5, <1>6, <1>7, <1>8, <1>9, <1>10, <1>11 DEF Accounting

LEMMA SettleAccounting ==
  ASSUME Accounting, NEW j \in JobIds, SettleJob(j)
  PROVE  Accounting'
<1>1. j \in awaiting /\ j \in DOMAIN jobs /\ j \notin scheduled
  BY DEF SettleJob, Accounting, ActiveJobIsStored
<1>2. PICK ok \in BOOLEAN :
        jobs' = [k \in DOMAIN jobs |-> IF k = j THEN Settled(jobs[k], ok) ELSE jobs[k]]
  BY DEF SettleJob
<1>3. /\ DOMAIN jobs' = DOMAIN jobs
      /\ jobs'[j] = Settled(jobs[j], ok)
      /\ \A k \in DOMAIN jobs \ {j} : jobs'[k] = jobs[k]
  BY <1>1, <1>2
<1>4. Active' = Active \ {j} /\ j \in Active
  BY <1>1 DEF Active, SettleJob
<1>5. jobs[j] \in SolveJobRecord /\ clock \in Nat /\ inflight \in Nat
  BY <1>1 DEF Accounting, JobsTypeOK
<1>6. /\ jobs'[j] \in SolveJobRecord
      /\ jobs'[j].created_at = jobs[j].created_at
      /\ jobs'[j].completed_at = clock
      /\ jobs'[j].result = ok
      /\ jobs'[j].error = ~ ok
      /\ jobs'[j].status = IF ok THEN "succeeded" ELSE "failed"
  BY <1>3, <1>5 DEF Settled, SolveJobRecord, JobStatuses
<1>7. JobsTypeOK'
  <2>1. jobs' \in [DOMAIN jobs' -> SolveJobRecord]
    BY <1>2, <1>3, <1>6 DEF Accounting, JobsTypeOK
  <2>2. /\ awaiting' = awaiting \ {j} /\ inflight' \in Nat /\ answer' = "none"
        /\ UNCHANGED <<scheduled, issued, clock, polled>>
    BY <1>5 DEF SettleJob, Decremented
  <2> QED BY <1>3, <2>1, <2>2 DEF Accounting, JobsTypeOK, Answers
<1>8. ActiveJobIsStored'
  BY <1>1, <1>3 DEF SettleJob, Accounting, ActiveJobIsStored
<1>9. InflightIsActiveCount'
  <2>1. Cardinality(Active') = Cardinality(Active) - 1
    BY <1>4, ActiveIsFinite, FS_RemoveElement
  <2>2. Cardinality(Active) # 0
    BY <1>4, ActiveIsFinite, FS_EmptySet
  <2> QED BY <2>1, <2>2, ActiveIsFinite, SolveJobsAssumption
        DEF Accounting, InflightIsActiveCount, SettleJob, Decremented, SolveJobsAssumption
<1>10. StoreIsBoundedAndSettled'
  <2> SUFFICES ASSUME NEW k \in DOMAIN jobs \ Active'
               PROVE  /\ jobs'[k].status = IF jobs'[k].result THEN "succeeded" ELSE "failed"
                      /\ jobs'[k].result # jobs'[k].error
                      /\ jobs'[k].completed_at \in jobs'[k].created_at .. clock
    BY <1>3 DEF SettleJob, Accounting, StoreIsBoundedAndSettled
  <2>1. CASE k = j
    BY <1>1, <1>5, <1>6, <2>1 DEF Accounting, SolveJobRecord
  <2>2. CASE k # j
    BY <1>3, <1>4, <2>2 DEF Accounting, StoreIsBoundedAndSettled
  <2> QED BY <2>1, <2>2
<1>11. (\A k \in DOMAIN jobs : jobs[k].created_at <= clock)'
  BY <1>3, <1>6 DEF Accounting, SettleJob
<1>12. IsFiniteSet(DOMAIN jobs') /\ DOMAIN jobs' \subseteq issued'
       /\ (scheduled \cap awaiting = {})'
  BY <1>3 DEF Accounting, SettleJob
<1> QED BY <1>7, <1>8, <1>9, <1>10, <1>11, <1>12 DEF Accounting

LEMMA TickAccounting ==
  ASSUME Accounting, Tick
  PROVE  Accounting'
<1>1. UNCHANGED <<jobs, inflight, scheduled, awaiting, issued, polled>> /\ clock' = clock + 1
  BY DEF Tick
<1>2. JobsTypeOK'
  <2>1. clock' \in 0 .. MaxClock /\ answer' \in Answers
    <3>1. clock \in 0 .. MaxClock
      BY DEF Accounting, JobsTypeOK
    <3> QED BY <3>1, SolveJobsAssumption DEF Tick, Answers, SolveJobsAssumption
  <2> QED BY <1>1, <2>1 DEF Accounting, JobsTypeOK
<1>3. ActiveJobIsStored' /\ InflightIsActiveCount'
  <2>1. Active' = Active
    BY <1>1 DEF Active
  <2>2. ActiveJobIsStored'
    BY <1>1 DEF Accounting, ActiveJobIsStored
  <2>3. InflightIsActiveCount'
    BY <1>1, <2>1 DEF Accounting, InflightIsActiveCount
  <2> QED BY <2>2, <2>3
<1>4. StoreIsBoundedAndSettled' /\ (\A k \in DOMAIN jobs : jobs[k].created_at <= clock)'
  <2>1. clock \in Int /\ \A k \in DOMAIN jobs : jobs[k] \in SolveJobRecord
    BY DEF Accounting, JobsTypeOK
  <2>2. \A k \in DOMAIN jobs : jobs[k].created_at \in Int /\ jobs[k].completed_at \in Int
    BY <2>1 DEF SolveJobRecord, NoTime
  <2>3. Active' = Active /\ DOMAIN jobs' = DOMAIN jobs
    BY <1>1 DEF Active
  <2>4. \A k \in DOMAIN jobs \ Active : jobs[k].completed_at \in jobs[k].created_at .. clock + 1
    BY <2>1, <2>2 DEF Accounting, StoreIsBoundedAndSettled
  <2>5. StoreIsBoundedAndSettled'
    <3>1. StoreIsBoundedAndSettled
      BY DEF Accounting
    <3> QED BY <1>1, <2>3, <2>4, <3>1 DEF StoreIsBoundedAndSettled
  <2>6. \A k \in DOMAIN jobs : jobs[k].created_at <= clock
    BY DEF Accounting
  <2>7. (\A k \in DOMAIN jobs : jobs[k].created_at <= clock)'
    BY <1>1, <2>1, <2>2, <2>6
  <2> QED BY <2>5, <2>7
<1> QED BY <1>1, <1>2, <1>3, <1>4 DEF Accounting

LEMMA StepAccounting == Accounting /\ [JobsNext]_jobsVars => Accounting'
<1> SUFFICES ASSUME Accounting, [JobsNext]_jobsVars PROVE Accounting'
  OBVIOUS
<1>1. CASE \E t \in Tenants, j \in JobIds : Accept(t, j) \/ GetSolveJob(t, j)
  BY <1>1, AcceptAccounting, GetAccounting
<1>2. CASE Refuse
  BY <1>2, RefuseAccounting
<1>3. CASE \E j \in JobIds : RunJob(j) \/ SettleJob(j)
  BY <1>3, RunJobAccounting, SettleAccounting
<1>4. CASE Tick
  BY <1>4, TickAccounting
<1>5. CASE UNCHANGED jobsVars
  BY <1>5 DEF jobsVars, Accounting, JobsTypeOK, ActiveJobIsStored, InflightIsActiveCount,
              StoreIsBoundedAndSettled, Active
<1> QED BY <1>1, <1>2, <1>3, <1>4, <1>5 DEF JobsNext

(* The strengthened invariant holds in every reachable state.              *)
THEOREM AccountingHolds == JobsSpec => []Accounting
<1> QED BY InitAccounting, StepAccounting, PTL DEF JobsSpec

(* Type correctness of the store.                                          *)
THEOREM TypeCorrect == JobsSpec => []JobsTypeOK
<1>1. Accounting => JobsTypeOK
  BY DEF Accounting
<1> QED BY <1>1, AccountingHolds, PTL

(* A queued or running job is never evicted, whatever the ttl and however  *)
(* long it runs, so runJob's early return is never taken.                  *)
THEOREM ActiveJobsAreStored == JobsSpec => []ActiveJobIsStored
<1>1. Accounting => ActiveJobIsStored
  BY DEF Accounting
<1> QED BY <1>1, AccountingHolds, PTL

(* The slot counter is exact: no interleaving of requests, callbacks,      *)
(* settlements and evictions leaks a slot or frees one twice, and no more  *)
(* than maxInflight jobs are ever active.                                  *)
THEOREM SlotsAreExact == JobsSpec => []InflightIsActiveCount
<1>1. Accounting => InflightIsActiveCount
  BY DEF Accounting
<1> QED BY <1>1, AccountingHolds, PTL

(* A refusal rests on the map after eviction: what it holds is then active *)
(* or too young to go, and the counter it reads is the number of jobs.     *)
LEMMA RefuseIsJustified ==
  ASSUME Accounting, Refuse
  PROVE  RefusalIsJustified'
<1>1. /\ jobs' = EvictExpired /\ DOMAIN jobs' = Kept
      /\ \A j \in Kept : jobs'[j] = jobs[j]
      /\ UNCHANGED <<inflight, scheduled, awaiting, clock>>
  BY DEF Refuse, EvictExpired
<1>2. Active' = Active /\ Cardinality(DOMAIN jobs') = Cardinality(Kept)
  BY <1>1 DEF Active
<1>3. CASE inflight >= MaxInflight /\ answer' = "inflight limit"
  BY <1>2, <1>3 DEF Accounting, InflightIsActiveCount, RefusalIsJustified
<1>4. CASE Cardinality(Kept) >= MaxJobs /\ answer' = "store capacity"
  <2>1. Cardinality(DOMAIN jobs') = MaxJobs
    <3>1. Cardinality(DOMAIN jobs) <= MaxJobs
      BY DEF Accounting, StoreIsBoundedAndSettled
    <3>2. /\ Cardinality(Kept) \in Nat /\ Cardinality(DOMAIN jobs) \in Nat
          /\ Cardinality(Kept) <= Cardinality(DOMAIN jobs)
      BY EvictionSparesActive
    <3>3. Cardinality(Kept) = MaxJobs
      <4>1. \A x, y, z \in Nat : x >= z /\ x <= y /\ y <= z => x = z
        OBVIOUS
      <4>2. MaxJobs \in Nat /\ Cardinality(Kept) >= MaxJobs
        BY <1>4, SolveJobsAssumption DEF SolveJobsAssumption
      <4> QED BY <3>1, <3>2, <4>1, <4>2
    <3> QED BY <1>2, <3>3
  <2>2. ASSUME NEW j \in DOMAIN jobs' \ Active' PROVE ~ Expired(jobs[j]) /\ jobs'[j] = jobs[j]
    <3>1. j \in Kept /\ j \in DOMAIN jobs \ Active
      BY <1>1, <1>2, EvictionSparesActive
    <3>2. jobs[j].status \notin Unsettled
      BY <3>1 DEF Accounting, StoreIsBoundedAndSettled, Unsettled
    <3> QED BY <1>1, <3>1, <3>2 DEF Kept
  <2>3. \A j \in DOMAIN jobs' \ Active' : ~ Expired(jobs[j])'
    BY <1>1, <2>2 DEF Expired, Anchor
  <2> QED BY <1>4, <2>1, <2>3 DEF RefusalIsJustified
<1> QED BY <1>3, <1>4 DEF Refuse

(* No 429 is the work of a record that could have been evicted, or of a    *)
(* slot that is free.                                                      *)
THEOREM RefusalsAreJustified == JobsSpec => []RefusalIsJustified
<1>1. JobsInit => RefusalIsJustified
  BY DEF JobsInit, RefusalIsJustified
<1>2. Accounting /\ RefusalIsJustified /\ [JobsNext]_jobsVars => RefusalIsJustified'
  <2> SUFFICES ASSUME Accounting, RefusalIsJustified, [JobsNext]_jobsVars PROVE RefusalIsJustified'
    OBVIOUS
  <2>1. CASE Refuse
    BY <2>1, RefuseIsJustified
  <2>2. CASE \E t \in Tenants, j \in JobIds : Accept(t, j) \/ GetSolveJob(t, j)
    BY <2>2 DEF Accept, GetSolveJob, RefusalIsJustified
  <2>3. CASE \E j \in JobIds : RunJob(j) \/ SettleJob(j)
    BY <2>3 DEF RunJob, SettleJob, RefusalIsJustified
  <2>4. CASE Tick
    BY <2>4 DEF Tick, RefusalIsJustified
  <2>5. CASE UNCHANGED jobsVars
    BY <2>5 DEF jobsVars, RefusalIsJustified, Active, Expired, Anchor
  <2> QED BY <2>1, <2>2, <2>3, <2>4, <2>5 DEF JobsNext
<1> QED BY <1>1, <1>2, AccountingHolds, PTL DEF JobsSpec

(* The slot counter is exact and every 429 is justified.                   *)
THEOREM CapacityExact == JobsSpec => []CapacityIsExact
<1>1. InflightIsActiveCount /\ RefusalIsJustified => CapacityIsExact
  BY DEF CapacityIsExact
<1> QED BY <1>1, SlotsAreExact, RefusalsAreJustified, PTL

(* The map is bounded, and every record that is not active is settled with *)
(* one outcome and a completion time the eviction can measure from.        *)
THEOREM StoreBounded == JobsSpec => []StoreIsBoundedAndSettled
<1>1. Accounting => StoreIsBoundedAndSettled
  BY DEF Accounting
<1> QED BY <1>1, AccountingHolds, PTL

(* What each client was told last is still true of its record, or older:   *)
(* an id that was gone never comes back, a final status never changes.     *)
PollsAreBehind ==
  \A j \in JobIds :
    /\ j \notin issued => polled[j] = "unseen"
    /\ polled[j] = "gone" => j \notin DOMAIN jobs
    /\ j \in DOMAIN jobs =>
         /\ polled[j] = "running" => jobs[j].status # "pending"
         /\ polled[j] \in {"succeeded", "failed"} => jobs[j].status = polled[j]

Forward == \A j \in JobIds : polled'[j] = polled[j] \/ Rank(polled'[j]) > Rank(polled[j])

LEMMA RankValues ==
  /\ Rank("unseen") = 0 /\ Rank("pending") = 1 /\ Rank("running") = 2
  /\ Rank("succeeded") = 3 /\ Rank("failed") = 3 /\ Rank("gone") = 4
BY DEF Rank

(* An answer to a poll moves forward, and is behind its record at once.    *)
LEMMA GetMovesForward ==
  ASSUME Accounting, PollsAreBehind, NEW t \in Tenants, NEW j \in JobIds, GetSolveJob(t, j)
  PROVE  Forward /\ PollsAreBehind'
<1>1. /\ DOMAIN jobs' = Kept /\ \A k \in Kept : jobs'[k] = jobs[k] /\ k \in DOMAIN jobs
      /\ issued' = issued /\ j \in issued
  BY EvictionSparesActive DEF GetSolveJob, EvictExpired
<1>2. polled \in [JobIds -> JobStatuses \cup {"unseen", "gone"}]
  BY DEF Accounting, JobsTypeOK
<1>3. CASE UNCHANGED polled
  BY <1>1, <1>3 DEF Forward, PollsAreBehind
<1>4. CASE j \notin Kept /\ polled' = [polled EXCEPT ![j] = "gone"]
  <2>1. polled'[j] = "gone" /\ \A k \in JobIds \ {j} : polled'[k] = polled[k]
    BY <1>2, <1>4
  <2>2. Forward
    BY <1>2, <2>1, RankValues DEF Forward, JobStatuses
  <2>3. PollsAreBehind'
    BY <1>1, <1>4, <2>1 DEF PollsAreBehind
  <2> QED BY <2>2, <2>3
<1>5. CASE j \in Kept /\ polled' = [polled EXCEPT ![j] = jobs[j].status]
  <2>1. polled'[j] = jobs[j].status /\ \A k \in JobIds \ {j} : polled'[k] = polled[k]
    BY <1>2, <1>5
  <2>2. jobs[j].status \in JobStatuses /\ j \in DOMAIN jobs
    BY <1>1, <1>5 DEF Accounting, JobsTypeOK, SolveJobRecord
  <2>3. Forward
    BY <1>2, <2>1, <2>2, RankValues DEF Forward, PollsAreBehind, JobStatuses
  <2>4. PollsAreBehind'
    BY <1>1, <1>5, <2>1, <2>2 DEF PollsAreBehind, JobStatuses
  <2> QED BY <2>3, <2>4
<1> QED BY <1>3, <1>4, <1>5 DEF GetSolveJob

(* Every other step leaves the answers alone and moves records forward.    *)
LEMMA OthersStayBehind ==
  ASSUME Accounting, PollsAreBehind,
         \/ \E t \in Tenants, j \in JobIds : Accept(t, j)
         \/ Refuse
         \/ \E j \in JobIds : RunJob(j) \/ SettleJob(j)
         \/ Tick \/ UNCHANGED jobsVars
  PROVE  Forward /\ PollsAreBehind'
<1>1. polled' = polled
  BY DEF Accept, Refuse, RunJob, SettleJob, Tick, jobsVars
<1>2. CASE \E t \in Tenants, j \in JobIds : Accept(t, j)
  <2>1. PICK t \in Tenants, j \in JobIds : Accept(t, j)
    BY <1>2
  <2>2. /\ issued' = issued \cup {j} /\ j \notin issued
        /\ DOMAIN jobs' = Kept \cup {j}
        /\ \A k \in Kept \ {j} : jobs'[k] = jobs[k] /\ k \in DOMAIN jobs
    BY <2>1, EvictionSparesActive DEF Accept
  <2> QED BY <1>1, <2>2 DEF Forward, PollsAreBehind
<1>3. CASE Refuse
  <2>1. /\ DOMAIN jobs' = Kept /\ \A k \in Kept : jobs'[k] = jobs[k] /\ k \in DOMAIN jobs
        /\ issued' = issued
    BY <1>3, EvictionSparesActive DEF Refuse, EvictExpired
  <2> QED BY <1>1, <2>1 DEF Forward, PollsAreBehind
<1>4. CASE \E j \in JobIds : RunJob(j) \/ SettleJob(j)
  <2>1. PICK j \in JobIds : RunJob(j) \/ SettleJob(j)
    BY <1>4
  <2>2. j \in DOMAIN jobs /\ jobs[j] \in SolveJobRecord /\ jobs[j].status \in Unsettled
    BY <2>1 DEF RunJob, SettleJob, Accounting, JobsTypeOK, ActiveJobIsStored, Unsettled
  <2>3. /\ DOMAIN jobs' = DOMAIN jobs /\ issued' = issued
        /\ \A k \in DOMAIN jobs \ {j} : jobs'[k] = jobs[k]
    BY <2>1 DEF RunJob, SettleJob
  <2>4. jobs'[j].status # "pending"
    <3>1. CASE RunJob(j)
      <4>1. jobs'[j] = [jobs[j] EXCEPT !.status = "running"]
        BY <2>2, <3>1 DEF RunJob
      <4> QED BY <2>2, <4>1 DEF SolveJobRecord
    <3>2. CASE SettleJob(j)
      <4>1. PICK ok \in BOOLEAN : jobs'[j] = Settled(jobs[j], ok)
        BY <2>2, <3>2 DEF SettleJob
      <4> QED BY <2>2, <4>1 DEF SolveJobRecord, Settled
    <3> QED BY <2>1, <3>1, <3>2
  <2>5. polled[j] \notin {"succeeded", "failed", "gone"}
    BY <2>2 DEF PollsAreBehind, Unsettled
  <2> QED BY <1>1, <2>3, <2>4, <2>5 DEF Forward, PollsAreBehind
<1>5. CASE Tick \/ UNCHANGED jobsVars
  BY <1>1, <1>5 DEF Tick, jobsVars, Forward, PollsAreBehind
<1> QED BY <1>2, <1>3, <1>4, <1>5

(* What a client polling one job is told only moves forward, through any   *)
(* interleaving of evictions, callbacks and other requests.                *)
THEOREM PollsOnlyMoveForward == JobsSpec => PollsMoveForward
<1>1. JobsInit => PollsAreBehind
  BY DEF JobsInit, PollsAreBehind
<1>2. Accounting /\ PollsAreBehind /\ [JobsNext]_jobsVars => Forward /\ PollsAreBehind'
  BY GetMovesForward, OthersStayBehind DEF JobsNext
<1>3. Accounting /\ PollsAreBehind /\ [JobsNext]_jobsVars
        => [\A j \in JobIds : polled'[j] = polled[j] \/ Rank(polled'[j]) > Rank(polled[j])]_jobsVars
  BY <1>2 DEF Forward
<1> QED BY <1>1, <1>2, <1>3, AccountingHolds, PTL DEF JobsSpec, PollsMoveForward

-----------------------------------------------------------------------------
(* One call of the Python bridge.                                          *)

(* BridgeTypeOK in two parts: the provers do not mix Booleans with the rest. *)
Words ==
  /\ stage \in Stages
  /\ child \in {"none", "running", "exited", "closed"}
  /\ signals \subseteq {"SIGTERM", "SIGKILL"}
  /\ exit \in {"none", "success", "failure", "signal"}
  /\ file \in {"none", "json", "not json", "too large"}
  /\ timer \in Timers \cup {"cleared"}
  /\ escalation \in Timers
  /\ result \in BridgeOutcomes \cup {Pending}

Flags ==
  /\ pipesHeld \in BOOLEAN /\ stubborn \in BOOLEAN /\ saysOom \in BOOLEAN /\ tempDir \in BOOLEAN
  /\ timedOut \in BOOLEAN /\ outputLimitExceeded \in BOOLEAN /\ stdinError \in BOOLEAN

LEMMA TypeParts == BridgeTypeOK <=> Words /\ Flags
BY Zenon DEF BridgeTypeOK, Words, Flags

EndedWell ==
  /\ child = "closed" /\ exit = "success"
  /\ ~ timedOut /\ ~ outputLimitExceeded /\ ~ stdinError

Places ==
  /\ stage = "mkdtemp" => child = "none" /\ timer = "off" /\ escalation = "off"
  /\ stage = "await close" => child \in {"running", "exited"}
  /\ stage \in {"stat", "readFile"} => EndedWell
  /\ stage \in {"rm", "settled"} => child \in {"none", "closed"}
  /\ child = "closed" => timer # "armed"
  /\ child \in {"none", "closed"} => ~ pipesHeld
  /\ stage \in {"rm", "settled"} <=> result # Pending

Responses == result = "response" => EndedWell /\ file = "json"

Kills ==
  /\ KillIsLastResort
  /\ escalation = "armed" => timedOut /\ (Alive => "SIGTERM" \in signals)

BridgeInv == Words /\ Flags /\ Places /\ Responses /\ TempDirLifetime /\ Kills

LEMMA PendingIsNoOutcome == Pending \notin BridgeOutcomes
BY DEF Pending, BridgeOutcomes

LEMMA InitBridge == BridgeInit => BridgeInv
<1> SUFFICES ASSUME BridgeInit PROVE BridgeInv
  OBVIOUS
<1> USE DEF BridgeInit
<1>1. Words
  BY DEF Words, Stages, Timers
<1>flags. Flags
  BY Zenon DEF Flags
<1>2. Places /\ Responses
  BY DEF Places, Responses, Pending
<1>3. TempDirLifetime /\ Kills
  BY DEF TempDirLifetime, Kills, KillIsLastResort
<1> QED BY <1>flags, <1>1, <1>2, <1>3 DEF BridgeInv

(* The segments of the call before its child has closed its pipes. *)
LEMMA StartStep ==
  ASSUME BridgeInv, MkdtempFails \/ Spawn \/ SpawnFails \/ CloseWithoutChild
  PROVE  BridgeInv'
<1> USE DEF BridgeInv, process, flags
<1>1. CASE MkdtempFails
  <2> USE <1>1 DEF MkdtempFails
  <2>1. Words'
    BY DEF Words, Stages, BridgeOutcomes
  <2>flags. Flags'
    BY Zenon DEF Flags
  <2>2. Places' /\ Responses'
    BY DEF Places, Responses, EndedWell, Pending
  <2>3. TempDirLifetime' /\ Kills'
    BY DEF TempDirLifetime, Kills, KillIsLastResort, Alive
  <2> QED BY <2>flags, <2>1, <2>2, <2>3
<1>2. CASE Spawn
  <2> USE <1>2 DEF Spawn
  <2>1. Words'
    BY PythonBridgeAssumption DEF Words, Stages, Timers, PythonBridgeAssumption
  <2>flags. Flags'
    BY PythonBridgeAssumption, Zenon DEF Flags
  <2>2. Places' /\ Responses'
    BY DEF Places, Responses, EndedWell, Pending
  <2>3. TempDirLifetime' /\ Kills'
    BY DEF TempDirLifetime, Places, Kills, KillIsLastResort
  <2> QED BY <2>flags, <2>1, <2>2, <2>3
<1>3. CASE SpawnFails
  <2> USE <1>3 DEF SpawnFails
  <2>1. Words'
    BY PythonBridgeAssumption DEF Words, Stages, Timers, BridgeOutcomes, PythonBridgeAssumption
  <2>flags. Flags'
    BY PythonBridgeAssumption, Zenon DEF Flags
  <2>2. Places' /\ Responses'
    BY DEF Places, Responses, EndedWell, Pending
  <2>3. TempDirLifetime' /\ Kills'
    BY DEF TempDirLifetime, Kills, KillIsLastResort, Alive
  <2> QED BY <2>flags, <2>1, <2>2, <2>3
<1>4. CASE CloseWithoutChild
  <2> USE <1>4 DEF CloseWithoutChild
  <2>1. Words'
    BY DEF Words
  <2>flags. Flags'
    BY Zenon DEF Flags
  <2>2. Places' /\ Responses'
    BY DEF Places, Responses, EndedWell
  <2>3. TempDirLifetime' /\ Kills'
    BY DEF TempDirLifetime, Kills, KillIsLastResort, Alive
  <2> QED BY <2>flags, <2>1, <2>2, <2>3
<1> QED BY <1>1, <1>2, <1>3, <1>4

(* The close event decides whether the response file is looked at. *)
LEMMA CloseStep == ASSUME BridgeInv, Close PROVE BridgeInv'
<1> USE DEF BridgeInv, flags
<1>1. /\ child = "exited" /\ child' = "closed" /\ stage = "await close" /\ ~ pipesHeld
      /\ timer' # "armed" /\ timer' \in Timers \cup {"cleared"}
      /\ UNCHANGED <<pipesHeld, stubborn, signals, exit, file, saysOom, escalation, flags, tempDir>>
  BY DEF Close, Words, Timers
<1>2. \/ stage' = "rm" /\ result' \in {"bridge timeout", "output_limit", "oom", "bridge"}
      \/ /\ stage' = "stat" /\ result' = result
         /\ ~ timedOut /\ ~ outputLimitExceeded /\ ~ stdinError /\ exit = "success"
  BY DEF Close, Words, DetectBridgeErrorCode
<1>3. result = Pending
  BY <1>1 DEF Places, Words
<1>4. Words'
  BY <1>1, <1>2 DEF Words, Stages, BridgeOutcomes
<1>flags. Flags'
  BY <1>1, <1>2, Zenon DEF Flags
<1>5. Places'
  BY <1>1, <1>2, <1>3 DEF Places, EndedWell, Pending
<1>6. Responses'
  BY <1>1, <1>2, <1>3 DEF Responses, Pending
<1>7. TempDirLifetime' /\ Kills'
  BY <1>1, <1>2 DEF TempDirLifetime, Kills, KillIsLastResort, Alive
<1> QED BY <1>flags, <1>4, <1>5, <1>6, <1>7

(* Reading the response and removing the directory. *)
LEMMA ReadStep == ASSUME BridgeInv, Stat \/ ReadFile \/ Rm PROVE BridgeInv'
<1> USE DEF BridgeInv, process, flags
<1>1. CASE Stat
  <2> USE <1>1 DEF Stat
  <2>1. Words'
    BY DEF Words, Stages, BridgeOutcomes
  <2>flags. Flags'
    BY Zenon DEF Flags
  <2>2. Places' /\ Responses'
    BY DEF Places, Responses, EndedWell, Pending
  <2>3. TempDirLifetime' /\ Kills'
    BY DEF TempDirLifetime, Kills, KillIsLastResort, Alive
  <2> QED BY <2>flags, <2>1, <2>2, <2>3
<1>2. CASE ReadFile
  <2> USE <1>2 DEF ReadFile
  <2>1. Words'
    BY DEF Words, Stages, BridgeOutcomes
  <2>flags. Flags'
    BY Zenon DEF Flags
  <2>2. Places' /\ Responses'
    <3>1. Places'
      BY DEF Places, EndedWell, Pending
    <3>2. EndedWell /\ EndedWell'
      BY DEF Places, EndedWell
    <3>3. Responses'
      BY <3>2 DEF Responses
    <3> QED BY <3>1, <3>3
  <2>3. TempDirLifetime' /\ Kills'
    BY DEF TempDirLifetime, Kills, KillIsLastResort, Alive
  <2> QED BY <2>flags, <2>1, <2>2, <2>3
<1>3. CASE Rm
  <2> USE <1>3 DEF Rm
  <2>1. Words'
    <3>1. stage' \in Stages
      BY DEF Stages
    <3>2. result' \in BridgeOutcomes \cup {Pending}
      BY DEF Words, BridgeOutcomes
    <3> QED BY <3>1, <3>2 DEF Words
  <2>flags. Flags'
    BY Zenon DEF Flags
  <2>2. Places' /\ Responses'
    BY DEF Places, Responses, EndedWell, Pending
  <2>3. TempDirLifetime' /\ Kills'
    BY DEF TempDirLifetime, Kills, KillIsLastResort, Alive
  <2> QED BY <2>flags, <2>1, <2>2, <2>3
<1> QED BY <1>1, <1>2, <1>3

(* A signal reaches a child that is running, and nobody else. *)
LEMMA SignalFacts ==
  ASSUME Words, NEW signal \in {"SIGTERM", "SIGKILL"}, Send(signal)
  PROVE  /\ signals' \subseteq {"SIGTERM", "SIGKILL"}
         /\ signals \subseteq signals'
         /\ signals' \subseteq signals \cup {signal}
         /\ Alive => signal \in signals'
         /\ ~ Alive => signals' = signals
BY DEF Words, Send, Alive

LEMMA TimerStep ==
  ASSUME BridgeInv, TimeoutFires \/ EscalationFires PROVE BridgeInv'
<1> USE DEF BridgeInv, flags
<1>1. CASE TimeoutFires
  <2> USE <1>1 DEF TimeoutFires
  <2>1. /\ signals' \subseteq {"SIGTERM", "SIGKILL"} /\ signals \subseteq signals'
        /\ signals' \subseteq signals \cup {"SIGTERM"}
        /\ Alive => "SIGTERM" \in signals'
    BY SignalFacts
  <2>2. Words'
    BY <2>1 DEF Words, Timers
  <2>flags. Flags'
    BY <2>1, Zenon DEF Flags
  <2>3. ~ EndedWell /\ child # "closed"
    BY DEF Places, EndedWell
  <2>4. Places' /\ Responses'
    BY <2>3 DEF Places, Responses, EndedWell
  <2>5. TempDirLifetime'
    BY DEF TempDirLifetime
  <2>6. Kills'
    BY <2>1 DEF Kills, KillIsLastResort, Alive
  <2> QED BY <2>flags, <2>2, <2>4, <2>5, <2>6
<1>2. CASE EscalationFires
  <2> USE <1>2 DEF EscalationFires
  <2>1. /\ signals' \subseteq {"SIGTERM", "SIGKILL"} /\ signals \subseteq signals'
        /\ ~ Alive => signals' = signals
    BY SignalFacts
  <2>2. Words'
    BY <2>1 DEF Words, Timers
  <2>flags. Flags'
    BY <2>1, Zenon DEF Flags
  <2>3. Places' /\ Responses'
    BY DEF Places, Responses, EndedWell
  <2>4. TempDirLifetime'
    BY DEF TempDirLifetime
  <2>5. "SIGKILL" \in signals' => "SIGTERM" \in signals' /\ timedOut'
    BY <2>1 DEF Kills, KillIsLastResort
  <2> QED BY <2>flags, <2>2, <2>3, <2>4, <2>5 DEF Kills, KillIsLastResort
<1> QED BY <1>1, <1>2

LEMMA StreamStep ==
  ASSUME BridgeInv, OutputOverflows \/ StdinFails PROVE BridgeInv'
<1> USE DEF BridgeInv, process
<1>1. CASE OutputOverflows
  <2> USE <1>1 DEF OutputOverflows
  <2>1. /\ signals' \subseteq {"SIGTERM", "SIGKILL"} /\ signals \subseteq signals'
        /\ signals' \subseteq signals \cup {"SIGTERM"}
    BY SignalFacts
  <2>2. Words'
    BY <2>1 DEF Words
  <2>flags. Flags'
    BY <2>1, Zenon DEF Flags
  <2>3. Places' /\ Responses'
    BY DEF Places, Responses, EndedWell, Pending
  <2>4. TempDirLifetime' /\ Kills'
    BY <2>1 DEF TempDirLifetime, Kills, KillIsLastResort, Alive
  <2> QED BY <2>flags, <2>2, <2>3, <2>4
<1>2. CASE StdinFails
  <2> USE <1>2 DEF StdinFails
  <2>1. Words'
    BY DEF Words
  <2>flags. Flags'
    BY Zenon DEF Flags
  <2>2. Places' /\ Responses'
    BY DEF Places, Responses, EndedWell, Pending
  <2>3. TempDirLifetime' /\ Kills'
    BY DEF TempDirLifetime, Kills, KillIsLastResort, Alive
  <2> QED BY <2>flags, <2>1, <2>2, <2>3
<1> QED BY <1>1, <1>2

LEMMA ChildStep ==
  ASSUME BridgeInv, WritesResponse \/ ExitsByItself \/ DiesOfSignal PROVE BridgeInv'
<1> USE DEF BridgeInv, flags
<1>1. CASE WritesResponse
  <2> USE <1>1 DEF WritesResponse, Alive
  <2>1. Words'
    BY DEF Words
  <2>flags. Flags'
    BY Zenon DEF Flags
  <2>2. Places' /\ Responses'
    BY DEF Places, Responses, EndedWell
  <2>3. TempDirLifetime' /\ Kills'
    BY DEF TempDirLifetime, Kills, KillIsLastResort
  <2> QED BY <2>flags, <2>1, <2>2, <2>3
<1>2. ASSUME NEW how \in {"success", "failure", "signal"}, Exits(how) PROVE BridgeInv'
  <2> USE <1>2 DEF Exits, Alive
  <2>1. Words'
    BY DEF Words
  <2>flags. Flags'
    BY Zenon DEF Flags
  <2>2. Places' /\ Responses'
    BY DEF Places, Responses, EndedWell
  <2>3. TempDirLifetime' /\ Kills'
    BY DEF TempDirLifetime, Kills, KillIsLastResort
  <2> QED BY <2>flags, <2>1, <2>2, <2>3
<1> QED BY <1>1, <1>2 DEF ExitsByItself, DiesOfSignal

(* Only a child that runs starts workers.                                  *)
LEMMA WorkersStep ==
  ASSUME BridgeInv, StartsWorkers \/ WorkersEnd PROVE BridgeInv'
<1> USE DEF BridgeInv, flags
<1>1. /\ UNCHANGED <<stage, child, stubborn, signals, exit, file, saysOom, timer, escalation,
                     flags, tempDir, result>>
      /\ pipesHeld' \in BOOLEAN
      /\ child \in {"none", "closed"} => ~ pipesHeld'
  BY DEF StartsWorkers, WorkersEnd, Alive
<1>2. Words'
  BY <1>1 DEF Words
<1>flags. Flags'
  BY <1>1, Zenon DEF Flags
<1>3. Places' /\ Responses'
  BY <1>1 DEF Places, Responses, EndedWell
<1>4. TempDirLifetime' /\ Kills'
  BY <1>1 DEF TempDirLifetime, Kills, KillIsLastResort, Alive
<1> QED BY <1>flags, <1>2, <1>3, <1>4

LEMMA StutterStep == ASSUME BridgeInv, UNCHANGED bridgeVars PROVE BridgeInv'
<1> USE DEF BridgeInv, bridgeVars
<1>1. Words'
  BY DEF Words
<1>flags. Flags'
  BY Zenon DEF Flags
<1>2. Places' /\ Responses'
  BY DEF Places, Responses, EndedWell
<1>3. TempDirLifetime' /\ Kills'
  BY DEF TempDirLifetime, Kills, KillIsLastResort, Alive
<1> QED BY <1>flags, <1>1, <1>2, <1>3

LEMMA BridgeStep == BridgeInv /\ [BridgeNext]_bridgeVars => BridgeInv'
BY StartStep, CloseStep, ReadStep, TimerStep, StreamStep, ChildStep, WorkersStep, StutterStep DEF BridgeNext

(* What is true at every point of a call, the basis of the theorems below. *)
THEOREM BridgeIsKept == BridgeSpec => []BridgeInv
BY InitBridge, BridgeStep, PTL DEF BridgeSpec

(* Type correctness of the bridge's state.                                 *)
THEOREM BridgeTypes == BridgeSpec => []BridgeTypeOK
<1>1. BridgeInv => BridgeTypeOK
  BY TypeParts DEF BridgeInv
<1> QED BY <1>1, BridgeIsKept, PTL

(* A call settles only when its child is gone and nobody holds its pipes,  *)
(* with a timeout or without.                                              *)
THEOREM NoChildOutlivesItsCall == BridgeSpec => []SettledMeansChildGone
<1>1. BridgeInv => SettledMeansChildGone
  BY DEF BridgeInv, Places, SettledMeansChildGone
<1> QED BY <1>1, BridgeIsKept, PTL

(* A response comes from a child that succeeded within its limits: no timer *)
(* or stream event between the exit and the read of the file is missed.     *)
THEOREM ResponsesAreTrustworthy == BridgeSpec => []ResponseIsTrustworthy
<1>1. BridgeInv => ResponseIsTrustworthy
  BY DEF BridgeInv, Places, Responses, EndedWell, ResponseIsTrustworthy
<1> QED BY <1>1, BridgeIsKept, PTL

(* The temporary directory outlives the read and is removed on every path. *)
THEOREM DirectoriesAreRemoved == BridgeSpec => []TempDirLifetime
<1>1. BridgeInv => TempDirLifetime
  BY DEF BridgeInv
<1> QED BY <1>1, BridgeIsKept, PTL

(* What a settled call gives back is given back for good: its process has  *)
(* ended, and its directory is gone unless removing it failed.             *)
THEOREM CallsLeaveNothing == BridgeSpec => []NothingIsLeftBehind
<1>1. SettledMeansChildGone /\ TempDirLifetime => NothingIsLeftBehind
  BY DEF NothingIsLeftBehind
<1> QED BY <1>1, NoChildOutlivesItsCall, DirectoriesAreRemoved, PTL

(* SIGKILL follows SIGTERM and a timeout.                                  *)
THEOREM KillComesLast == BridgeSpec => []KillIsLastResort
<1>1. BridgeInv => KillIsLastResort
  BY DEF BridgeInv, Kills
<1> QED BY <1>1, BridgeIsKept, PTL

-----------------------------------------------------------------------------
(* The bridge settles at most once and with an outcome its callers know:   *)
(* the safety part of ImplementsExecutor.                                  *)
THEOREM SettlesAtMostOnce == BridgeSpec => Abstract!Spec
<1>1. BridgeInit => Abstract!Init
  BY DEF BridgeInit, Abstract!Init, Promise
<1>2. BridgeInv /\ [BridgeNext]_bridgeVars => [Abstract!Next]_Promise
  <2> SUFFICES ASSUME BridgeInv, [BridgeNext]_bridgeVars PROVE [Abstract!Next]_Promise
    OBVIOUS
  <2>1. CASE stage = "settled"
    <3>1. stage' = stage /\ result' = result
      BY <2>1, Zenon DEF BridgeNext, MkdtempFails, Spawn, SpawnFails, CloseWithoutChild, Close, Stat,
         ReadFile, Rm, TimeoutFires, EscalationFires, OutputOverflows, StdinFails,
         WritesResponse, ExitsByItself, DiesOfSignal, Exits, StartsWorkers, WorkersEnd, bridgeVars
    <3> QED BY <3>1 DEF Promise
  <2>2. CASE stage # "settled" /\ stage' # "settled"
    BY <2>2 DEF Promise
  <2>3. CASE stage # "settled" /\ stage' = "settled"
    <3>1. result' \in BridgeOutcomes
      BY <2>3, BridgeStep, PendingIsNoOutcome DEF BridgeInv, Places, Words
    <3>2. Promise = Pending /\ Promise' = result'
      BY <2>3 DEF Promise
    <3> QED BY <3>1, <3>2 DEF Abstract!Next, Abstract!Settle
  <2> QED BY <2>1, <2>2, <2>3
<1> QED BY <1>1, <1>2, BridgeIsKept, PTL DEF BridgeSpec, Abstract!Spec

-----------------------------------------------------------------------------
(* The synchronous solve and repair routes.                                *)

-----------------------------------------------------------------------------
(* Recursion over the subsets of a finite set.  Solves(s, g) says that g   *)
(* obeys the recursion on the subsets of s: take one element away by pick, *)
(* recur, and put its effect on top by step.                               *)
Recur(base, pick, step, g, u) ==
  IF u = {} THEN base ELSE step[pick[u]][g[u \ {pick[u]}]]

Solves(base, pick, step, s, g) ==
  g = [u \in SUBSET s |-> Recur(base, pick, step, g, u)]

LEMMA SolutionsAgree ==
  ASSUME NEW S, IsFiniteSet(S), NEW base, NEW step, NEW pick,
         \A u \in SUBSET S : u # {} => pick[u] \in u,
         NEW s \in SUBSET S, NEW t \in SUBSET S, NEW g, NEW h,
         Solves(base, pick, step, s, g), Solves(base, pick, step, t, h)
  PROVE  \A u \in SUBSET S : u \subseteq s /\ u \subseteq t => g[u] = h[u]
<1> DEFINE Bad == {u \in SUBSET S : u \subseteq s /\ u \subseteq t /\ g[u] # h[u]}
<1>1. SUFFICES ASSUME Bad # {} PROVE FALSE
  OBVIOUS
<1>2. Bad \subseteq FiniteSubsetsOf(S)
  BY FS_Subset DEF FiniteSubsetsOf
<1>3. PICK u \in Bad : \A v \in Bad : <<v, u>> \notin StrictSubsetOrdering(S)
  <2> HIDE DEF Bad
  <2> QED BY <1>1, <1>2, FS_StrictSubsetOrderingWellFounded, WFMin
<1>4. g[u] = Recur(base, pick, step, g, u) /\ h[u] = Recur(base, pick, step, h, u)
  BY <1>3 DEF Solves
<1>5. u # {}
  BY <1>3, <1>4 DEF Recur
<1>6. u \ {pick[u]} \notin Bad
  <2>1. <<u \ {pick[u]}, u>> \in StrictSubsetOrdering(S)
    BY <1>3, <1>5 DEF StrictSubsetOrdering
  <2> QED BY <1>3, <2>1
<1>7. g[u \ {pick[u]}] = h[u \ {pick[u]}]
  BY <1>3, <1>6
<1> QED BY <1>3, <1>4, <1>7 DEF Recur

LEMMA FiniteRecursion ==
  ASSUME NEW S, IsFiniteSet(S), NEW base, NEW step, NEW pick,
         \A u \in SUBSET S : u # {} => pick[u] \in u
  PROVE  \E g : Solves(base, pick, step, S, g)
<1> DEFINE Solved(s) == \E g : Solves(base, pick, step, s, g)
           Bad == {s \in SUBSET S : ~ Solved(s)}
<1>1. SUFFICES ASSUME Bad # {} PROVE FALSE
  OBVIOUS
<1>2. Bad \subseteq FiniteSubsetsOf(S)
  BY FS_Subset DEF FiniteSubsetsOf
<1>3. PICK s \in Bad : \A v \in Bad : <<v, s>> \notin StrictSubsetOrdering(S)
  <2> HIDE DEF Bad
  <2> QED BY <1>1, <1>2, FS_StrictSubsetOrderingWellFounded, WFMin
<1>4. \A v \in SUBSET s : v # s => Solved(v)
  <2>1. \A v \in SUBSET s : v # s => <<v, s>> \in StrictSubsetOrdering(S)
    BY <1>3 DEF StrictSubsetOrdering
  <2> QED BY <1>3, <2>1
<1> DEFINE At(v) == CHOOSE g : Solves(base, pick, step, v, g)
           Part == [v \in SUBSET s |-> At(v)[v]]
           h == [v \in SUBSET s |-> IF v = s THEN Recur(base, pick, step, Part, s) ELSE At(v)[v]]
<1>5. \A v \in SUBSET s : v # s => Solves(base, pick, step, v, At(v))
  BY <1>4
<1> HIDE DEF At
<1>6. \A v \in SUBSET s : v # {} => pick[v] \in v
  OBVIOUS
<1>7. ASSUME NEW v \in SUBSET s PROVE h[v] = Recur(base, pick, step, h, v)
  <2>1. CASE v = {}
    <3>1. CASE v = s
      BY <2>1, <3>1 DEF Recur
    <3>2. CASE v # s
      BY <1>5, <2>1, <3>2 DEF Solves, Recur
    <3> QED BY <3>1, <3>2
  <2>2. CASE v # {}
    <3> DEFINE w == v \ {pick[v]}
    <3>1. w \in SUBSET s /\ w # s /\ w \in SUBSET v
      BY <1>6, <2>2
    <3>2. h[w] = At(w)[w]
      BY <3>1
    <3>3. CASE v = s
      <4>1. h[v] = step[pick[v]][Part[w]] /\ Part[w] = At(w)[w]
        BY <2>2, <3>1, <3>3 DEF Recur
      <4> QED BY <2>2, <3>2, <4>1 DEF Recur
    <3>4. CASE v # s
      <4>1. At(v)[v] = step[pick[v]][At(v)[w]]
        <5>1. Solves(base, pick, step, v, At(v)) /\ v \in SUBSET v
          BY <1>5, <3>4
        <5>2. At(v)[v] = Recur(base, pick, step, At(v), v)
          BY <5>1 DEF Solves
        <5> QED BY <2>2, <5>2 DEF Recur
      <4>2. At(v)[w] = At(w)[w]
        <5>1. Solves(base, pick, step, v, At(v)) /\ Solves(base, pick, step, w, At(w))
          BY <1>5, <3>1, <3>4
        <5>2. v \in SUBSET S /\ w \in SUBSET S /\ w \subseteq v /\ w \subseteq w
          BY <1>3, <3>1
        <5> HIDE DEF w
        <5> QED BY <5>1, <5>2, SolutionsAgree
      <4> QED BY <2>2, <3>2, <3>4, <4>1, <4>2 DEF Recur
    <3> QED BY <3>3, <3>4
  <2> QED BY <2>1, <2>2
<1>8. Solves(base, pick, step, s, h)
  <2>1. h = [v \in SUBSET s |-> h[v]]
    OBVIOUS
  <2> HIDE DEF h
  <2> QED BY <1>7, <2>1 DEF Solves
<1> QED BY <1>3, <1>8

(* The recursion stays in any set its base and steps stay in. *)
LEMMA RecursionTyped ==
  ASSUME NEW S, IsFiniteSet(S), NEW T, NEW base \in T, NEW step, NEW pick,
         \A x \in S, t \in T : step[x][t] \in T,
         \A u \in SUBSET S : u # {} => pick[u] \in u,
         NEW g, Solves(base, pick, step, S, g)
  PROVE  g \in [SUBSET S -> T]
<1> DEFINE Bad == {u \in SUBSET S : g[u] \notin T}
<1>1. Bad = {}
  <2>1. SUFFICES ASSUME Bad # {} PROVE FALSE
    OBVIOUS
  <2>2. Bad \subseteq FiniteSubsetsOf(S)
    BY FS_Subset DEF FiniteSubsetsOf
  <2>3. PICK u \in Bad : \A v \in Bad : <<v, u>> \notin StrictSubsetOrdering(S)
    <3> HIDE DEF Bad
    <3> QED BY <2>1, <2>2, FS_StrictSubsetOrderingWellFounded, WFMin
  <2>4. g[u] = Recur(base, pick, step, g, u)
    BY <2>3 DEF Solves
  <2>5. u # {}
    BY <2>3, <2>4 DEF Recur
  <2>6. <<u \ {pick[u]}, u>> \in StrictSubsetOrdering(S)
    BY <2>3, <2>5 DEF StrictSubsetOrdering
  <2>7. g[u \ {pick[u]}] \in T
    BY <2>3, <2>6
  <2>8. g[u] = step[pick[u]][g[u \ {pick[u]}]] /\ pick[u] \in S
    BY <2>3, <2>4, <2>5 DEF Recur
  <2> QED BY <2>3, <2>7, <2>8
<1>2. g = [u \in SUBSET S |-> Recur(base, pick, step, g, u)]
  BY DEF Solves
<1>3. DOMAIN g = SUBSET S /\ g = [u \in SUBSET S |-> g[u]]
  BY <1>2
<1> QED BY <1>1, <1>3

(* A finite set of integers has a largest element. *)
LEMMA MaxIsElement ==
  ASSUME NEW S \in SUBSET Int, IsFiniteSet(S), S # {}
  PROVE  Max(S) \in S /\ \A y \in S : Max(S) >= y
<1> DEFINE HasMax(u) == \E x \in u : \A y \in u : x >= y
           Bad == {u \in SUBSET S : u # {} /\ ~ HasMax(u)}
<1>1. SUFFICES ASSUME Bad # {} PROVE FALSE
  BY DEF Max
<1>2. Bad \subseteq FiniteSubsetsOf(S)
  BY FS_Subset DEF FiniteSubsetsOf
<1>3. PICK u \in Bad : \A v \in Bad : <<v, u>> \notin StrictSubsetOrdering(S)
  <2> HIDE DEF Bad
  <2> QED BY <1>1, <1>2, FS_StrictSubsetOrderingWellFounded, WFMin
<1>4. PICK x \in u : TRUE
  BY <1>3
<1>5. <<u \ {x}, u>> \in StrictSubsetOrdering(S)
  BY <1>3, <1>4 DEF StrictSubsetOrdering
<1>6. u \ {x} = {} \/ HasMax(u \ {x})
  BY <1>3, <1>5
<1>7. CASE u \ {x} = {}
  BY <1>3, <1>4, <1>7
<1>8. CASE HasMax(u \ {x})
  <2>1. PICK z \in u \ {x} : \A y \in u \ {x} : z >= y
    BY <1>8
  <2>2. x \in Int /\ z \in Int /\ \A y \in u : y \in Int
    BY <1>3, <1>4, <2>1
  <2>3. CASE z >= x
    <3>1. \A y \in u : z >= y
      BY <2>1, <2>3
    <3> QED BY <1>3, <2>1, <3>1
  <2>4. CASE x >= z
    <3>1. \A y \in u : x >= y
      BY <2>1, <2>2, <2>4
    <3> QED BY <1>3, <1>4, <3>1
  <2> QED BY <2>2, <2>3, <2>4
<1> QED BY <1>6, <1>7, <1>8

-----------------------------------------------------------------------------
(* The attempt chain.  A chain names no solver twice.                      *)
Entries == Solvers \cup {Null}

Chain(c) ==
  /\ c \in Seq(Entries) /\ c # <<>>
  /\ \A m, n \in 1 .. Len(c) : c[m] = c[n] => m = n

Linked(c, s) == IF s \in Range(c) THEN c ELSE Append(c, s)

(* The equation of the fold's recursion over the positions of the fallback *)
(* chain.                                                                  *)
ChainEquation(initial, g) ==
  g = [u \in SUBSET (DOMAIN LimitGuardChain) |->
         IF u = {} THEN <<initial>>
         ELSE Linked(g[u \ {Max(u)}], LimitGuardChain[Max(u)])]

(* Appending a solver that is not in a chain keeps it a chain. *)
LEMMA LinkedIsChain ==
  ASSUME NEW c, Chain(c), NEW s \in Entries
  PROVE  Chain(Linked(c, s)) /\ Linked(c, s)[1] = c[1]
<1>1. CASE s \in Range(c)
  BY <1>1 DEF Linked
<1>2. CASE s \notin Range(c)
  <2>1. /\ c \in Seq(Entries) /\ Len(c) \in Nat /\ Len(c) >= 1
        /\ \A m, n \in 1 .. Len(c) : c[m] = c[n] => m = n
    BY DEF Chain
  <2>2. \A m \in 1 .. Len(c) : c[m] # s
    BY <1>2, <2>1 DEF Range
  <2>3. /\ Append(c, s) \in Seq(Entries) /\ Len(Append(c, s)) = Len(c) + 1
        /\ \A m \in 1 .. Len(c) : Append(c, s)[m] = c[m]
        /\ Append(c, s)[Len(c) + 1] = s
    BY <2>1
  <2>4. \A m, n \in 1 .. Len(c) + 1 : Append(c, s)[m] = Append(c, s)[n] => m = n
    BY <2>1, <2>2, <2>3
  <2>5. Append(c, s) # <<>> /\ Append(c, s)[1] = c[1]
    BY <2>1, <2>3
  <2> QED BY <1>2, <2>3, <2>4, <2>5 DEF Linked, Chain
<1> QED BY <1>1, <1>2

LEMMA ChainEquationSolved ==
  ASSUME NEW initial \in Entries
  PROVE  \E g : ChainEquation(initial, g)
<1> DEFINE S == DOMAIN LimitGuardChain
           T == Seq(Entries)
           base == <<initial>>
           pick == [u \in SUBSET S |-> Max(u)]
           step == [x \in S |-> [c \in T |-> Linked(c, LimitGuardChain[x])]]
<1>1. S = 1 .. Len(LimitGuardChain) /\ S \in SUBSET Int /\ IsFiniteSet(S)
  BY SolveGatewayAssumption, FS_Interval DEF SolveGatewayAssumption
<1>2. \A u \in SUBSET S : u # {} => pick[u] \in u
  BY <1>1, MaxIsElement, FS_Subset
<1>3. \A x \in S, t \in T : step[x][t] \in T
  <2>1. ASSUME NEW x \in S, NEW c \in T PROVE Linked(c, LimitGuardChain[x]) \in T
    BY SolveGatewayAssumption DEF Linked, Entries, SolveGatewayAssumption
  <2> QED BY <2>1
<1>4. base \in T
  OBVIOUS
<1> HIDE DEF S, T, base, step, pick
<1>5. PICK g : Solves(base, pick, step, S, g)
  BY <1>1, <1>2, FiniteRecursion
<1>6. g \in [SUBSET S -> T]
  BY <1>1, <1>2, <1>3, <1>4, <1>5, RecursionTyped
<1>7. ASSUME NEW u \in SUBSET S, u # {}
      PROVE  g[u] = Linked(g[u \ {Max(u)}], LimitGuardChain[Max(u)])
  <2>1. g[u] = step[pick[u]][g[u \ {pick[u]}]]
    BY <1>5, <1>7 DEF Solves, Recur
  <2>2. pick[u] = Max(u) /\ Max(u) \in S
    BY <1>2, <1>7 DEF pick
  <2>3. g[u \ {Max(u)}] \in T
    BY <1>6
  <2> QED BY <2>1, <2>2, <2>3 DEF step
<1>8. g[{}] = <<initial>>
  BY <1>5 DEF Solves, Recur, base
<1>9. ChainEquation(initial, g)
  <2>1. g = [u \in SUBSET S |-> g[u]]
    BY <1>6
  <2> QED BY <1>7, <1>8, <2>1 DEF ChainEquation, S
<1> QED BY <1>9

(* What buildSolveAttemptChain promises the loop: the solver asked for     *)
(* comes first and no solver comes twice.                                  *)
LEMMA AttemptChainIsChain ==
  ASSUME NEW initial \in Entries
  PROVE  /\ Chain(SolveAttemptChain(initial))
         /\ SolveAttemptChain(initial)[1] = initial
         /\ ~ LimitGuards => Len(SolveAttemptChain(initial)) = 1
<1> DEFINE Good(c) == Chain(c) /\ c[1] = initial
<1>1. Good(<<initial>>) /\ Len(<<initial>>) = 1
  BY DEF Chain
<1>2. CASE ~ LimitGuards
  BY <1>1, <1>2 DEF SolveAttemptChain
<1>3. CASE LimitGuards
  <2> DEFINE S == DOMAIN LimitGuardChain
             g == CHOOSE f : ChainEquation(initial, f)
             Bad == {u \in SUBSET S : ~ Good(g[u])}
  <2>1. ChainEquation(initial, g)
    BY ChainEquationSolved
  <2>2. SolveAttemptChain(initial) = g[S]
    BY <1>3 DEF SolveAttemptChain, FoldLeft, MapThenFoldSet, ChainEquation, Linked
  <2>3. S = 1 .. Len(LimitGuardChain) /\ S \in SUBSET Int /\ IsFiniteSet(S)
    BY SolveGatewayAssumption, FS_Interval DEF SolveGatewayAssumption
  <2> HIDE DEF g, S
  <2>4. Bad = {}
    <3>1. SUFFICES ASSUME Bad # {} PROVE FALSE
      OBVIOUS
    <3>2. Bad \subseteq FiniteSubsetsOf(S)
      BY <2>3, FS_Subset DEF FiniteSubsetsOf
    <3>3. PICK u \in Bad : \A v \in Bad : <<v, u>> \notin StrictSubsetOrdering(S)
      <4> HIDE DEF Bad
      <4> QED BY <2>3, <3>1, <3>2, FS_StrictSubsetOrderingWellFounded, WFMin
    <3>4. u # {}
      BY <1>1, <2>1, <3>3 DEF ChainEquation, S
    <3>5. Max(u) \in u
      BY <2>3, <3>3, <3>4, FS_Subset, MaxIsElement
    <3>6. <<u \ {Max(u)}, u>> \in StrictSubsetOrdering(S)
      BY <3>3, <3>5 DEF StrictSubsetOrdering
    <3>7. Good(g[u \ {Max(u)}])
      BY <3>3, <3>6
    <3>8. g[u] = Linked(g[u \ {Max(u)}], LimitGuardChain[Max(u)])
      BY <2>1, <3>3, <3>4 DEF ChainEquation, S
    <3>9. LimitGuardChain[Max(u)] \in Entries
      <4>1. Max(u) \in 1 .. Len(LimitGuardChain)
        BY <2>3, <3>3, <3>5
      <4> QED BY <4>1, SolveGatewayAssumption DEF SolveGatewayAssumption, Entries
    <3> QED BY <3>3, <3>7, <3>8, <3>9, LinkedIsChain
  <2> QED BY <1>3, <2>2, <2>4
<1> QED BY <1>2, <1>3

-----------------------------------------------------------------------------
(* The inductive invariant.  GateCounts is the gate's; HandlersFit says of *)
(* every request how far along its chain its attempts have come.           *)
AttemptRecord == [solver : Entries, outcome : Outcomes]

Retryable == RetryableCodes \cup RetryableStatuses

(* The attempts are those of the chain's first i - 1 entries that fit the  *)
(* problem, in the chain's order.                                          *)
Followed(chain, size, attempts, i) ==
  /\ attempts \in Seq(AttemptRecord)
  /\ \A n \in 1 .. Len(attempts) : \E k \in 1 .. i - 1 :
       attempts[n].solver = chain[k] /\ Admits(chain[k], size)
  /\ \A m, n \in 1 .. Len(attempts), k, l \in 1 .. Len(chain) :
       m < n /\ attempts[m].solver = chain[k] /\ attempts[n].solver = chain[l] => k < l
  /\ \A k \in 1 .. i - 1 :
       Admits(chain[k], size) => \E n \in 1 .. Len(attempts) : attempts[n].solver = chain[k]

AllFailed(attempts, last) == \A n \in 1 .. last : attempts[n].outcome \in Retryable

ExecutingFits(r) ==
  /\ r.pc = "executing" /\ Chain(r.chain) /\ Admits(r.chain[1], r.size)
  /\ r.kind # "solve" \/ ~ LimitGuards => Len(r.chain) = 1
  /\ r.index \in 1 .. Len(r.chain) /\ Admits(r.chain[r.index], r.size)
  /\ Followed(r.chain, r.size, r.attempts, r.index)
  /\ AllFailed(r.attempts, Len(r.attempts))

(* A request that was answered without an outcome was refused a slot or    *)
(* ran out of solvers that fit; any other has the outcome of its last      *)
(* attempt.                                                                *)
AnsweredFits(r) ==
  /\ r.pc = "answered" /\ Chain(r.chain)
  /\ r.attempts # <<>> => Admits(r.chain[1], r.size)
  /\ \E i \in 1 .. Len(r.chain) + 1 :
       /\ Followed(r.chain, r.size, r.attempts, i)
       /\ r.outcome # "none" /\ r.kind = "solve" /\ LimitGuards /\ r.outcome \in Retryable =>
            i = Len(r.chain) + 1
  /\ \/ r.outcome = "none" /\ AllFailed(r.attempts, Len(r.attempts))
     \/ /\ r.outcome \in Outcomes /\ r.attempts # <<>>
        /\ r.attempts[Len(r.attempts)].outcome = r.outcome
        /\ AllFailed(r.attempts, Len(r.attempts) - 1)
  /\ r.code = 429 => r.attempts = <<>>
  /\ r.plotted <=> r.outcome \in SuccessStatuses

Fits(r) == r.pc = "idle" \/ ExecutingFits(r) \/ AnsweredFits(r)

HandlersFit ==
  /\ request = [id \in Requests |-> request[id]]
  /\ \A id \in Requests : Fits(request[id])

GateCounts ==
  /\ IsFiniteSet(InExecution)
  /\ gate = Cardinality(InExecution) /\ gate <= MaxConcurrent

GatewayInv == GateCounts /\ HandlersFit

(* One more attempt, of the entry the loop is at. *)
LEMMA FollowedAttempt ==
  ASSUME NEW chain, NEW size, NEW attempts, NEW i, NEW outcome \in Outcomes,
         Chain(chain), i \in 1 .. Len(chain), Admits(chain[i], size),
         Followed(chain, size, attempts, i)
  PROVE  Followed(chain, size, Append(attempts, Attempt(chain[i], outcome)), i + 1)
<1> DEFINE new == Attempt(chain[i], outcome)
           after == Append(attempts, new)
<1>1. /\ attempts \in Seq(AttemptRecord) /\ Len(attempts) \in Nat
      /\ chain \in Seq(Entries) /\ Len(chain) \in Nat /\ i \in Nat
  BY DEF Followed, Chain
<1>2. new \in AttemptRecord /\ new.solver = chain[i]
  BY <1>1 DEF Attempt, AttemptRecord
<1>3. /\ after \in Seq(AttemptRecord) /\ Len(after) = Len(attempts) + 1
      /\ \A n \in 1 .. Len(attempts) : after[n] = attempts[n]
      /\ after[Len(attempts) + 1] = new
  BY <1>1, <1>2
<1> HIDE DEF new, after
<1>4. \A n \in 1 .. Len(after) : n \in 1 .. Len(attempts) \/ n = Len(attempts) + 1
  BY <1>1, <1>3
<1>5. \A n \in 1 .. Len(after) : \E k \in 1 .. (i + 1) - 1 :
        after[n].solver = chain[k] /\ Admits(chain[k], size)
  <2> TAKE n \in 1 .. Len(after)
  <2>1. CASE n \in 1 .. Len(attempts)
    <3>1. PICK k \in 1 .. i - 1 : attempts[n].solver = chain[k] /\ Admits(chain[k], size)
      BY <2>1 DEF Followed
    <3>2. k \in 1 .. (i + 1) - 1
      BY <1>1
    <3> QED BY <1>3, <2>1, <3>1, <3>2
  <2>2. CASE n = Len(attempts) + 1
    <3>1. i \in 1 .. (i + 1) - 1
      BY <1>1
    <3> QED BY <1>2, <1>3, <2>2, <3>1
  <2> QED BY <1>4, <2>1, <2>2
<1>6. \A m, n \in 1 .. Len(after), k, l \in 1 .. Len(chain) :
        m < n /\ after[m].solver = chain[k] /\ after[n].solver = chain[l] => k < l
  <2> SUFFICES ASSUME NEW m \in 1 .. Len(after), NEW n \in 1 .. Len(after),
                      NEW k \in 1 .. Len(chain), NEW l \in 1 .. Len(chain),
                      m < n, after[m].solver = chain[k], after[n].solver = chain[l]
               PROVE  k < l
    OBVIOUS
  <2>1. m \in 1 .. Len(attempts)
    BY <1>1, <1>3
  <2>2. CASE n \in 1 .. Len(attempts)
    BY <1>3, <2>1, <2>2 DEF Followed
  <2>3. CASE n = Len(attempts) + 1
    <3>1. l = i
      BY <1>2, <1>3, <2>3 DEF Chain
    <3>2. PICK j \in 1 .. i - 1 : attempts[m].solver = chain[j]
      BY <2>1 DEF Followed
    <3>3. j \in 1 .. Len(chain) /\ chain[j] = chain[k]
      BY <1>1, <1>3, <2>1, <3>2
    <3>4. j = k
      BY <3>3 DEF Chain
    <3> QED BY <1>1, <3>1, <3>2, <3>4
  <2> QED BY <1>4, <2>2, <2>3
<1>7. \A k \in 1 .. (i + 1) - 1 :
        Admits(chain[k], size) => \E n \in 1 .. Len(after) : after[n].solver = chain[k]
  <2> SUFFICES ASSUME NEW k \in 1 .. (i + 1) - 1, Admits(chain[k], size)
               PROVE  \E n \in 1 .. Len(after) : after[n].solver = chain[k]
    OBVIOUS
  <2>1. CASE k = i
    <3>1. Len(attempts) + 1 \in 1 .. Len(after)
      BY <1>1, <1>3
    <3> QED BY <1>2, <1>3, <2>1, <3>1
  <2>2. CASE k # i
    <3>1. k \in 1 .. i - 1
      BY <1>1, <2>2
    <3>2. PICK n \in 1 .. Len(attempts) : attempts[n].solver = chain[k]
      BY <3>1 DEF Followed
    <3>3. n \in 1 .. Len(after)
      BY <1>1, <1>3
    <3> QED BY <1>3, <3>2, <3>3
  <2> QED BY <2>1, <2>2
<1>8. Followed(chain, size, after, i + 1)
  BY <1>3, <1>5, <1>6, <1>7 DEF Followed
<1> QED BY <1>8 DEF after, new

(* Entries that do not fit the problem are passed over. *)
LEMMA FollowedSkip ==
  ASSUME NEW chain, NEW size, NEW attempts, NEW i \in Nat, NEW j \in Nat, i <= j,
         Followed(chain, size, attempts, i),
         \A k \in i .. j - 1 : ~ Admits(chain[k], size)
  PROVE  Followed(chain, size, attempts, j)
<1>1. \A k \in 1 .. j - 1 : k \in 1 .. i - 1 \/ k \in i .. j - 1
  OBVIOUS
<1>2. \A k \in 1 .. i - 1 : k \in 1 .. j - 1
  OBVIOUS
<1>3. \A n \in 1 .. Len(attempts) : \E k \in 1 .. j - 1 :
        attempts[n].solver = chain[k] /\ Admits(chain[k], size)
  BY <1>2 DEF Followed
<1>4. \A k \in 1 .. j - 1 :
        Admits(chain[k], size) => \E n \in 1 .. Len(attempts) : attempts[n].solver = chain[k]
  BY <1>1 DEF Followed
<1> QED BY <1>3, <1>4 DEF Followed

LEMMA FirstAdmittedFacts ==
  ASSUME NEW r, NEW i \in Nat, Len(r.chain) \in Nat,
         \E k \in i .. Len(r.chain) : Admits(r.chain[k], r.size)
  PROVE  /\ FirstAdmitted(r, i) \in i .. Len(r.chain)
         /\ Admits(r.chain[FirstAdmitted(r, i)], r.size)
         /\ \A m \in i .. FirstAdmitted(r, i) - 1 : ~ Admits(r.chain[m], r.size)
<1> DEFINE S == {k \in i .. Len(r.chain) : Admits(r.chain[k], r.size)}
           T == {0 - k : k \in S}
<1>1. 0 - Len(r.chain) \in Int /\ 0 - i \in Int
  OBVIOUS
<1>2. IsFiniteSet(T)
  <2>1. T \subseteq (0 - Len(r.chain)) .. (0 - i)
    OBVIOUS
  <2> HIDE DEF T
  <2> QED BY <1>1, <2>1, FS_Interval, FS_Subset
<1>3. T # {} /\ T \in SUBSET Int
  OBVIOUS
<1>4. Max(T) \in T /\ \A y \in T : Max(T) >= y
  <2> HIDE DEF T
  <2> QED BY <1>2, <1>3, MaxIsElement
<1>5. PICK k \in S : Max(T) = 0 - k
  BY <1>4
<1>6. \A m \in S : k <= m
  <2> TAKE m \in S
  <2>1. 0 - m \in T /\ m \in Int /\ k \in Int
    OBVIOUS
  <2>2. 0 - k >= 0 - m
    BY <1>4, <1>5, <2>1
  <2> QED BY <2>1, <2>2
<1>7. \A m \in i .. k - 1 : ~ Admits(r.chain[m], r.size)
  <2> SUFFICES ASSUME NEW m \in i .. k - 1, Admits(r.chain[m], r.size) PROVE FALSE
    OBVIOUS
  <2>1. m \in S /\ m < k /\ m \in Int /\ k \in Int
    BY <1>5
  <2> QED BY <1>6, <2>1
<1> QED BY <1>5, <1>7 DEF FirstAdmitted

(* A request whose new state fits leaves the invariant of the handlers.    *)
LEMMA UpdateFits ==
  ASSUME HandlersFit, NEW id \in Requests, NEW q, Fits(q),
         request' = [request EXCEPT ![id] = q]
  PROVE  HandlersFit'
<1>1. request' = [k \in Requests |-> IF k = id THEN q ELSE request[k]]
  BY DEF HandlersFit
<1>2. request' = [k \in Requests |-> request'[k]]
  BY <1>1
<1>3. \A k \in Requests : Fits(request'[k])
  BY <1>1 DEF HandlersFit
<1> QED BY <1>2, <1>3 DEF HandlersFit

(* The loop keeps the attempts along the chain wherever it stops. *)
LEMMA RunFromFits ==
  ASSUME HandlersFit, NEW id \in Requests, NEW r, NEW i, NEW attempts, NEW taken \in Nat,
         Chain(r.chain), Admits(r.chain[1], r.size), i \in 1 .. Len(r.chain) + 1,
         r.kind # "solve" \/ ~ LimitGuards => Len(r.chain) = 1,
         Followed(r.chain, r.size, attempts, i), AllFailed(attempts, Len(attempts)),
         taken >= MaxConcurrent => attempts = <<>>,
         RunFrom(id, r, i, attempts, taken)
  PROVE  HandlersFit'
<1>1. Len(r.chain) \in Nat /\ i \in Nat
  BY DEF Chain
<1>2. ASSUME NEW code \in {422, 429}, code = 429 => attempts = <<>>
      PROVE  Fits(Answered(r, code, "none", attempts))
  <2> DEFINE q == Answered(r, code, "none", attempts)
  <2>1. /\ q.pc = "answered" /\ q.chain = r.chain /\ q.size = r.size
        /\ q.attempts = attempts /\ q.outcome = "none" /\ q.code = code /\ q.plotted = FALSE
    BY DEF Answered, SuccessStatuses
  <2> HIDE DEF q
  <2>2. AnsweredFits(q)
    BY <1>2, <2>1 DEF AnsweredFits, SuccessStatuses
  <2> QED BY <2>2 DEF Fits, q
<1>3. CASE \A k \in i .. Len(r.chain) : ~ Admits(r.chain[k], r.size)
  BY <1>2, <1>3, UpdateFits DEF RunFrom
<1>4. CASE ~ (\A k \in i .. Len(r.chain) : ~ Admits(r.chain[k], r.size)) /\ taken >= MaxConcurrent
  BY <1>2, <1>4, UpdateFits DEF RunFrom
<1>5. CASE ~ (\A k \in i .. Len(r.chain) : ~ Admits(r.chain[k], r.size)) /\ ~ (taken >= MaxConcurrent)
  <2> DEFINE j == FirstAdmitted(r, i)
             q == Executing(r, j, attempts)
  <2>1. /\ j \in i .. Len(r.chain) /\ Admits(r.chain[j], r.size)
        /\ \A m \in i .. j - 1 : ~ Admits(r.chain[m], r.size)
    BY <1>1, <1>5, FirstAdmittedFacts
  <2> HIDE DEF j
  <2>2. j \in 1 .. Len(r.chain) /\ j \in Nat /\ i <= j
    BY <1>1, <2>1
  <2>3. Followed(r.chain, r.size, attempts, j)
    BY <1>1, <2>1, <2>2, FollowedSkip
  <2>4. ExecutingFits(q)
    BY <2>1, <2>2, <2>3 DEF ExecutingFits, Executing
  <2>5. request' = [request EXCEPT ![id] = q]
    BY <1>5 DEF RunFrom, j
  <2> QED BY <2>4, <2>5, UpdateFits DEF Fits
<1> QED BY <1>3, <1>4, <1>5

(* Besides the request in hand, as many are in execution as are counted.   *)
LEMMA RunFromCounts ==
  ASSUME HandlersFit, NEW id \in Requests, NEW r, NEW i, NEW attempts, NEW taken \in Nat,
         IsFiniteSet(InExecution), taken = Cardinality(InExecution \ {id}),
         taken <= MaxConcurrent, RunFrom(id, r, i, attempts, taken)
  PROVE  GateCounts'
<1> DEFINE Others == InExecution \ {id}
<1>1. IsFiniteSet(Others) /\ id \notin Others
  BY FS_Subset
<1>2. ASSUME NEW q, request' = [request EXCEPT ![id] = q]
      PROVE  InExecution' = IF q.pc = "executing" THEN Others \cup {id} ELSE Others
  <2>1. request' = [k \in Requests |-> IF k = id THEN q ELSE request[k]]
    BY <1>2 DEF HandlersFit
  <2>2. \A k \in Requests : k # id => request'[k] = request[k]
    BY <2>1
  <2>3. request'[id] = q
    BY <2>1
  <2> QED BY <2>2, <2>3 DEF InExecution
<1>3. \A code : Answered(r, code, "none", attempts).pc # "executing"
  BY DEF Answered
<1>4. \A j : Executing(r, j, attempts).pc = "executing"
  BY DEF Executing
<1>5. ASSUME InExecution' = Others, gate' = taken PROVE GateCounts'
  BY <1>1, <1>5 DEF GateCounts
<1>6. CASE \A k \in i .. Len(r.chain) : ~ Admits(r.chain[k], r.size)
  BY <1>2, <1>3, <1>5, <1>6 DEF RunFrom
<1>7. CASE ~ (\A k \in i .. Len(r.chain) : ~ Admits(r.chain[k], r.size)) /\ taken >= MaxConcurrent
  BY <1>2, <1>3, <1>5, <1>7 DEF RunFrom
<1>8. CASE ~ (\A k \in i .. Len(r.chain) : ~ Admits(r.chain[k], r.size)) /\ ~ (taken >= MaxConcurrent)
  <2>1. /\ request' = [request EXCEPT ![id] = Executing(r, FirstAdmitted(r, i), attempts)]
        /\ gate' = taken + 1
    BY <1>8 DEF RunFrom
  <2>2. InExecution' = Others \cup {id}
    BY <1>2, <1>4, <2>1
  <2>3. IsFiniteSet(Others \cup {id}) /\ Cardinality(Others \cup {id}) = Cardinality(Others) + 1
    BY <1>1, FS_AddElement
  <2>4. taken + 1 <= MaxConcurrent
    BY <1>8, SolveGatewayAssumption DEF SolveGatewayAssumption
  <2> HIDE DEF Others
  <2> QED BY <2>1, <2>2, <2>3, <2>4 DEF GateCounts, Others
<1> QED BY <1>6, <1>7, <1>8

-----------------------------------------------------------------------------
(* One lemma per action. *)
LEMMA InitGateway == Init => GatewayInv
<1> SUFFICES ASSUME Init PROVE GatewayInv
  OBVIOUS
<1>1. InExecution = {}
  BY DEF Init, InExecution, NotArrived
<1>2. GateCounts
  BY <1>1, FS_EmptySet, SolveGatewayAssumption DEF Init, GateCounts, SolveGatewayAssumption
<1>3. HandlersFit
  BY DEF Init, HandlersFit, Fits, NotArrived
<1> QED BY <1>2, <1>3 DEF GatewayInv

LEMMA EmptyFollowed ==
  ASSUME NEW chain, Chain(chain), NEW size
  PROVE  Followed(chain, size, <<>>, 1) /\ AllFailed(<<>>, Len(<<>>))
<1>1. <<>> \in Seq(AttemptRecord) /\ Len(<<>>) = 0
  OBVIOUS
<1> QED BY <1>1 DEF Followed, AllFailed, Chain

(* A request that is refused before its first attempt. *)
Refused(id, r) ==
  /\ request' = [request EXCEPT ![id] = Answered(r, 422, "none", <<>>)]
  /\ UNCHANGED gate

LEMMA RefusedAtOnce ==
  ASSUME GatewayInv, NEW id \in Requests, request[id].pc = "idle", NEW r, Chain(r.chain),
         Refused(id, r)
  PROVE  GatewayInv'
<1> DEFINE q == Answered(r, 422, "none", <<>>)
<1>1. /\ q.pc = "answered" /\ q.chain = r.chain /\ q.size = r.size
      /\ q.attempts = <<>> /\ q.outcome = "none" /\ q.code = 422 /\ q.plotted = FALSE
  BY DEF Answered, SuccessStatuses
<1>2. request' = [request EXCEPT ![id] = q] /\ UNCHANGED gate
  BY DEF Refused
<1> HIDE DEF q
<1>3. AnsweredFits(q)
  <2>1. Followed(q.chain, q.size, q.attempts, 1) /\ AllFailed(q.attempts, Len(q.attempts))
    BY <1>1, EmptyFollowed
  <2>2. 1 \in 1 .. Len(q.chain) + 1
    BY <1>1 DEF Chain
  <2> QED BY <1>1, <2>1, <2>2 DEF AnsweredFits, SuccessStatuses
<1>4. HandlersFit'
  <2>1. HandlersFit
    BY DEF GatewayInv
  <2>2. Fits(q)
    BY <1>3, <1>1 DEF Fits
  <2> QED BY <1>2, <2>1, <2>2, UpdateFits
<1>5. InExecution' = InExecution
  <2>1. request' = [k \in Requests |-> IF k = id THEN q ELSE request[k]]
    BY <1>2 DEF GatewayInv, HandlersFit
  <2>2. \A k \in Requests : k # id => request'[k] = request[k]
    BY <2>1
  <2>3. request'[id].pc = "answered"
    BY <1>1, <2>1
  <2> QED BY <2>2, <2>3 DEF InExecution
<1> QED BY <1>2, <1>4, <1>5 DEF GatewayInv, GateCounts

(* A request that enters the loop at its first entry. *)
LEMMA EntersLoop ==
  ASSUME GatewayInv, NEW id \in Requests, request[id].pc = "idle", NEW r,
         Chain(r.chain), Admits(r.chain[1], r.size),
         r.kind # "solve" \/ ~ LimitGuards => Len(r.chain) = 1,
         RunFrom(id, r, 1, <<>>, gate)
  PROVE  GatewayInv'
<1>1. /\ IsFiniteSet(InExecution) /\ gate = Cardinality(InExecution)
      /\ gate <= MaxConcurrent /\ HandlersFit
  BY DEF GatewayInv, GateCounts
<1>2. gate \in Nat
  BY <1>1, FS_CardinalityType
<1>3. InExecution \ {id} = InExecution
  BY DEF InExecution
<1>4. Followed(r.chain, r.size, <<>>, 1) /\ AllFailed(<<>>, Len(<<>>))
  BY EmptyFollowed
<1>5. 1 \in 1 .. Len(r.chain) + 1
  BY DEF Chain
<1>6. HandlersFit'
  BY <1>1, <1>2, <1>4, <1>5, RunFromFits
<1>7. GateCounts'
  BY <1>1, <1>2, <1>3, RunFromCounts
<1> QED BY <1>6, <1>7 DEF GatewayInv

LEMMA ReceiveSolveKeeps ==
  ASSUME GatewayInv, NEW id \in Requests, NEW initial \in Initials, NEW size, NEW aclOk,
         ReceiveSolve(id, initial, size, aclOk)
  PROVE  GatewayInv'
<1> DEFINE r == [kind |-> "solve", chain |-> SolveAttemptChain(initial), size |-> size]
<1>1. /\ Chain(r.chain) /\ r.chain[1] = initial
      /\ ~ LimitGuards => Len(r.chain) = 1
  BY AttemptChainIsChain, SolveGatewayAssumption DEF SolveGatewayAssumption, Entries
<1>2. r.kind = "solve" /\ r.size = size
  OBVIOUS
<1>3. request[id].pc = "idle"
  BY DEF ReceiveSolve
<1>4. \/ Admits(initial, size) /\ RunFrom(id, r, 1, <<>>, gate)
      \/ Refused(id, r)
  BY Zenon DEF ReceiveSolve, Refused
<1> HIDE DEF r
<1>5. CASE Admits(initial, size) /\ RunFrom(id, r, 1, <<>>, gate)
  BY <1>1, <1>2, <1>3, <1>5, EntersLoop
<1>6. CASE Refused(id, r)
  <2>1. Chain(r.chain)
    BY <1>1
  <2> QED BY <1>3, <1>6, <2>1, RefusedAtOnce
<1> QED BY <1>4, <1>5, <1>6

LEMMA ReceiveRepairKeeps ==
  ASSUME GatewayInv, NEW id \in Requests, NEW size, NEW aclOk, ReceiveRepair(id, size, aclOk)
  PROVE  GatewayInv'
<1> DEFINE r == [kind |-> "repair", chain |-> <<Null>>, size |-> size]
<1>1. Chain(r.chain) /\ r.chain[1] = Null /\ Len(r.chain) = 1
  BY DEF Chain, Entries
<1>2. r.kind = "repair" /\ r.size = size
  OBVIOUS
<1>3. request[id].pc = "idle"
  BY DEF ReceiveRepair
<1>4. \/ size <= MaxOperations /\ RunFrom(id, r, 1, <<>>, gate)
      \/ Refused(id, r)
  BY Zenon DEF ReceiveRepair, Refused
<1> HIDE DEF r
<1>5. CASE size <= MaxOperations /\ RunFrom(id, r, 1, <<>>, gate)
  <2>1. Admits(r.chain[1], r.size)
    BY <1>1, <1>2, <1>5, SolveGatewayAssumption DEF Admits, SolveGatewayAssumption
  <2> QED BY <1>1, <1>3, <1>5, <2>1, EntersLoop
<1>6. CASE Refused(id, r)
  <2>1. Chain(r.chain)
    BY <1>1
  <2> QED BY <1>3, <1>6, <2>1, RefusedAtOnce
<1> QED BY <1>4, <1>5, <1>6

(* The slot an execution gives back is its own: the ones left are those of *)
(* the others, and one more is free than before.                           *)
LEMMA ReleasedIsOthers ==
  ASSUME GatewayInv, NEW id \in Requests, request[id].pc = "executing"
  PROVE  /\ Released \in Nat /\ Released = Cardinality(InExecution \ {id})
         /\ Released < MaxConcurrent /\ IsFiniteSet(InExecution)
<1>1. /\ IsFiniteSet(InExecution) /\ gate = Cardinality(InExecution)
      /\ gate <= MaxConcurrent /\ MaxConcurrent \in Nat
  BY SolveGatewayAssumption DEF GatewayInv, GateCounts, SolveGatewayAssumption
<1>2. id \in InExecution
  BY DEF InExecution
<1>3. IsFiniteSet(InExecution \ {id}) /\ Cardinality(InExecution \ {id}) = Cardinality(InExecution) - 1
  BY <1>1, <1>2, FS_RemoveElement
<1>4. Cardinality(InExecution) \in Nat /\ Cardinality(InExecution \ {id}) \in Nat
  BY <1>1, <1>3, FS_CardinalityType
<1> QED BY <1>1, <1>3, <1>4 DEF Released

(* No settled execution is answered 429, and a success is answered 200.    *)
LEMMA CodesOfOutcomes ==
  ASSUME NEW outcome \in Outcomes
  PROVE  /\ HttpStatus(outcome) # 429
         /\ outcome \in SuccessStatuses => HttpStatus(outcome) = 200
         /\ outcome # "none"
<1>1. outcome \in AllOutcomes
  BY SolveGatewayAssumption DEF SolveGatewayAssumption
<1>2. outcome # "none"
  BY <1>1 DEF AllOutcomes, BridgeCodes, Statuses
<1>3. outcome \in SuccessStatuses => outcome \in Statuses
  BY DEF Statuses, SuccessStatuses
<1>4. HttpStatus(outcome) # 429
  BY DEF HttpStatus
<1> QED BY <1>2, <1>3, <1>4 DEF HttpStatus

LEMMA SettleKeeps ==
  ASSUME GatewayInv, NEW id \in Requests, NEW outcome \in Outcomes, Settle(id, outcome)
  PROVE  GatewayInv'
<1> DEFINE r == request[id]
           attempts == Append(r.attempts, Attempt(r.chain[r.index], outcome))
<1>1. ExecutingFits(r) /\ r.pc = "executing"
  BY DEF Settle, GatewayInv, HandlersFit, Fits, AnsweredFits
<1>2. /\ Released \in Nat /\ Released = Cardinality(InExecution \ {id})
      /\ Released < MaxConcurrent /\ IsFiniteSet(InExecution) /\ MaxConcurrent \in Nat
  BY <1>1, ReleasedIsOthers, SolveGatewayAssumption DEF SolveGatewayAssumption
<1>3. /\ Chain(r.chain) /\ Len(r.chain) \in Nat /\ r.index \in 1 .. Len(r.chain)
      /\ r.attempts \in Seq(AttemptRecord) /\ Len(r.attempts) \in Nat
  BY <1>1 DEF ExecutingFits, Chain, Followed
<1>4. Followed(r.chain, r.size, attempts, r.index + 1)
  BY <1>1, <1>3, FollowedAttempt DEF ExecutingFits
<1>5. /\ Len(attempts) = Len(r.attempts) + 1
      /\ \A n \in 1 .. Len(r.attempts) : attempts[n] = r.attempts[n]
      /\ attempts[Len(attempts)].outcome = outcome
  <2>1. Attempt(r.chain[r.index], outcome).outcome = outcome
    BY DEF Attempt
  <2>2. Attempt(r.chain[r.index], outcome) \in AttemptRecord
    BY <1>3 DEF Attempt, AttemptRecord, Chain
  <2> HIDE DEF r
  <2> QED BY <1>3, <2>1, <2>2
<1>6. AllFailed(attempts, Len(attempts) - 1)
  BY <1>1, <1>3, <1>5 DEF ExecutingFits, AllFailed
<1>7. CASE CanRetry(r, outcome)
  <2>1. RunFrom(id, r, r.index + 1, attempts, Released)
    BY <1>7 DEF Settle
  <2>2. AllFailed(attempts, Len(attempts))
    <3>1. outcome \in Retryable
      BY <1>7 DEF CanRetry, Retryable
    <3>2. \A n \in 1 .. Len(attempts) : n \in 1 .. Len(attempts) - 1 \/ n = Len(attempts)
      BY <1>3, <1>5
    <3> HIDE DEF attempts
    <3> QED BY <1>5, <1>6, <3>1, <3>2 DEF AllFailed
  <2>3. r.index + 1 \in 1 .. Len(r.chain) + 1
    BY <1>3
  <2>4. Admits(r.chain[1], r.size) /\ (r.kind # "solve" \/ ~ LimitGuards => Len(r.chain) = 1)
    BY <1>1 DEF ExecutingFits
  <2>5. ~ (Released >= MaxConcurrent) /\ Released <= MaxConcurrent
    BY <1>2
  <2>6. HandlersFit
    BY DEF GatewayInv
  <2> HIDE DEF r, attempts
  <2>7. HandlersFit'
    BY <1>2, <1>3, <1>4, <2>1, <2>2, <2>3, <2>4, <2>5, <2>6, RunFromFits
  <2>8. GateCounts'
    BY <1>2, <2>1, <2>5, <2>6, RunFromCounts
  <2> QED BY <2>7, <2>8 DEF GatewayInv
<1>8. CASE ~ CanRetry(r, outcome)
  <2> DEFINE q == Answered(r, HttpStatus(outcome), outcome, attempts)
  <2>1. request' = [request EXCEPT ![id] = q] /\ gate' = Released
    BY <1>8 DEF Settle
  <2>2. /\ q.pc = "answered" /\ q.kind = r.kind /\ q.chain = r.chain /\ q.size = r.size
        /\ q.attempts = attempts /\ q.outcome = outcome /\ q.code = HttpStatus(outcome)
        /\ q.plotted <=> q.code = 200 /\ q.outcome \in SuccessStatuses
    BY DEF Answered
  <2>3. /\ HttpStatus(outcome) # 429
        /\ outcome \in SuccessStatuses => HttpStatus(outcome) = 200
        /\ outcome # "none"
    BY CodesOfOutcomes
  <2>4. r.kind = "solve" /\ LimitGuards /\ outcome \in Retryable => r.index = Len(r.chain)
    BY <1>3, <1>8 DEF CanRetry, Retryable
  <2>5. Admits(r.chain[1], r.size)
    BY <1>1 DEF ExecutingFits
  <2>6. attempts # <<>>
    <3>1. Len(r.attempts) \in Nat /\ Len(attempts) = Len(r.attempts) + 1
      BY <1>3, <1>5
    <3> HIDE DEF attempts, r
    <3> QED BY <3>1
  <2> HIDE DEF r, attempts, q
  <2>7. \E i \in 1 .. Len(q.chain) + 1 :
          /\ Followed(q.chain, q.size, q.attempts, i)
          /\ q.outcome # "none" /\ q.kind = "solve" /\ LimitGuards /\ q.outcome \in Retryable =>
               i = Len(q.chain) + 1
    <3>1. r.index + 1 \in 1 .. Len(r.chain) + 1
      BY <1>3
    <3> QED BY <1>4, <2>2, <2>4, <3>1
  <2>8. AnsweredFits(q)
    BY <1>3, <1>5, <1>6, <2>2, <2>3, <2>5, <2>6, <2>7 DEF AnsweredFits
  <2>9. HandlersFit'
    BY <2>1, <2>8, UpdateFits DEF Fits, GatewayInv
  <2>10. InExecution' = InExecution \ {id}
    BY <2>1, <2>2 DEF InExecution, GatewayInv, HandlersFit
  <2>11. IsFiniteSet(InExecution \ {id})
    BY <1>2, FS_Subset
  <2>12. GateCounts'
    BY <1>2, <2>1, <2>10, <2>11 DEF GateCounts
  <2> QED BY <2>9, <2>12 DEF GatewayInv
<1> QED BY <1>7, <1>8

LEMMA StepKeeps == GatewayInv /\ [Next]_vars => GatewayInv'
<1> SUFFICES ASSUME GatewayInv, [Next]_vars PROVE GatewayInv'
  OBVIOUS
<1>1. CASE UNCHANGED vars
  <2>1. InExecution' = InExecution
    BY <1>1 DEF vars, InExecution
  <2> QED BY <1>1, <2>1 DEF vars, GatewayInv, GateCounts, HandlersFit
<1>2. CASE Next
  <2>1. PICK id \in Requests :
          \/ \E size \in Sizes, aclOk \in BOOLEAN :
               \/ \E initial \in Initials : ReceiveSolve(id, initial, size, aclOk)
               \/ ReceiveRepair(id, size, aclOk)
          \/ \E outcome \in Outcomes : Settle(id, outcome)
    BY <1>2 DEF Next, SettleSome
  <2> QED BY <2>1, ReceiveSolveKeeps, ReceiveRepairKeeps, SettleKeeps
<1> QED BY <1>1, <1>2

(* The invariant holds of the routes, whatever bridge calls answer.        *)
THEOREM GatewayInvHolds == Spec => []GatewayInv
BY InitGateway, StepKeeps, PTL DEF Spec

-----------------------------------------------------------------------------
(* The concurrency gate counts the Python processes of the two synchronous *)
(* routes exactly, across retries, refusals and errors, and stays within   *)
(* its limit.                                                              *)
THEOREM GateExact == Spec => []GateIsExact
<1>1. GatewayInv => GateIsExact
  BY DEF GatewayInv, GateCounts, GateIsExact
<1> QED BY <1>1, GatewayInvHolds, PTL

(* A request that has run is never answered 429: a retry takes the slot    *)
(* its own previous attempt gave back.                                     *)
THEOREM RetriesKeepTheirSlot == Spec => []RetryKeepsItsSlot
<1>1. GatewayInv => RetryKeepsItsSlot
  BY DEF GatewayInv, HandlersFit, Fits, ExecutingFits, AnsweredFits, RetryKeepsItsSlot
<1> QED BY <1>1, GatewayInvHolds, PTL

LEMMA PositionInChain ==
  ASSUME NEW chain, Chain(chain), NEW k \in 1 .. Len(chain)
  PROVE  PositionIn(chain, chain[k]) = k
<1>1. \A j \in 1 .. Len(chain) : chain[j] = chain[k] => j = k
  BY DEF Chain
<1> QED BY <1>1 DEF PositionIn

LEMMA FollowedPositions ==
  ASSUME NEW chain, Chain(chain), NEW size, NEW attempts, NEW i \in 1 .. Len(chain) + 1,
         Followed(chain, size, attempts, i), NEW n \in 1 .. Len(attempts)
  PROVE  /\ PositionIn(chain, attempts[n].solver) \in 1 .. i - 1
         /\ PositionIn(chain, attempts[n].solver) \in 1 .. Len(chain)
         /\ chain[PositionIn(chain, attempts[n].solver)] = attempts[n].solver
         /\ Admits(attempts[n].solver, size)
<1>1. PICK k \in 1 .. i - 1 : attempts[n].solver = chain[k] /\ Admits(chain[k], size)
  BY DEF Followed
<1>2. Len(chain) \in Nat /\ k \in 1 .. Len(chain)
  BY DEF Chain
<1> QED BY <1>1, <1>2, PositionInChain

(* What the property says of one request. *)
LEMMA FollowedIsInOrder ==
  ASSUME NEW chain, Chain(chain), NEW size, NEW attempts, NEW i \in 1 .. Len(chain) + 1,
         Followed(chain, size, attempts, i), attempts # <<>> => Admits(chain[1], size)
  PROVE  /\ \A m, n \in 1 .. Len(attempts) :
              m < n => PositionIn(chain, attempts[m].solver) < PositionIn(chain, attempts[n].solver)
         /\ attempts # <<>> => attempts[1].solver = chain[1]
         /\ \A n \in 1 .. Len(attempts) : Admits(attempts[n].solver, size)
         /\ attempts # <<>> =>
              \A k \in 1 .. PositionIn(chain, attempts[Len(attempts)].solver) :
                Admits(chain[k], size) =>
                  \E n \in 1 .. Len(attempts) : attempts[n].solver = chain[k]
<1>1. /\ Len(chain) \in Nat /\ Len(chain) >= 1
      /\ attempts \in Seq(AttemptRecord) /\ Len(attempts) \in Nat
      /\ attempts # <<>> => Len(attempts) >= 1
  BY DEF Chain, Followed
<1>2. \A m, n \in 1 .. Len(attempts) :
        m < n => PositionIn(chain, attempts[m].solver) < PositionIn(chain, attempts[n].solver)
  <2> SUFFICES ASSUME NEW m \in 1 .. Len(attempts), NEW n \in 1 .. Len(attempts), m < n
               PROVE  PositionIn(chain, attempts[m].solver) < PositionIn(chain, attempts[n].solver)
    OBVIOUS
  <2>1. /\ PositionIn(chain, attempts[m].solver) \in 1 .. Len(chain)
        /\ chain[PositionIn(chain, attempts[m].solver)] = attempts[m].solver
        /\ PositionIn(chain, attempts[n].solver) \in 1 .. Len(chain)
        /\ chain[PositionIn(chain, attempts[n].solver)] = attempts[n].solver
    BY FollowedPositions
  <2> QED BY <2>1 DEF Followed
<1>3. \A n \in 1 .. Len(attempts) : Admits(attempts[n].solver, size)
  BY FollowedPositions
<1>4. ASSUME attempts # <<>> PROVE attempts[1].solver = chain[1]
  <2>1. 1 \in 1 .. Len(attempts) /\ 1 \in 1 .. Len(chain)
    BY <1>1, <1>4
  <2>2. PositionIn(chain, attempts[1].solver) \in 1 .. i - 1
    BY <2>1, FollowedPositions
  <2>3. 1 \in 1 .. i - 1
    BY <2>2
  <2>4. PICK n \in 1 .. Len(attempts) : attempts[n].solver = chain[1]
    BY <1>4, <2>3 DEF Followed
  <2>5. PositionIn(chain, attempts[n].solver) = 1
    BY <2>1, <2>4, PositionInChain
  <2>6. CASE n = 1
    BY <2>4, <2>6
  <2>7. CASE 1 < n
    <3>1. PositionIn(chain, attempts[1].solver) < PositionIn(chain, attempts[n].solver)
      BY <1>2, <2>1, <2>7
    <3> QED BY <2>2, <2>5, <3>1
  <2> QED BY <1>1, <2>6, <2>7
<1>5. ASSUME attempts # <<>>,
             NEW k \in 1 .. PositionIn(chain, attempts[Len(attempts)].solver), Admits(chain[k], size)
      PROVE  \E n \in 1 .. Len(attempts) : attempts[n].solver = chain[k]
  <2>1. PositionIn(chain, attempts[Len(attempts)].solver) \in 1 .. i - 1
    BY <1>1, <1>5, FollowedPositions
  <2>2. k \in 1 .. i - 1
    BY <2>1
  <2> QED BY <1>5, <2>2 DEF Followed
<1> QED BY <1>2, <1>3, <1>4, <1>5

(* The attempts of a request are a subsequence of its chain, each fit for  *)
(* the problem and none that fits left out.                                *)
LEMMA AttemptsAreFollowed == GatewayInv => AttemptsFollowChain
<1> SUFFICES ASSUME GatewayInv, NEW id \in Requests, request[id].pc # "idle"
             PROVE  LET r == request[id] IN
                    /\ \A m, n \in 1 .. Len(r.attempts) :
                         m < n => PositionIn(r.chain, Solver(r, m)) < PositionIn(r.chain, Solver(r, n))
                    /\ r.attempts # <<>> => Solver(r, 1) = r.chain[1]
                    /\ \A n \in 1 .. Len(r.attempts) : Admits(Solver(r, n), r.size)
                    /\ r.attempts # <<>> =>
                         \A k \in 1 .. PositionIn(r.chain, Solver(r, Len(r.attempts))) :
                           Admits(r.chain[k], r.size) =>
                             \E n \in 1 .. Len(r.attempts) : Solver(r, n) = r.chain[k]
  BY DEF AttemptsFollowChain
<1> DEFINE r == request[id]
<1>1. \/ ExecutingFits(r) \/ AnsweredFits(r)
  BY DEF GatewayInv, HandlersFit, Fits
<1>2. /\ Chain(r.chain)
      /\ r.attempts # <<>> => Admits(r.chain[1], r.size)
      /\ \E i \in 1 .. Len(r.chain) + 1 : Followed(r.chain, r.size, r.attempts, i)
  <2>1. CASE ExecutingFits(r)
    <3>1. r.index \in 1 .. Len(r.chain) + 1
      BY <2>1 DEF ExecutingFits, Chain
    <3> QED BY <2>1, <3>1 DEF ExecutingFits
  <2>2. CASE AnsweredFits(r)
    BY <2>2 DEF AnsweredFits
  <2> QED BY <1>1, <2>1, <2>2
<1> DEFINE c == r.chain
           s == r.size
           a == r.attempts
<1>3. PICK i \in 1 .. Len(c) + 1 : Followed(c, s, a, i)
  BY <1>2
<1>4. Chain(c) /\ (a # <<>> => Admits(c[1], s))
  BY <1>2
<1> HIDE DEF c, s, a
<1>5. /\ \A m, n \in 1 .. Len(a) :
           m < n => PositionIn(c, a[m].solver) < PositionIn(c, a[n].solver)
      /\ a # <<>> => a[1].solver = c[1]
      /\ \A n \in 1 .. Len(a) : Admits(a[n].solver, s)
      /\ a # <<>> =>
           \A k \in 1 .. PositionIn(c, a[Len(a)].solver) :
             Admits(c[k], s) => \E n \in 1 .. Len(a) : a[n].solver = c[k]
  BY <1>3, <1>4, FollowedIsInOrder
<1> QED BY <1>5 DEF Solver, c, s, a

(* A failure reaches the client of a guarded solve only when the chain is  *)
(* used up, and it is the last attempt's.                                  *)
LEMMA FallbackIsUsedUp == GatewayInv => FallbackIsExhausted
<1> SUFFICES ASSUME GatewayInv, NEW id \in Requests,
                    request[id].pc = "answered", request[id].kind = "solve",
                    request[id].outcome # "none"
             PROVE  LET r == request[id] IN
                    /\ r.attempts[Len(r.attempts)].outcome = r.outcome
                    /\ LimitGuards /\ r.outcome \in RetryableCodes \cup RetryableStatuses =>
                         \A k \in 1 .. Len(r.chain) :
                           Admits(r.chain[k], r.size) =>
                             \E n \in 1 .. Len(r.attempts) : Solver(r, n) = r.chain[k]
  BY DEF FallbackIsExhausted
<1> DEFINE r == request[id]
<1>1. AnsweredFits(r)
  BY DEF GatewayInv, HandlersFit, Fits, ExecutingFits
<1>2. r.attempts[Len(r.attempts)].outcome = r.outcome
  BY <1>1 DEF AnsweredFits
<1>3. ASSUME LimitGuards, r.outcome \in RetryableCodes \cup RetryableStatuses,
             NEW k \in 1 .. Len(r.chain), Admits(r.chain[k], r.size)
      PROVE  \E n \in 1 .. Len(r.attempts) : Solver(r, n) = r.chain[k]
  <2>1. Followed(r.chain, r.size, r.attempts, Len(r.chain) + 1)
    BY <1>1, <1>3 DEF AnsweredFits, Retryable
  <2>2. k \in 1 .. (Len(r.chain) + 1) - 1
    BY <1>1 DEF AnsweredFits, Chain
  <2> QED BY <1>3, <2>1, <2>2 DEF Followed, Solver
<1> QED BY <1>2, <1>3

(* A success ends the attempts and keeps its assignments. *)
LEMMA SuccessIsLast == GatewayInv => OnlySuccessIsPlotted
<1> SUFFICES ASSUME GatewayInv, NEW id \in Requests, request[id].pc # "idle"
             PROVE  LET r == request[id] IN
                    /\ \A n \in 1 .. Len(r.attempts) :
                         r.attempts[n].outcome \in SuccessStatuses =>
                           r.pc = "answered" /\ r.plotted /\ n = Len(r.attempts)
                    /\ r.pc = "answered" /\ r.plotted =>
                         r.attempts[Len(r.attempts)].outcome \in SuccessStatuses
  BY DEF OnlySuccessIsPlotted
<1> DEFINE r == request[id]
<1>1. \A o \in Retryable : o \notin SuccessStatuses
  BY DEF Retryable, RetryableCodes, RetryableStatuses, SuccessStatuses
<1>2. ExecutingFits(r) \/ AnsweredFits(r)
  BY DEF GatewayInv, HandlersFit, Fits
<1> HIDE DEF r
<1>3. CASE ExecutingFits(r)
  <2>1. \A n \in 1 .. Len(r.attempts) : r.attempts[n].outcome \notin SuccessStatuses
    BY <1>1, <1>3 DEF ExecutingFits, AllFailed
  <2> QED BY <1>3, <2>1 DEF ExecutingFits, r
<1>4. CASE AnsweredFits(r)
  <2>1. Len(r.attempts) \in Nat
    BY <1>4 DEF AnsweredFits, Followed
  <2>2. CASE r.outcome = "none" /\ AllFailed(r.attempts, Len(r.attempts))
    <3>1. \A n \in 1 .. Len(r.attempts) : r.attempts[n].outcome \notin SuccessStatuses
      BY <1>1, <2>2 DEF AllFailed
    <3>2. ~ r.plotted
      BY <1>4, <2>2 DEF AnsweredFits, SuccessStatuses
    <3> QED BY <1>4, <3>1, <3>2 DEF AnsweredFits, r
  <2>3. CASE /\ r.outcome \in Outcomes /\ r.attempts # <<>>
             /\ r.attempts[Len(r.attempts)].outcome = r.outcome
             /\ AllFailed(r.attempts, Len(r.attempts) - 1)
    <3>1. \A n \in 1 .. Len(r.attempts) :
            n = Len(r.attempts) \/ r.attempts[n].outcome \notin SuccessStatuses
      <4> TAKE n \in 1 .. Len(r.attempts)
      <4>1. n = Len(r.attempts) \/ n \in 1 .. Len(r.attempts) - 1
        BY <2>1
      <4> QED BY <1>1, <2>3, <4>1 DEF AllFailed
    <3>2. r.plotted <=> r.attempts[Len(r.attempts)].outcome \in SuccessStatuses
      BY <1>4, <2>3 DEF AnsweredFits
    <3> QED BY <1>4, <3>1, <3>2 DEF AnsweredFits, r
  <2> QED BY <1>4, <2>2, <2>3 DEF AnsweredFits
<1> QED BY <1>2, <1>3, <1>4

(* The attempts made and the answer given fit each other and the chain,    *)
(* whatever each execution ended with and however requests interleave.     *)
THEOREM AnswersFitAttempts == Spec => []AnswerFitsAttempts
<1>1. GatewayInv => AnswerFitsAttempts
  BY AttemptsAreFollowed, FallbackIsUsedUp, SuccessIsLast DEF AnswerFitsAttempts
<1> QED BY <1>1, GatewayInvHolds, PTL

=============================================================================
