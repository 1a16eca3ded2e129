---------------------------- MODULE SolveGateway ----------------------------
(***************************************************************************)
(* The synchronous routes of the control plane (control-plane/src/app.ts): *)
(* POST /api/v1/solve with its limit-guard fallback chain, POST            *)
(* /api/v1/repair, and the concurrency gate they share.                    *)
(*                                                                         *)
(* A handler suspends only on the executor's promise.  An action is        *)
(* therefore a whole turn of the event loop: from the request to its first *)
(* execution or its answer, or from one settled execution to the next one  *)
(* or the answer, the release in "finally" and the acquire of the next     *)
(* attempt included.                                                       *)
(***************************************************************************)
EXTENDS Integers, FiniteSets, SequencesExt

CONSTANTS
  Requests,        \* identities of the requests that can arrive
  Solvers,         \* solver_config names
  Null,            \* solver_config: null, the router chooses
  Initials,        \* the configurations clients ask for
  Sizes,           \* numbers of operations of the submitted problems
  ExactSolvers,    \* classifySolverConfig(s) = "exact"
  HeavySolvers,    \* classifySolverConfig(s) = "heavy_metaheuristic"
  MaxOperations, ExactMaxOperations, HeavyMaxOperations,   \* AdmissionLimits
  LimitGuards,     \* limitGuardsEnabled
  LimitGuardChain, \* parseLimitGuardChain(): a sequence of solvers
  MaxConcurrent,   \* resolveMaxConcurrentSolves()
  Outcomes         \* what an execution can end with, a subset of AllOutcomes

(* Bridge error codes, result statuses of a response that passes contract  *)
(* validation, "contract" for one that does not, and "internal" for an     *)
(* exception raised outside the bridge's own error handling.               *)
BridgeCodes == {"bridge timeout", "oom", "output_limit", "bridge"}
RetryableCodes == {"bridge timeout", "oom", "output_limit"}
Statuses == {"optimal", "feasible", "infeasible", "timeout", "error"}
RetryableStatuses == {"timeout", "error"}
SuccessStatuses == {"feasible", "optimal"}
AllOutcomes == BridgeCodes \cup Statuses \cup {"contract", "internal"}

ASSUME SolveGatewayAssumption ==
  /\ Null \notin Solvers
  /\ Initials \subseteq Solvers \cup {Null}
  /\ ExactSolvers \subseteq Solvers /\ HeavySolvers \subseteq Solvers
  /\ LimitGuards \in BOOLEAN
  /\ LimitGuardChain \in Seq(Solvers)
  /\ MaxConcurrent \in Nat \ {0}
  /\ Outcomes \subseteq AllOutcomes

VARIABLES
  gate,      \* createSolveConcurrencyGate: inflight
  request    \* the state of every request's handler; attempts lists all its
             \* executions, those the handler's own list leaves out included

vars == <<gate, request>>

-----------------------------------------------------------------------------
(* buildSolveAttemptChain; the fallback chain is empty without guards.     *)
SolveAttemptChain(initial) ==
  IF LimitGuards
    THEN FoldLeft(LAMBDA chain, s : IF s \in Range(chain) THEN chain ELSE Append(chain, s),
                  <<initial>>, LimitGuardChain)
    ELSE <<initial>>

(* admitInlineProblem: the caps on counts, then assertSolverFitsOps.       *)
Admits(solver, size) ==
  /\ size <= MaxOperations
  /\ solver \in ExactSolvers => size <= ExactMaxOperations
  /\ solver \in HeavySolvers => size <= HeavyMaxOperations

Attempt(solver, outcome) == [solver |-> solver, outcome |-> outcome]

NotArrived == [pc |-> "idle"]

Answered(r, code, outcome, attempts) ==
  [pc |-> "answered", kind |-> r.kind, chain |-> r.chain, size |-> r.size,
   attempts |-> attempts, code |-> code, outcome |-> outcome,
   plotted |-> code = 200 /\ outcome \in SuccessStatuses]

Executing(r, i, attempts) ==
  [pc |-> "executing", kind |-> r.kind, chain |-> r.chain, size |-> r.size,
   attempts |-> attempts, index |-> i]

(* The loop from index i to its next await or exit: attempts the admission *)
(* rejects are skipped, a rejected last one ends the request, and the one  *)
(* that is left needs a free slot.                                         *)
FirstAdmitted(r, i) ==
  CHOOSE k \in i .. Len(r.chain) :
    /\ Admits(r.chain[k], r.size)
    /\ \A m \in i .. k - 1 : ~ Admits(r.chain[m], r.size)

RunFrom(id, r, i, attempts, taken) ==
  IF \A k \in i .. Len(r.chain) : ~ Admits(r.chain[k], r.size)
    THEN /\ request' = [request EXCEPT ![id] = Answered(r, 422, "none", attempts)]
         /\ gate' = taken
    ELSE IF taken >= MaxConcurrent
           THEN /\ request' = [request EXCEPT ![id] = Answered(r, 429, "none", attempts)]
                /\ gate' = taken
           ELSE /\ request' = [request EXCEPT ![id] =
                                 Executing(r, FirstAdmitted(r, i), attempts)]
                /\ gate' = taken + 1

(* A bug: an attempt's slot is kept. *)
NotReleased == gate

(* The gate's count after the "finally" of an attempt. *)
Released == IF gate > 0 THEN gate - 1 ELSE 0

-----------------------------------------------------------------------------
Init ==
  /\ gate = 0
  /\ request = [id \in Requests |-> NotArrived]

(* POST /api/v1/solve.  The payload is admitted once with the solver it    *)
(* names and again at the head of every attempt; aclOk is the outcome of   *)
(* the guardrails applied in between.                                      *)
ReceiveSolve(id, initial, size, aclOk) ==
  LET r == [kind |-> "solve", chain |-> SolveAttemptChain(initial), size |-> size] IN
  /\ request[id].pc = "idle"
  /\ IF Admits(initial, size) /\ aclOk
       THEN RunFrom(id, r, 1, <<>>, gate)
       ELSE /\ request' = [request EXCEPT ![id] = Answered(r, 422, "none", <<>>)]
            /\ UNCHANGED gate

(* POST /api/v1/repair: admitted as the constructive solver, no chain.     *)
ReceiveRepair(id, size, aclOk) ==
  LET r == [kind |-> "repair", chain |-> <<Null>>, size |-> size] IN
  /\ request[id].pc = "idle"
  /\ IF size <= MaxOperations /\ aclOk
       THEN RunFrom(id, r, 1, <<>>, gate)
       ELSE /\ request' = [request EXCEPT ![id] = Answered(r, 422, "none", <<>>)]
            /\ UNCHANGED gate

(* A bug: results that report a timeout or an error are not retried. *)
CanRetryBridgeErrors(r, outcome) ==
  /\ r.kind = "solve"
  /\ LimitGuards
  /\ outcome \in RetryableCodes
  /\ r.index < Len(r.chain)

CanRetry(r, outcome) ==
  /\ r.kind = "solve"
  /\ LimitGuards
  /\ outcome \in RetryableCodes \cup RetryableStatuses
  /\ r.index < Len(r.chain)

(* deriveHttpStatusFromBridgeError and the error handler's last case. *)
HttpStatus(outcome) ==
  IF outcome \in Statuses THEN 200
  ELSE IF outcome = "bridge timeout" THEN 504
  ELSE IF outcome \in {"oom", "output_limit"} THEN 503
  ELSE IF outcome \in {"bridge", "contract"} THEN 502
  ELSE 500

(* Bugs: the next attempt asks for its slot before the last one's release, *)
(* and an answer waits until a slot is free.                               *)
SettleRetryFirst(id, outcome) ==
  LET r == request[id]
      attempts == Append(r.attempts, Attempt(r.chain[r.index], outcome))
  IN
  /\ r.pc = "executing"
  /\ IF CanRetry(r, outcome)
       THEN RunFrom(id, r, r.index + 1, attempts, gate)
       ELSE /\ request' = [request EXCEPT ![id] =
                             Answered(r, HttpStatus(outcome), outcome, attempts)]
            /\ gate' = Released

SettleWhenFree(id, outcome) == gate < MaxConcurrent /\ SettleRetryFirst(id, outcome)

(* The executor's promise settles. *)
Settle(id, outcome) ==
  LET r == request[id]
      attempts == Append(r.attempts, Attempt(r.chain[r.index], outcome))
  IN
  /\ r.pc = "executing"
  /\ IF CanRetry(r, outcome)
       THEN RunFrom(id, r, r.index + 1, attempts, Released)
       ELSE /\ request' = [request EXCEPT ![id] =
                             Answered(r, HttpStatus(outcome), outcome, attempts)]
            /\ gate' = Released

SettleSome(id) == \E outcome \in Outcomes : Settle(id, outcome)

Next ==
  \E id \in Requests :
    \/ \E size \in Sizes, aclOk \in BOOLEAN :
         \/ \E initial \in Initials : ReceiveSolve(id, initial, size, aclOk)
         \/ ReceiveRepair(id, size, aclOk)
    \/ SettleSome(id)

Spec == Init /\ [][Next]_vars

(* The bridge settles every execution, as PythonBridge does with a timeout *)
(* and pipes that are released.                                            *)
FairSpec == Spec /\ \A id \in Requests : WF_vars(SettleSome(id))

-----------------------------------------------------------------------------
InExecution == {id \in Requests : request[id].pc = "executing"}

(* The gate counts the Python processes of the two synchronous routes      *)
(* exactly, across every retry, refusal and error path, and never lets     *)
(* more than the configured number run.                                    *)
GateIsExact ==
  /\ gate = Cardinality(InExecution)
  /\ gate <= MaxConcurrent

(* The slot a retry needs is the one its own previous attempt released, so *)
(* a request that has run is never told 429: the release and the acquire   *)
(* of a retry are in one turn of the event loop.                           *)
RetryKeepsItsSlot ==
  \A id \in Requests :
    request[id].pc = "answered" /\ request[id].code = 429 => request[id].attempts = <<>>

Solver(r, n) == r.attempts[n].solver
PositionIn(chain, solver) == CHOOSE k \in 1 .. Len(chain) : chain[k] = solver

(* The attempts of a request are a subsequence of its chain: the solver    *)
(* it asked for first, no solver twice, each one fit for the size of the   *)
(* problem, and the ones left out unfit.                                   *)
AttemptsFollowChain ==
  \A id \in Requests :
    LET r == request[id] IN
    r.pc # "idle" =>
      /\ \A m, n \in 1 .. Len(r.attempts) :
           m < n => PositionIn(r.chain, Solver(r, m)) < PositionIn(r.chain, Solver(r, n))
      /\ r.attempts # <<>> => Solver(r, 1) = r.chain[1]
      /\ \A n \in 1 .. Len(r.attempts) : Admits(Solver(r, n), r.size)
      /\ r.attempts # <<>> =>
           \A k \in 1 .. PositionIn(r.chain, Solver(r, Len(r.attempts))) :
             Admits(r.chain[k], r.size) =>
               \E n \in 1 .. Len(r.attempts) : Solver(r, n) = r.chain[k]

(* With guards on, a timeout, an out-of-memory or an error result reaches  *)
(* the client only after every solver of the chain that fits the problem   *)
(* has been tried; what is answered is what the last attempt said.         *)
FallbackIsExhausted ==
  \A id \in Requests :
    LET r == request[id] IN
    r.pc = "answered" /\ r.kind = "solve" /\ r.outcome # "none" =>
      /\ r.attempts[Len(r.attempts)].outcome = r.outcome
      /\ LimitGuards /\ r.outcome \in RetryableCodes \cup RetryableStatuses =>
           \A k \in 1 .. Len(r.chain) :
             Admits(r.chain[k], r.size) =>
               \E n \in 1 .. Len(r.attempts) : Solver(r, n) = r.chain[k]

(* Only a schedule the solver calls feasible or optimal keeps its          *)
(* assignments on the way out, and it is never followed by another try.    *)
OnlySuccessIsPlotted ==
  \A id \in Requests :
    LET r == request[id] IN
    r.pc # "idle" =>
      /\ \A n \in 1 .. Len(r.attempts) :
           r.attempts[n].outcome \in SuccessStatuses =>
             r.pc = "answered" /\ r.plotted /\ n = Len(r.attempts)
      /\ r.pc = "answered" /\ r.plotted =>
           r.attempts[Len(r.attempts)].outcome \in SuccessStatuses

(* The attempts made and the answer given fit each other and the chain,    *)
(* with or without guards, and whatever each execution ended with.         *)
AnswerFitsAttempts == AttemptsFollowChain /\ FallbackIsExhausted /\ OnlySuccessIsPlotted

(* Every request that arrives is answered, and a slot taken is given back, *)
(* as long as the bridge settles.                                          *)
EveryRequestAnswered ==
  \A id \in Requests : request[id].pc # "idle" ~> request[id].pc = "answered"
=============================================================================
