----------------------------- MODULE CpSatSolver -----------------------------
(***************************************************************************)
(* CpSatSolver.solve and the two-stage solver over it                      *)
(* (synaps/solvers/cpsat_solver.py, pareto_slice_solver.py): the objective *)
(* of each mode, the symmetry cut, the answer that is extracted, and the   *)
(* slices of a bounded Pareto front.                                       *)
(*                                                                         *)
(* CP-SAT itself is external: what it returns is any solution of the model *)
(* when it stops early, a solution of least cost when it claims OPTIMAL,   *)
(* and with either a dual bound that no solution undercuts.  Makespan and  *)
(* tardiness are variables bounded from below by the schedule, so that a   *)
(* solution may hold more than the schedule's own value.                   *)
(***************************************************************************)
EXTENDS CpSatModel, Objective, Sequences

CONSTANTS
  Problems,      \* [ops, fixed]: the operations of a solve, its frozen assignments
  Settings,      \* symmetry, mode, primary, cap (or None) and weights of a solve
  MachineOrder,  \* problem.work_centers
  Group,         \* capability_group and speed_factor of each machine
  SafeMax,       \* _SAFE_OBJECTIVE_MAX
  Grid,          \* the epsilon grid of a Pareto request, in percent, ascending
  Primary,       \* its primary objective
  Slacks,        \* bound of the model: how much a loose variable may exceed
  Gaps           \* bound of the model: how far below the optimum a bound may stop

ASSUME CpSatSolverAssumption ==
  /\ IsFiniteSet(Machines) /\ IsFiniteSet(States)
  /\ \A q \in Problems :
       /\ q.ops \subseteq Ops /\ DOMAIN q.fixed \subseteq Ops \ q.ops
       /\ \A f \in DOMAIN q.fixed :
            /\ q.fixed[f] \in Assignment
            /\ q.fixed[f].end = q.fixed[f].start + Duration[f][q.fixed[f].wc]
       /\ \A o \in q.ops : PredecessorOf[o] \in q.ops \cup DOMAIN q.fixed \cup {None}
  /\ \A s \in Settings :
       /\ s.symmetry \in BOOLEAN /\ s.mode \in {"weighted_sum", "epsilon_primary"}
       /\ s.primary \in {"makespan", "setup", "tardiness"}
       /\ s.cap \in Nat \cup {None} /\ s.setup \in Nat /\ s.tardiness \in Nat
  /\ \A m \in Machines : \E i \in 1 .. Len(MachineOrder) : MachineOrder[i] = m
  /\ SafeMax \in Nat
  /\ Grid \in Seq(Nat) /\ Grid # << >> /\ \A i \in 1 .. Len(Grid) : Grid[i] >= 100
  /\ Primary \in {"makespan", "setup", "tardiness"}
  /\ Slacks \subseteq Nat /\ 0 \in Slacks /\ Gaps \subseteq Nat

-----------------------------------------------------------------------------
(* The symmetry cut. *)

(* _machine_symmetry_classes. *)
Interchangeable(q, a, b) ==
  /\ On(q.fixed, a) = {} /\ On(q.fixed, b) = {}
  /\ Group[a] = Group[b]
  /\ SetupMinutes[a] = SetupMinutes[b]
  /\ \A o \in q.ops :
       /\ a \in EligibleFor[o] <=> b \in EligibleFor[o]
       /\ Duration[o][a] = Duration[o][b]

LoadsOrdered(q, free) ==
  \A i, j \in 1 .. Len(MachineOrder) :
    i < j /\ Interchangeable(q, MachineOrder[i], MachineOrder[j]) =>
      Cardinality(On(free, MachineOrder[j])) <= Cardinality(On(free, MachineOrder[i]))

-----------------------------------------------------------------------------
(* The objective. *)

MaxSetup ==
  Latest({0} \cup UNION {{SetupMinutes[m][s][t] : s \in States, t \in States} : m \in Machines})

SetupBound(q) == Larger(1, MaxSetup * Larger(Cardinality(q.ops), 1))

TardinessBound(q) ==
  MapThenSumSet(LAMBDA r : HorizonEnd + Larger(0, -Due[r]), Orders)

(* A bug: the sum of the secondary terms may reach the multiplier. *)
SecondaryBoundOfSetups(q, s) == s.setup * SetupBound(q) + 1

SecondaryBound(q, s) ==
  s.setup * SetupBound(q) + s.tardiness * Larger(1, TardinessBound(q)) + 1

Overflows(term, multiplier) == term * (multiplier + 1) > SafeMax

PrimaryBound(q, primary) ==
  IF primary = "setup" THEN SetupBound(q) ELSE Larger(1, TardinessBound(q))

(* Whether the cost is makespan alone, the terms behind it left unminimized. *)
MakespanAlone(q, s) ==
  IF s.mode = "epsilon_primary"
    THEN s.primary = "makespan" \/ Overflows(PrimaryBound(q, s.primary), HorizonEnd)
    ELSE s.cap # None \/ Overflows(SecondaryBound(q, s), HorizonEnd)

(* _minimize_scalarized_objective. *)
Cost(q, s, v) ==
  IF MakespanAlone(q, s) THEN v.makespan
  ELSE IF s.mode = "epsilon_primary" THEN v[s.primary] * (HorizonEnd + 1) + v.makespan
  ELSE v.makespan * SecondaryBound(q, s) + s.setup * v.setup + s.tardiness * v.tardiness

-----------------------------------------------------------------------------
(* The schedules of a problem that the model admits, and those it should. *)

Schedules == [q \in Problems |-> Admitted(q.fixed, q.ops, Edges)]

LegalSchedules ==
  [q \in {p \in Problems : p.fixed = Empty} |-> {s \in SchedulesOf(q.ops) : Legal(q.ops, s)}]

(* completion and tardiness of an order the model gives no operation are   *)
(* not those of the evaluator, for which it completes at the horizon.      *)
ModelTardiness(free) ==
  LET completion(r) == Latest({free[o].end : o \in {x \in DOMAIN free : OrderOf[x] = r}} \cup {0})
  IN  MapThenSumSet(LAMBDA r : Larger(completion(r) - Due[r], 0), Orders)

ValuesOf(free) ==
  [makespan |-> Makespan(free), setup |-> TotalSetup(free), tardiness |-> ModelTardiness(free)]

Loosened(v, dm, dt) == [v EXCEPT !.makespan = @ + dm, !.tardiness = @ + dt]

Within(s, v) == s.cap # None => v.makespan <= s.cap

(* The solutions of the model under a setting. *)
Solutions(q, s) ==
  {x \in {[schedule |-> p, values |-> Loosened(ValuesOf(p), dm, dt)] :
            p \in {f \in Schedules[q] : s.symmetry => LoadsOrdered(q, f)},
            dm \in Slacks, dt \in Slacks} :
     x.values.makespan <= HorizonEnd /\ Within(s, x.values)}

Optimum(q, s, solutions) ==
  LET costs == {Cost(q, s, x.values) : x \in solutions}
  IN  CHOOSE c \in costs : \A d \in costs : c <= d

-----------------------------------------------------------------------------
(* _extract_solution_and_objective. *)

PublishedBound(q, s, bound) ==
  IF s.mode = "weighted_sum" /\ s.cap = None THEN bound \div SecondaryBound(q, s) ELSE bound

(* objective_bound_units is makespan_minutes. *)
BoundsMakespan(s) == s.mode # "epsilon_primary" \/ s.primary = "makespan"

Answer(status, schedule, values, bound) ==
  [status |-> status, schedule |-> schedule, values |-> values, bound |-> bound]

NoAnswer(status) == Answer(status, Empty, None, None)

Found(q, s, status, x, bound) ==
  Answer(status, RecomputeSetups(x.schedule), x.values, PublishedBound(q, s, bound))

(* What a solve may return. *)
Answers(q, s) ==
  LET solutions == Solutions(q, s)
      best == Optimum(q, s, solutions)
  IN  IF ~ FixedFits(q.fixed, q.ops) THEN {NoAnswer("refused")}
      ELSE IF solutions = {} THEN {NoAnswer("infeasible"), NoAnswer("timeout")}
      ELSE {NoAnswer("timeout")}
           \cup {Found(q, s, "optimal", x, best) :
                   x \in {y \in solutions : Cost(q, s, y.values) = best}}
           \cup {Found(q, s, "feasible", x, Larger(best - g, 0)) : x \in solutions, g \in Gaps}

-----------------------------------------------------------------------------
(* A single solve, or ParetoSliceCpSatSolver.solve. *)

VARIABLES
  problem,
  setting,   \* of a single solve, or None
  stage,     \* "asked", "slices", "done"
  baseline,  \* of a Pareto request: the outcome of stage 1
  index,     \* the next slice
  slices,    \* what each slice gave: status and values
  chosen,    \* selected_result, the index of a slice or 0
  answer     \* what is returned

vars == <<problem, setting, stage, baseline, index, slices, chosen, answer>>

Init ==
  /\ problem \in Problems
  /\ setting \in Settings \cup {None}
  /\ stage = "asked"
  /\ baseline = None
  /\ index = 1
  /\ slices = <<>>
  /\ chosen = 0
  /\ answer = None

SolveOnce ==
  /\ stage = "asked"
  /\ setting # None
  /\ answer' \in Answers(problem, setting)
  /\ stage' = "done"
  /\ UNCHANGED <<problem, setting, baseline, index, slices, chosen>>

(* The default model of stage 1, then a cap on makespan for each ratio. *)
BaselineSetting ==
  [symmetry |-> FALSE, mode |-> "weighted_sum", primary |-> "makespan", cap |-> None,
   setup |-> 1, tardiness |-> 1]

SliceCap(makespan, ratio) == (makespan * ratio + 99) \div 100

SliceSetting(ratio) ==
  [BaselineSetting EXCEPT !.mode = "epsilon_primary", !.primary = Primary,
                          !.cap = SliceCap(baseline.values.makespan, ratio)]

(* A slice looks at the vectors of answers, not at their schedules. *)
Outcomes(q, s) == {[status |-> a.status, values |-> a.values] : a \in Answers(q, s)}

BaselineOutcomes == [q \in Problems |-> Outcomes(q, BaselineSetting)]

Baseline ==
  /\ stage = "asked"
  /\ setting = None
  /\ \E a \in BaselineOutcomes[problem] :
       IF a.status \in {"optimal", "feasible"}
         THEN /\ baseline' = a
              /\ stage' = "slices"
              /\ UNCHANGED answer
         ELSE /\ answer' = Answer(a.status, Empty, None, None)
              /\ stage' = "done"
              /\ UNCHANGED baseline
  /\ UNCHANGED <<problem, setting, index, slices, chosen>>

(* A bug: the first point of the front is kept. *)
IsLater(v, incumbent) == FALSE

(* _is_candidate_better; every answer covers every operation. *)
IsBetter(v, incumbent) ==
  \/ v[Primary] < incumbent[Primary]
  \/ v[Primary] = incumbent[Primary] /\ v.makespan < incumbent.makespan

Slice ==
  /\ stage = "slices"
  /\ index <= Len(Grid)
  /\ \E a \in Outcomes(problem, SliceSetting(Grid[index])) :
       /\ slices' = Append(slices, a)
       /\ chosen' = IF a.status \in {"optimal", "feasible"}
                       /\ (chosen = 0 \/ IsBetter(a.values, slices[chosen].values))
                      THEN index ELSE chosen
  /\ index' = index + 1
  /\ UNCHANGED <<problem, setting, stage, baseline, answer>>

(* The deadline has passed. *)
SkipSlice ==
  /\ stage = "slices"
  /\ index <= Len(Grid)
  /\ slices' = Append(slices, [status |-> "skipped_deadline", values |-> None])
  /\ index' = index + 1
  /\ UNCHANGED <<problem, setting, stage, baseline, chosen, answer>>

(* The best slice, or the baseline when none gave a point. *)
Publish ==
  /\ stage = "slices"
  /\ index > Len(Grid)
  /\ answer' = IF chosen = 0 THEN Answer(baseline.status, Empty, baseline.values, None)
                             ELSE Answer(slices[chosen].status, Empty, slices[chosen].values, None)
  /\ stage' = "done"
  /\ UNCHANGED <<problem, setting, baseline, index, slices, chosen>>

Next == SolveOnce \/ Baseline \/ Slice \/ SkipSlice \/ Publish

Spec == Init /\ [][Next]_vars

-----------------------------------------------------------------------------
Solved == stage = "done" /\ setting # None /\ answer.status \in {"optimal", "feasible"}

WholePlan == Around(problem.fixed, answer.schedule)

(* A schedule extracted from the model is legal for the notary, which      *)
(* knows neither its circuits nor its setup intervals: machines, shifts,   *)
(* pools, windows, chains and edges hold.  Around frozen work, whose own   *)
(* setups and shifts the model does not revisit, machines are still free   *)
(* of overlap with every changeover, to frozen work too, given its time,   *)
(* when the frozen work was so itself.                                     *)
AnswerIsLegal ==
  Solved =>
    /\ Separated(problem.fixed) => Separated(WholePlan)
    /\ \A o \in problem.ops :
         PredecessorOf[o] # None => WholePlan[PredecessorOf[o]].end <= WholePlan[o].start
    /\ problem.fixed = Empty => Legal(problem.ops, answer.schedule)

(* OPTIMAL is the hierarchy the solver documents and not only the least    *)
(* big-M number: no legal schedule within the cap has a shorter makespan,  *)
(* or the same with less weighted setup and tardiness (a smaller primary   *)
(* objective first, under epsilon_primary); INFEASIBLE means there is no   *)
(* legal schedule.  The multiplier must exceed every sum of secondary      *)
(* terms, the symmetry cut must keep a best schedule.                      *)
Secondary(s, v) == s.setup * v.setup + s.tardiness * v.tardiness

Precedes(s, v, w) ==
  IF MakespanAlone(problem, s) THEN v.makespan < w.makespan
  ELSE IF s.mode = "epsilon_primary"
    THEN \/ v[s.primary] < w[s.primary]
         \/ v[s.primary] = w[s.primary] /\ v.makespan < w.makespan
    ELSE \/ v.makespan < w.makespan
         \/ v.makespan = w.makespan /\ Secondary(s, v) < Secondary(s, w)

OptimalIsBest ==
  stage = "done" /\ setting # None /\ problem.fixed = Empty =>
    \A p \in LegalSchedules[problem] :
      Within(setting, ValuesOf(p)) =>
        /\ answer.status # "infeasible"
        /\ answer.status = "optimal" => ~ Precedes(setting, ValuesOf(p), answer.values)

(* A bound published in makespan minutes is one: no legal schedule within  *)
(* the cap is shorter, at whatever gap the search stopped.                 *)
BoundIsSound ==
  Solved /\ BoundsMakespan(setting) /\ problem.fixed = Empty =>
    \A p \in LegalSchedules[problem] :
      Within(setting, ValuesOf(p)) => answer.bound <= Makespan(p)

(* What the search proves is so: its optimum and the bound it publishes.   *)
OptimumIsProved == OptimalIsBest /\ BoundIsSound

(* When every slice is solved to proof, the published point is the best of *)
(* the widest slice: no legal schedule within the largest makespan allowed *)
(* over the baseline has a smaller primary value, or the same in less      *)
(* time.                                                                   *)
SliceIsParetoBest ==
  /\ stage = "done" /\ setting = None /\ problem.fixed = Empty
  /\ baseline # None /\ \A i \in 1 .. Len(slices) : slices[i].status = "optimal"
  => \A p \in LegalSchedules[problem] :
       Makespan(p) <= SliceCap(baseline.values.makespan, Grid[Len(Grid)]) =>
         /\ ValuesOf(p)[Primary] >= answer.values[Primary]
         /\ ValuesOf(p)[Primary] = answer.values[Primary] =>
              ValuesOf(p).makespan >= answer.values.makespan

(* The comment over the symmetry cut calls its classes "Groups of          *)
(* genuinely interchangeable machines" (cpsat_solver.py:1746): with the    *)
(* cut on, a claim of infeasibility is not refuted by a legal schedule.    *)
SymmetryKeepsASchedule ==
  stage = "done" /\ setting # None /\ setting.symmetry /\ problem.fixed = Empty =>
    (answer.status = "infeasible" =>
       \A p \in LegalSchedules[problem] : ~ Within(setting, ValuesOf(p)))
=============================================================================
