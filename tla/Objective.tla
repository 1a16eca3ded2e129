------------------------------ MODULE Objective ------------------------------
(***************************************************************************)
(* The canonical objective vector (synaps/objective.py) of a timeline, and *)
(* its two rankings: the scalarized cost under weights and the             *)
(* lexicographic sort key.  Material loss and energy are summed along the  *)
(* same transitions as setup and are left out; machines are serial, so a   *)
(* machine is one lane.                                                    *)
(***************************************************************************)
EXTENDS FeasibilityChecker

CONSTANTS
  Orders,
  OrderOf,   \* operation.order_id
  Due        \* order.due_date, in minutes from the horizon's start

ASSUME ObjectiveAssumption ==
  /\ IsFiniteSet(Orders)
  /\ OrderOf \in [Ops -> Orders]
  /\ Due \in [Orders -> Int]

Latest(times) == CHOOSE t \in times : \A u \in times : u <= t

Makespan(placed) == Latest({placed[o].end : o \in DOMAIN placed} \cup {0})

(* Setups over consecutive operations of a machine. *)
TotalSetup(placed) == MapThenSumSet(LAMBDA o : ActualSetup(placed, o), DOMAIN placed)

(* An order of which nothing is placed completes at the horizon's end. *)
Completion(placed, order) ==
  LET mine == {o \in DOMAIN placed : OrderOf[o] = order}
  IN  IF mine = {} THEN HorizonEnd ELSE Latest({placed[o].end : o \in mine} \cup {0})

LatenessOf(placed, order) == Larger(Completion(placed, order) - Due[order], 0)

TotalTardiness(placed) == MapThenSumSet(LAMBDA r : LatenessOf(placed, r), Orders)

evaluate(placed) ==
  [makespan |-> Makespan(placed), setup |-> TotalSetup(placed),
   tardiness |-> TotalTardiness(placed), scheduled |-> Cardinality(DOMAIN placed)]

scalarize(value, w) ==
  w.makespan * value.makespan + w.setup * value.setup + w.tardiness * value.tardiness

(* objective_sort_key: coverage first, then makespan, then the scalarized  *)
(* cost.                                                                   *)
RanksBefore(a, b, w) ==
  \/ a.scheduled > b.scheduled
  \/ a.scheduled = b.scheduled /\ a.makespan < b.makespan
  \/ /\ a.scheduled = b.scheduled
     /\ a.makespan = b.makespan
     /\ scalarize(a, w) < scalarize(b, w)
=============================================================================
