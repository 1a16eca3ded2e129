------------------------------ MODULE CpSatModel ------------------------------
(***************************************************************************)
(* The constraint model CP-SAT is given (synaps/solvers/cpsat_solver.py),  *)
(* as the set of schedules of the free operations it admits around fixed   *)
(* (frozen) assignments.  An assignment of the model's variables is a      *)
(* schedule: the presence literals choose the machine, the arcs that are   *)
(* true are the sequence, and the setup intervals end where an operation   *)
(* starts.  Machines are serial; the calendars of auxiliary resources and  *)
(* alternative modes are left out.                                         *)
(***************************************************************************)
EXTENDS FeasibilityChecker

(* No operation placed. *)
Empty == [x \in {} |-> None]

Around(fixed, free) ==
  [o \in DOMAIN fixed \cup DOMAIN free |-> IF o \in DOMAIN free THEN free[o] ELSE fixed[o]]

(* One alternative per eligible machine, any start that ends in time. *)
Placements(o) ==
  {Slot(m, t, Duration[o][m], 0) : m \in EligibleFor[o], t \in 0 .. HorizonEnd}

(* The setup on the arc into an operation.  The circuit orders the free    *)
(* operations only: behind fixed work, or first, there is no setup.        *)
ArcSetup(free, o) == SetupAfter(free[o].wc, Predecessor(free, o), o)

(* _frozen_machine_intervals and _add_aux_resource_cumulative_constraints  *)
(* raise on fixed work that leaves the horizon on a machine in play, and   *)
(* on a stamped setup of a pool user that starts before it.                *)
FixedFits(fixed, ops) ==
  \A f \in DOMAIN fixed :
    /\ (\E o \in ops : fixed[f].wc \in EligibleFor[o]) =>
         0 <= fixed[f].start /\ fixed[f].end <= HorizonEnd
    /\ RequiredBy(f) # {} => fixed[f].setup <= fixed[f].start

(* A bug, as before Wave 12: no setup between fixed and free work. *)
ClearOfFixedWork(fixed, free, o) ==
  \A f \in On(fixed, free[o].wc) :
    free[o].end <= fixed[f].start \/ fixed[f].end <= free[o].start

(* _add_frozen_free_sdst, on every pair of a fixed and a free operation. *)
ClearOfFixed(fixed, free, o) ==
  \A f \in On(fixed, free[o].wc) :
    \/ free[o].end + SetupBetween(free[o].wc, o, f) <= fixed[f].start
    \/ fixed[f].end + SetupBetween(free[o].wc, f, o) <= free[o].start

(* A free operation holds its pools while it is processed and during the   *)
(* setup on its arc, a fixed one while processed and its stamped setup.    *)
PoolsFit(fixed, free) ==
  LET windows ==
        [o \in DOMAIN fixed \cup DOMAIN free |->
           IF o \in DOMAIN free
             THEN [from |-> free[o].start - ArcSetup(free, o), to |-> free[o].end]
             ELSE [from |-> fixed[o].start - fixed[o].setup, to |-> fixed[o].end]]
  IN  \A r \in Resources, o \in DOMAIN windows : Held(windows, r, windows[o].from) <= PoolSize[r]

(* The setup on the arc opens in the shift that processing is put in. *)
InOneShift(free, o) ==
  Calendar[free[o].wc] = {} \/
  \E shift \in Calendar[free[o].wc] :
    shift.open <= free[o].start - ArcSetup(free, o) /\ free[o].end <= shift.close

(* The caller clears a predecessor that is fixed and gives its end as      *)
(* frozen_predecessor_end_offsets; other edges of fixed work are dropped.  *)
WithinTimeBounds(fixed, free, o) ==
  /\ Release[o] <= free[o].start /\ free[o].end <= HorizonEnd
  /\ LatestFinish[o] # None => free[o].end <= LatestFinish[o]
  /\ PredecessorOf[o] # None => Around(fixed, free)[PredecessorOf[o]].end <= free[o].start

EdgesHold(free, edges) ==
  \A e \in {d \in edges : {d.src, d.dst} \subseteq DOMAIN free} :
    EdgeAnchors(free, e).src + e.min_lag <= EdgeAnchors(free, e).dst

(* Circuits, no-overlap, time bounds, calendars and pools. *)
Admits(fixed, free, edges) ==
  /\ \A o \in DOMAIN free : ClearOfFixed(fixed, free, o) /\ WithinTimeBounds(fixed, free, o)
  /\ EdgesHold(free, edges)
  /\ Separated(free)
  /\ \A o \in DOMAIN free : InOneShift(free, o)
  /\ PoolsFit(fixed, free)

(* The schedules of some operations, one operation at a time: a schedule   *)
(* the model admits keeps the operations two by two apart.                 *)
Apart(placed, o, a) ==
  \A p \in DOMAIN placed :
    placed[p].wc = a.wc => placed[p].end <= a.start \/ a.end <= placed[p].start

SchedulesOf(ops) ==
  LET extend(schedules, o) ==
        UNION {{PlaceAt(s, o, a) : a \in {b \in Placements(o) : Apart(s, o, b) /\ b.end <= HorizonEnd}} :
                 s \in schedules}
  IN  FoldSet(LAMBDA o, schedules : extend(schedules, o), {Empty}, ops)

Admitted(fixed, ops, edges) == {s \in SchedulesOf(ops) : Admits(fixed, s, edges)}
=============================================================================
