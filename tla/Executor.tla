------------------------------ MODULE Executor ------------------------------
(***************************************************************************)
(* What the control plane's routes and its job store rely on: the promise  *)
(* of executeSolveRequest or executeRepairRequest settles at most once,    *)
(* with a response or with an error of a known kind, and it does settle.   *)
(***************************************************************************)
CONSTANTS Outcomes, Pending

VARIABLE promise

Init == promise = Pending

Settle(outcome) ==
  /\ promise = Pending
  /\ promise' = outcome

Next == \E outcome \in Outcomes : Settle(outcome)

Spec == Init /\ [][Next]_promise

(* The routes that wait for it are answered. *)
Settles == WF_promise(Next)
=============================================================================
