--------------------------- MODULE MCSolveGateway ---------------------------
(* Two requests for one slot.  The fallback chain repeats its heavy solver, *)
(* and problems of one, two and three operations fit every solver, the     *)
(* light one only, and none.                                               *)
EXTENDS SolveGateway

CONSTANTS r1, r2, alns, greed

MCRequests == {r1, r2}
MCSolvers == {alns, greed}
MCInitials == {Null, greed}
MCNoSolvers == {}
MCHeavySolvers == {alns}
MCChain == <<alns, greed, alns>>
MCSizes == {1, 2, 3}
MCOutcomes == {"bridge timeout", "error", "feasible", "contract", "internal"}
=============================================================================
