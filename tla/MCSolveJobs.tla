---------------------------- MODULE MCSolveJobs ----------------------------
(* Three job ids against a store of two records and two slots: the store    *)
(* fills, refuses, expires and is filled again within MaxClock ticks.      *)
EXTENDS SolveJobs

CONSTANTS j1, j2, j3, acme, anonymous

MCJobIds == {j1, j2, j3}
MCTenants == {acme, anonymous}
=============================================================================
