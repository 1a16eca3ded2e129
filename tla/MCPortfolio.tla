----------------------------- MODULE MCPortfolio -----------------------------
(* Two operations on one machine, requests that try the guards on them, and *)
(* questions for the router.                                               *)
EXTENDS Portfolio, TLC

CONSTANTS o1, o2

MCOps == {o1, o2}
MCStarts == 0 .. 2
MCWindows == (o1 :> {0, 1}) @@ (o2 :> {1, 2})
Environment(timeout, limit, force, open) ==
  [timeout |-> timeout, memory |-> limit, forced |-> force, failOpen |-> open]
MCEnvironments ==
  {Environment(None, None, FALSE, None), Environment(None, None, TRUE, None),
   Environment(3, 1, FALSE, None), Environment(3, 1, TRUE, None), Environment(None, 1, TRUE, TRUE),
   Environment(0, 0, FALSE, None)}

At(starts) == {[op |-> o, start |-> starts[o]] : o \in DOMAIN starts}
Both(s, t) == At((o1 :> s) @@ (o2 :> t))
MCResults ==
  {[status |-> s, rows |-> rows] : s \in {"optimal", "feasible"},
     rows \in {Both(0, 1), Both(1, 1), Both(0, 2), Both(1, 2), At(o1 :> 0), At(o1 :> 0) \cup At(o1 :> 1), {}}}
  \cup {[status |-> "error", rows |-> At(o1 :> 0)], [status |-> "infeasible", rows |-> {}]}

Context(regime, latency, exact, policy) ==
  [regime |-> regime, latency |-> latency, exact |-> exact, policy |-> policy]
Nothing == [o \in {} |-> 0]
Issued == (o1 :> 1) @@ (o2 :> 2)
Solve(name, profile, ctx, box, issued, verify) ==
  [kind |-> "solve", config |-> name, profile |-> profile, ctx |-> ctx, box |-> box,
   issued |-> issued, freeze |-> 2, verify |-> verify]

Small == [ops |-> 2, machines |-> 1, aux |-> FALSE, setups |-> FALSE, density |-> 0, depth |-> 1,
          windows |-> TRUE, calendar |-> FALSE]

GuardRequests ==
  UNION {{Solve("GREED", None, Context("nominal", latency, FALSE, "balanced"), 5, Nothing, FALSE),
          Solve("GREED", None, Context("nominal", latency, FALSE, "balanced"), None, Issued, TRUE),
          Solve(None, Small, Context("nominal", latency, FALSE, "balanced"), 1, Nothing, TRUE)} :
         latency \in {None, -1, 0, 2}}

RepairRequests ==
  [kind : {"repair"}, disrupted : {{}, {o2}}, overrides : BOOLEAN, box : {8}, verify : {TRUE}]

MCRequests == GuardRequests \cup RepairRequests

MCQuestions ==
  [profile : [ops : {20, 60, 121, 501, 10001, 50001}, machines : {4, 30}, aux : {FALSE}, setups : BOOLEAN,
              density : {4}, depth : {1}, windows : BOOLEAN, calendar : BOOLEAN],
   ctx : [regime : Regimes, latency : {None, 0, 1, 200, 301}, exact : BOOLEAN, policy : Policies]]
=============================================================================
