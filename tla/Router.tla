------------------------------- MODULE Router -------------------------------
(***************************************************************************)
(* Which member of the portfolio a problem goes to (route_solver_config in *)
(* synaps/solvers/router.py), as a function of a profile of the problem    *)
(* and of the context of the request.  Densities are in tenths.  The       *)
(* advisory predictor, which no caller in the repository passes, and the   *)
(* wording of the reasons are left out.                                    *)
(***************************************************************************)
EXTENDS Integers

CONSTANT None

Regimes == {"nominal", "rush_order", "breakdown", "material_shortage", "interactive", "what_if"}
Policies == {"balanced", "feasibility-first"}

CalendarAware == {"GREED", "GREED-K1-3", "BEAM-3", "BEAM-5", "RHC-GREEDY", "RHC-GREEDY-COVER"}

LongHorizon == 10000
Industrial == 50000

(* A latency was preferred, and it is more than so many seconds. *)
Allows(ctx, seconds) == ctx.latency # None /\ ctx.latency > seconds
Hurried(ctx) == ctx.latency # None /\ ctx.latency <= 1

CalendarRoute(p, ctx) ==
  IF p.ops > LongHorizon THEN "RHC-GREEDY-COVER"
  ELSE IF Hurried(ctx) THEN "GREED"
  ELSE "RHC-GREEDY"

ExactRoute(n) ==
  IF n <= 40 THEN "CPSAT-10"
  ELSE IF n <= 120 THEN "CPSAT-30"
  ELSE IF n <= 500 THEN "LBBD-10"
  ELSE IF n <= Industrial THEN "LBBD-10-HD"
  ELSE "LBBD-20-HD"

HurriedRoute(p) == IF p.setups /\ p.density > 2 /\ p.ops <= 60 THEN "BEAM-3" ELSE "GREED"

DisruptionRoute(p, ctx) ==
  IF ctx.regime # "interactive" /\ p.ops <= 30 /\ (ctx.latency = None \/ Allows(ctx, 9))
    THEN "CPSAT-10"
    ELSE "GREED"

ShortageRoute(n) ==
  IF n <= 120 THEN "CPSAT-30" ELSE IF n <= 500 THEN "LBBD-5" ELSE "LBBD-10-HD"

WhatIfRoute(p) ==
  IF p.ops <= 40 /\ p.setups THEN "CPSAT-PARETO-SKETCH-SETUP"
  ELSE IF p.ops <= 120 THEN "CPSAT-30"
  ELSE IF p.ops <= 500 THEN "LBBD-10"
  ELSE "LBBD-10-HD"

(* ALNS is no coverage route on hard windows. *)
AlnsUnlessWindows(p, config) == IF p.windows THEN "RHC-GREEDY" ELSE config

FeasibilityFirstRoute(p, ctx) ==
  IF p.ops > LongHorizon /\ Allows(ctx, 300) THEN "RHC-GREEDY-COVER"
  ELSE IF ~ p.windows /\ p.ops <= Industrial /\ Allows(ctx, 300) THEN "ALNS-500"
  ELSE IF p.ops <= LongHorizon /\ Allows(ctx, 120) THEN AlnsUnlessWindows(p, "ALNS-300")
  ELSE IF p.ops > LongHorizon THEN "RHC-GREEDY"
  ELSE "GREED"

LongHorizonRoute(p, ctx) ==
  IF p.ops > LongHorizon THEN "RHC-GREEDY-COVER"
  ELSE IF Allows(ctx, 300) THEN AlnsUnlessWindows(p, "ALNS-500")
  ELSE IF Allows(ctx, 120) THEN AlnsUnlessWindows(p, "ALNS-300")
  ELSE "LBBD-10-HD"

MediumRoute(p) ==
  IF (p.density > 3 \/ p.depth > 6) /\ p.ops > 60 THEN "CPSAT-120" ELSE "CPSAT-30"

NominalRoute(p, ctx) ==
  IF ctx.policy = "feasibility-first" /\ ctx.regime = "nominal" /\ p.ops > 120
    THEN FeasibilityFirstRoute(p, ctx)
  ELSE IF p.ops <= 20 /\ p.machines <= 5 /\ ~ p.aux THEN "CPSAT-10"
  ELSE IF p.ops <= 120 /\ (p.setups \/ p.aux \/ p.machines <= 20) THEN MediumRoute(p)
  ELSE IF p.ops <= 500 THEN "LBBD-10"
  ELSE LongHorizonRoute(p, ctx)

(* By the latency first, then by the regime. *)
RouteByContext(p, ctx) ==
  IF Hurried(ctx) THEN HurriedRoute(p)
  ELSE IF ctx.regime \in {"interactive", "breakdown", "rush_order"} THEN DisruptionRoute(p, ctx)
  ELSE IF ctx.regime = "material_shortage" THEN ShortageRoute(p.ops)
  ELSE IF ctx.regime = "what_if" THEN WhatIfRoute(p)
  ELSE NominalRoute(p, ctx)

(* A bug: a latency budget is looked at before exactness is. *)
RouteInHaste(p, ctx) ==
  IF p.calendar THEN CalendarRoute(p, ctx)
  ELSE IF ctx.exact /\ ~ Hurried(ctx) THEN ExactRoute(p.ops)
  ELSE RouteByContext(p, ctx)

RouteOf(p, ctx) ==
  IF p.calendar THEN CalendarRoute(p, ctx)
  ELSE IF ctx.exact THEN ExactRoute(p.ops)
  ELSE RouteByContext(p, ctx)
=============================================================================
