-------------------------- MODULE Portfolio_proofs --------------------------
(***************************************************************************)
(* Theorems about the entry points above the solvers, for every problem,   *)
(* environment, request and limit, whatever solvers answer and whatever    *)
(* the process's memory does.                                              *)
(***************************************************************************)
EXTENDS Portfolio, FiniteSetTheorems, TLAPS

Limit == Nat \cup {None}

(* The stricter of two limits, when one of them may be missing.            *)
LEMMA MinOfTwo ==
  ASSUME NEW x \in Int, NEW y \in Int
  PROVE  /\ Min({x, y}) \in {x, y} /\ Min({x, y}) <= x /\ Min({x, y}) <= y
         /\ Min({x}) = x
<1>1. \E z \in {x, y} : \A w \in {x, y} : z <= w
  <2>1. CASE x <= y
    BY <2>1
  <2>2. CASE ~ x <= y
    BY <2>2
  <2> QED BY <2>1, <2>2
<1> QED BY <1>1 DEF Min

LEMMA MaxOfTwo ==
  ASSUME NEW x \in Nat, NEW y \in Nat
  PROVE  Max({x, y}) \in Nat
<1>1. \E z \in {x, y} : \A w \in {x, y} : z >= w
  <2>1. CASE x <= y
    BY <2>1
  <2>2. CASE ~ x <= y
    BY <2>2
  <2> QED BY <2>1, <2>2
<1> QED BY <1>1 DEF Max

LEMMA MinOfThree ==
  ASSUME NEW S \in SUBSET Int, NEW x \in Int, NEW y \in Int, NEW z \in Int,
         S \subseteq {x, y, z}, S # {}
  PROVE  Min(S) \in S /\ \A w \in S : Min(S) <= w
<1>1. \E v \in S : \A w \in S : v <= w
  <2>1. PICK a \in S : TRUE
    OBVIOUS
  <2>2. CASE x \in S /\ (y \in S => x <= y) /\ (z \in S => x <= z)
    BY <2>2
  <2>3. CASE y \in S /\ (x \in S => y <= x) /\ (z \in S => y <= z)
    BY <2>3
  <2>4. CASE z \in S /\ (x \in S => z <= x) /\ (y \in S => z <= y)
    BY <2>4
  <2> QED BY <2>1, <2>2, <2>3, <2>4
<1> QED BY <1>1 DEF Min

-----------------------------------------------------------------------------
(* The limits a request has from outside, positive or not.                 *)
Number == Int \cup {None}
Latency(r) == IF r.kind = "solve" THEN r.ctx.latency ELSE None

LEMMA Parameters ==
  ASSUME env \in Environments, NEW r \in Requests
  PROVE  /\ env.timeout \in Number /\ env.memory \in Number /\ env.forced \in BOOLEAN
         /\ env.failOpen \in BOOLEAN \cup {None}
         /\ r.box \in Limit /\ Latency(r) \in Number /\ r.kind \in {"solve", "repair"}
         /\ r.box # None => r.box \in Nat /\ WholeSeconds(r.box) \in Nat
                            /\ 2 * WholeSeconds(r.box) <= r.box /\ r.box < 2 * WholeSeconds(r.box) + 2
         /\ None \notin Int
BY PortfolioAssumption DEF PortfolioAssumption, Limit, Number, Latency, WholeSeconds

(* What counts of the limits from outside: at most two positive numbers.   *)
LEMMA WallsArePositive ==
  ASSUME env \in Environments, NEW r \in Requests
  PROVE  /\ Walls(r) \subseteq {env.timeout, Latency(r)}
         /\ \A t \in Walls(r) : t \in Nat /\ t > 0
BY Parameters DEF Walls, Positive, Latency, Number

(* resolve_portfolio_resource_limits: the timeout is the least of the      *)
(* limits it is resolved from, ten minutes when guards are forced and      *)
(* there is none, and nothing otherwise.                                   *)
LEMMA TimeoutIsResolved ==
  ASSUME env \in Environments, NEW r \in Requests
  PROVE  LET lim == LimitsFor(r)
             timeout == IF lim = None THEN None ELSE lim.timeout
             candidates == Walls(r) \cup OwnWall(r)
         IN  /\ timeout \in Limit
             /\ candidates # {} => timeout \in candidates /\ \A t \in candidates : timeout <= t
             /\ candidates = {} => timeout = (IF env.forced THEN 600 ELSE None)
             /\ lim # None => lim.memory \in Limit
<1> DEFINE candidates == Walls(r) \cup OwnWall(r)
           limit == IF candidates # {} THEN Min(candidates) ELSE IF env.forced THEN 600 ELSE None
           ceiling == IF Positive({env.memory}) = {} THEN None ELSE env.memory
           failOpen == IF env.failOpen = None THEN ~ env.forced ELSE env.failOpen
           whole == IF r.box # None THEN WholeSeconds(r.box) ELSE 0
           outer == IF env.timeout # None THEN env.timeout ELSE 0
           latency == IF Latency(r) # None THEN Latency(r) ELSE 0
<1>1. LimitsFor(r) = IF limit = None /\ ceiling = None /\ ~ env.forced
                       THEN None
                       ELSE [timeout |-> limit, memory |-> ceiling, failOpen |-> failOpen]
  BY DEF LimitsFor, LimitsOver
<1>2. candidates \subseteq {whole, outer, latency} /\ candidates \in SUBSET Nat
      /\ whole \in Int /\ outer \in Int /\ latency \in Int
  <2>1. OwnWall(r) \subseteq {whole} /\ whole \in Nat
    BY Parameters DEF OwnWall
  <2>2. Walls(r) \subseteq {outer, latency} /\ Walls(r) \subseteq Nat
    BY WallsArePositive, Parameters
  <2>3. outer \in Int /\ latency \in Int
    BY Parameters DEF Number
  <2>4. \A t \in OwnWall(r) : t \in Nat
    BY <2>1
  <2> HIDE DEF whole, outer, latency
  <2> QED BY <2>1, <2>2, <2>3, <2>4
<1>3. candidates # {} => Min(candidates) \in candidates /\ \A t \in candidates : Min(candidates) <= t
  <2> HIDE DEF candidates, whole, outer, latency
  <2>1. candidates \in SUBSET Int
    BY <1>2
  <2> QED BY <1>2, <2>1, MinOfThree
<1>4. ceiling \in Limit
  BY Parameters DEF Positive, Number, Limit
<1>5. limit \in Limit
  <2> HIDE DEF candidates
  <2>1. CASE candidates # {}
    <3>1. limit = Min(candidates) /\ limit \in Nat
      BY <1>2, <1>3, <2>1
    <3> QED BY <3>1 DEF Limit
  <2>2. CASE candidates = {}
    BY <2>2 DEF Limit
  <2> QED BY <2>1, <2>2
<1>6. [timeout |-> limit, memory |-> ceiling, failOpen |-> failOpen] # None
  <2>1. failOpen \in BOOLEAN
    BY Parameters
  <2> HIDE DEF limit, ceiling, failOpen
  <2>2. [timeout |-> limit, memory |-> ceiling, failOpen |-> failOpen] \in ResourceLimits
    BY <1>4, <1>5, <2>1 DEF ResourceLimits, Limit
  <2> QED BY <2>2, PortfolioAssumption DEF PortfolioAssumption
<1>7. (IF LimitsFor(r) = None THEN None ELSE LimitsFor(r).timeout) = limit
  <2> HIDE DEF limit, ceiling, failOpen
  <2> QED BY <1>1, <1>6
<1>8. LimitsFor(r) # None => LimitsFor(r).memory \in Limit
  <2> HIDE DEF limit, ceiling, failOpen
  <2> QED BY <1>1, <1>4
<1>9. /\ candidates # {} => limit \in candidates /\ \A t \in candidates : limit <= t
      /\ candidates = {} => limit = (IF env.forced THEN 600 ELSE None)
  <2> HIDE DEF candidates
  <2> QED BY <1>3
<1> HIDE DEF limit
<1> QED BY <1>5, <1>7, <1>8, <1>9

(* guarded_solve and _publish_time_limit_honesty: what the solver gets is  *)
(* the strictest limit, cut to whole seconds only when there is a timeout. *)
LEMMA ForwardedIsStrictest ==
  ASSUME env \in Environments, NEW r \in Requests
  PROVE  LET lim == LimitsFor(r)
             given == Forwarded(r, lim)
         IN  /\ given # None <=> Granted(r) # {}
             /\ given # None =>
                  /\ \A t \in Granted(r) : given <= t
                  /\ \E t \in Granted(r) : t < given + 2
                  /\ given <= Published(r, lim) /\ Published(r, lim) < given + 2
<1> DEFINE lim == LimitsFor(r)
           timeout == IF lim = None THEN None ELSE lim.timeout
           given == Forwarded(r, lim)
           published == Published(r, lim)
           own == {r.box} \ {None}
           outside == {2 * t : t \in Walls(r)}
<1>1. /\ timeout \in Limit
      /\ Walls(r) \cup OwnWall(r) # {} =>
           timeout \in Walls(r) \cup OwnWall(r) /\ \A t \in Walls(r) \cup OwnWall(r) : timeout <= t
      /\ Walls(r) \cup OwnWall(r) = {} => timeout = (IF env.forced THEN 600 ELSE None)
  BY TimeoutIsResolved
<1>2. /\ given = IF timeout = None THEN r.box
                 ELSE IF r.box = None THEN 2 * timeout
                 ELSE 2 * Min({WholeSeconds(r.box), timeout})
      /\ published = LET numeric == ({r.box} \cup (IF timeout = None THEN {} ELSE {2 * timeout})) \ {None}
                     IN  IF numeric = {} THEN None ELSE Min(numeric)
  BY DEF Forwarded, Published
<1>3. Granted(r) = IF outside \cup own = {} /\ env.forced THEN {1200} ELSE outside \cup own
  BY DEF Granted
<1>4. \A u \in Walls(r) : u \in Nat
  BY WallsArePositive
<1>5. OwnWall(r) = IF r.box # None /\ WholeSeconds(r.box) > 0 /\ env.forced
                     THEN {WholeSeconds(r.box)} ELSE {}
  BY DEF OwnWall
<1>6. /\ None \notin Int /\ env.forced \in BOOLEAN /\ r.box \in Limit
      /\ r.box # None => r.box \in Nat /\ WholeSeconds(r.box) \in Nat
                         /\ 2 * WholeSeconds(r.box) <= r.box /\ r.box < 2 * WholeSeconds(r.box) + 2
  BY Parameters
<1>7. outside = {} <=> Walls(r) = {}
  OBVIOUS
<1> HIDE DEF lim, timeout, given, published
<1>8. CASE timeout = None
  <2>1. Walls(r) = {} /\ OwnWall(r) = {} /\ ~ env.forced
    BY <1>1, <1>4, <1>5, <1>6, <1>8
  <2>2. given = r.box /\ Granted(r) = own
    BY <1>2, <1>3, <1>7, <1>8, <2>1
  <2>3. ASSUME given # None PROVE r.box \in Nat /\ published = r.box
    <3>1. r.box \in Nat /\ ({r.box} \cup {}) \ {None} = {r.box}
      BY <1>6, <2>2, <2>3
    <3> QED BY <1>2, <1>8, <3>1, MinOfTwo
  <2>4. given # None => Granted(r) = {r.box} /\ given = r.box
    BY <2>2
  <2>5. given = None => Granted(r) = {}
    BY <2>2
  <2> HIDE DEF own, outside
  <2> QED BY <2>3, <2>4, <2>5 DEF lim, given, published
<1>9. CASE timeout # None /\ r.box = None
  <2>1. timeout \in Nat /\ 2 * timeout \in Nat /\ 2 * timeout # None
    BY <1>1, <1>6, <1>9 DEF Limit
  <2>2. given = 2 * timeout /\ published = Min({2 * timeout})
    <3>1. ({r.box} \cup {2 * timeout}) \ {None} = {2 * timeout}
      BY <1>9, <2>1
    <3> QED BY <1>2, <1>9, <3>1
  <2>3. published = given
    BY <2>1, <2>2, MinOfTwo
  <2>4. OwnWall(r) = {} /\ own = {}
    BY <1>5, <1>9
  <2>5. \A t \in Granted(r) : given <= t
    <3>1. CASE Walls(r) = {}
      BY <1>1, <1>3, <1>7, <1>9, <2>2, <2>4, <3>1
    <3>2. CASE Walls(r) # {}
      BY <1>1, <1>3, <1>4, <1>7, <2>1, <2>2, <2>4, <3>2
    <3> QED BY <3>1, <3>2
  <2>6. given \in Granted(r)
    <3>1. CASE Walls(r) = {}
      BY <1>1, <1>3, <1>7, <1>9, <2>2, <2>4, <3>1
    <3>2. CASE Walls(r) # {}
      BY <1>1, <1>3, <1>7, <2>2, <2>4, <3>2
    <3> QED BY <3>1, <3>2
  <2>7. given \in Nat /\ given # None
    BY <2>1, <2>2
  <2> QED BY <2>3, <2>5, <2>6, <2>7 DEF lim, given, published
<1>10. CASE timeout # None /\ r.box # None
  <2> DEFINE whole == WholeSeconds(r.box)
             least == Min({whole, timeout})
  <2>1. /\ timeout \in Nat /\ r.box \in Nat /\ whole \in Nat /\ 2 * timeout \in Nat
        /\ 2 * whole <= r.box /\ r.box < 2 * whole + 2
        /\ 2 * timeout # None
    BY <1>1, <1>6, <1>10 DEF Limit
  <2>2. /\ least \in {whole, timeout} /\ least <= whole /\ least <= timeout
        /\ given = 2 * least
    <3> HIDE DEF whole
    <3>1. whole \in Int /\ timeout \in Int
      BY <2>1
    <3>2. given = 2 * least
      BY <1>2, <1>10 DEF whole
    <3> QED BY <3>1, <3>2, MinOfTwo
  <2>3. /\ published \in {r.box, 2 * timeout} /\ published <= r.box /\ published <= 2 * timeout
    <3>1. ({r.box} \cup {2 * timeout}) \ {None} = {r.box, 2 * timeout}
      BY <1>10, <2>1
    <3>2. published = Min({r.box, 2 * timeout})
      BY <1>2, <1>10, <3>1
    <3>3. r.box \in Int /\ 2 * timeout \in Int
      BY <2>1
    <3> QED BY <3>2, <3>3, MinOfTwo
  <2>4. Granted(r) = outside \cup {r.box}
    BY <1>3, <1>10
  <2>5. whole > 0 /\ env.forced => OwnWall(r) = {whole}
    BY <1>5, <1>10
  <2>6. OwnWall(r) \subseteq {whole} /\ (OwnWall(r) # {} => whole > 0 /\ env.forced)
    BY <1>5
  <2> HIDE DEF whole, least
  <2>7. given \in Nat /\ given <= r.box /\ given <= 2 * timeout
        /\ given <= published /\ published < given + 2
    BY <2>1, <2>2, <2>3
  <2>8. \A t \in Granted(r) : given <= t
    <3>1. ASSUME NEW u \in Walls(r) PROVE given <= 2 * u
      <4>1. u \in Nat /\ timeout <= u
        BY <1>1, <1>4
      <4> QED BY <2>1, <2>7, <4>1
    <3> QED BY <2>4, <2>7, <3>1
  <2>9. \E t \in Granted(r) : t < given + 2
    <3>1. CASE least = whole
      <4>1. r.box < given + 2
        BY <2>1, <2>2, <3>1
      <4> QED BY <2>4, <4>1
    <3>2. CASE least = timeout /\ timeout \in Walls(r)
      <4>1. 2 * timeout \in Granted(r) /\ 2 * timeout < given + 2
        BY <2>1, <2>2, <2>4, <3>2
      <4> QED BY <4>1
    <3>3. CASE least = timeout /\ timeout \notin Walls(r) /\ least # whole
      <4>1. timeout \notin OwnWall(r)
        BY <2>6, <3>3
      <4>2. Walls(r) = {} /\ OwnWall(r) = {} /\ env.forced /\ timeout = 600
        BY <1>1, <1>10, <3>3, <4>1
      <4>3. ~ whole > 0
        BY <2>5, <4>2
      <4> QED BY <2>1, <2>2, <3>3, <4>2, <4>3
    <3> QED BY <2>2, <3>1, <3>2, <3>3
  <2>10. given # None
    BY <1>6, <2>7
  <2>11. Granted(r) # {}
    BY <2>4
  <2> QED BY <2>7, <2>8, <2>9, <2>10, <2>11 DEF lim, given, published
<1> QED BY <1>8, <1>9, <1>10

-----------------------------------------------------------------------------
(* The decision ladder fits every profile and context.                     *)
LEMMA LadderFits ==
  ASSUME NEW p, NEW ctx
  PROVE  LET route == RouteOf(p, ctx)
         IN  /\ p.calendar => route \in CalendarAware
             /\ ctx.exact /\ ~ p.calendar => route \in ExactConfigs
             /\ Hurried(ctx) /\ ~ ctx.exact => route \in CalendarAware
             /\ p.windows => route \notin AlnsConfigs
<1>1. CalendarRoute(p, ctx) \in CalendarAware \ AlnsConfigs
  BY DEF CalendarRoute, CalendarAware, AlnsConfigs
<1>2. ExactRoute(p.ops) \in ExactConfigs \ AlnsConfigs
  BY DEF ExactRoute, ExactConfigs, AlnsConfigs
<1>3. HurriedRoute(p) \in CalendarAware \ AlnsConfigs
  BY DEF HurriedRoute, CalendarAware, AlnsConfigs
<1>4. /\ DisruptionRoute(p, ctx) \notin AlnsConfigs
      /\ ShortageRoute(p.ops) \notin AlnsConfigs
      /\ WhatIfRoute(p) \notin AlnsConfigs
  BY DEF DisruptionRoute, ShortageRoute, WhatIfRoute, AlnsConfigs
<1>5. p.windows => NominalRoute(p, ctx) \notin AlnsConfigs
  BY DEF NominalRoute, FeasibilityFirstRoute, LongHorizonRoute, MediumRoute, AlnsUnlessWindows,
         AlnsConfigs
<1>6. /\ Hurried(ctx) => RouteByContext(p, ctx) \in CalendarAware
      /\ p.windows => RouteByContext(p, ctx) \notin AlnsConfigs
  BY <1>3, <1>4, <1>5 DEF RouteByContext
<1> QED BY <1>1, <1>2, <1>6 DEF RouteOf

-----------------------------------------------------------------------------
Honest(res) ==
  /\ res.status \in Success => res.rows # {}
  /\ res.status = "optimal" => Covered(res.rows) = Ops

LEMMA CoverageIsHonest ==
  ASSUME NEW rows \in SUBSET Row
  PROVE  LET n == Cardinality(Covered(rows))
         IN  /\ n \in Nat
             /\ rows = {} => n = 0
             /\ n >= Cardinality(Ops) => Covered(rows) = Ops
<1>1. Covered(rows) \subseteq Ops
  BY DEF Covered, Row
<1>2. IsFiniteSet(Ops) /\ IsFiniteSet(Covered(rows))
  BY <1>1, FS_Subset, PortfolioAssumption DEF PortfolioAssumption
<1>3. Cardinality(Covered(rows)) \in Nat /\ Cardinality(Ops) \in Nat
  BY <1>2, FS_CardinalityType
<1>4. rows = {} => Cardinality(Covered(rows)) = 0
  BY FS_EmptySet DEF Covered
<1>5. ASSUME Cardinality(Covered(rows)) >= Cardinality(Ops) PROVE Covered(rows) = Ops
  <2>1. /\ Cardinality(Covered(rows)) <= Cardinality(Ops)
        /\ Cardinality(Covered(rows)) = Cardinality(Ops) => Covered(rows) = Ops
    BY <1>1, <1>2, FS_Subset
  <2> QED BY <1>3, <1>5, <2>1
<1> QED BY <1>3, <1>4, <1>5

(* stamp_honest_coverage *)
LEMMA StampedIsHonest ==
  ASSUME NEW res, res.rows \in SUBSET Row
  PROVE  Honest(Stamped(res))
<1> DEFINE n == Cardinality(Covered(res.rows))
<1>1. n \in Nat /\ (res.rows = {} => n = 0) /\ (n >= Cardinality(Ops) => Covered(res.rows) = Ops)
  BY CoverageIsHonest
<1>2. /\ Stamped(res).status = HonestStatus(res.status, Coverage(n))
      /\ Stamped(res).rows = res.rows
  BY DEF Stamped
<1> HIDE DEF n
<1>3. CASE n = 0
  BY <1>2, <1>3 DEF Coverage, HonestStatus, Honest, Success
<1>4. CASE n # 0 /\ n >= Cardinality(Ops)
  BY <1>1, <1>2, <1>4 DEF Honest
<1>5. CASE n # 0 /\ ~ n >= Cardinality(Ops)
  BY <1>1, <1>2, <1>5 DEF Coverage, HonestStatus, Honest, Success
<1> QED BY <1>3, <1>4, <1>5

LEMMA MemoryErrorIsKept == Stamped(MemoryError) = MemoryError /\ MemoryError.rows \in SUBSET Row
<1>1. Covered({}) = {} /\ Cardinality({}) = 0
  BY FS_EmptySet DEF Covered
<1> QED BY <1>1 DEF Stamped, MemoryError, Coverage, HonestStatus, Success

-----------------------------------------------------------------------------
(* The inductive invariant.  Between calls the last request stays for the  *)
(* answer it belongs to; pinned windows are those of the request under way.*)
Surroundings ==
  /\ env \in Environments /\ platform \in Platforms
  /\ memory \in Nat /\ peak \in Nat
  /\ calls \in Nat /\ (calls = 0 => stage = "idle" /\ answer = None)

Underway ==
  stage # "idle" =>
    /\ request \in Requests
    /\ limits = LimitsFor(request)
    /\ forwarded = Forwarded(request, limits)

Routed ==
  request.kind \in {"route", "solve"} /\ request.config = None =>
    config = RouteOf(request.profile, request.ctx)

IssuedIsPinned ==
  stage # "idle" /\ request.kind = "solve" =>
    \A o \in Locked(request) : windows[o] = {request.issued[o]}

ResultFits ==
  /\ stage \in {"stopping", "settled"} => result.rows \in SUBSET Row
  /\ stage = "settled" => Honest(result)

PortfolioInv ==
  /\ Surroundings /\ Underway /\ Routed /\ IssuedIsPinned /\ ResultFits
  /\ AnswersAreHonest

LEMMA InitPortfolio == Init => PortfolioInv
<1> SUFFICES ASSUME Init PROVE PortfolioInv
  OBVIOUS
<1>1. Surroundings
  BY DEF Init, Surroundings
<1>2. Underway /\ Routed /\ IssuedIsPinned /\ ResultFits
  BY DEF Init, NoCall, Underway, Routed, IssuedIsPinned, ResultFits
<1>3. AnswersAreHonest
  BY DEF Init, AnswersAreHonest, Answered
<1> QED BY <1>1, <1>2, <1>3 DEF PortfolioInv

(* Steps that leave the call and its answer alone.                         *)
LEMMA CallStays ==
  ASSUME PortfolioInv, UNCHANGED <<env, platform, windows, call, answer, calls>>,
         memory' \in Nat, peak' \in Nat, stage # "idle", ResultFits'
  PROVE  PortfolioInv'
<1>1. Surroundings'
  BY DEF PortfolioInv, Surroundings
<1>2. Underway'
  <2>1. LimitsFor(request)' = LimitsFor(request) /\ Forwarded(request, limits)' = Forwarded(request, limits)
    BY DEF LimitsFor, LimitsOver, Walls, OwnWall, Positive, Forwarded, call
  <2> QED BY <2>1 DEF PortfolioInv, Underway, call
<1>3. Routed'
  BY DEF PortfolioInv, Routed, call
<1>4. IssuedIsPinned'
  BY DEF PortfolioInv, IssuedIsPinned, Locked, call
<1>5. AnswersAreHonest'
  BY DEF PortfolioInv, AnswersAreHonest, Answered, Legal, Locked, Covered, call
<1> QED BY <1>1, <1>2, <1>3, <1>4, <1>5 DEF PortfolioInv

(* The watcher and the idle process change neither call nor answer.        *)
LEMMA SettingStays ==
  ASSUME PortfolioInv, UNCHANGED <<process, windows, stage, call, result, answer, calls>>
  PROVE  PortfolioInv'
<1>1. Surroundings'
  BY DEF PortfolioInv, Surroundings, process
<1>2. Underway'
  <2>1. LimitsFor(request)' = LimitsFor(request) /\ Forwarded(request, limits)' = Forwarded(request, limits)
    BY DEF LimitsFor, LimitsOver, Walls, OwnWall, Positive, Forwarded, call, process
  <2> QED BY <2>1 DEF PortfolioInv, Underway, call
<1>3. Routed' /\ IssuedIsPinned'
  BY DEF PortfolioInv, Routed, IssuedIsPinned, Locked, call
<1>4. ResultFits'
  BY DEF PortfolioInv, ResultFits, Honest, Covered
<1>5. AnswersAreHonest'
  BY DEF PortfolioInv, AnswersAreHonest, Answered, Legal, Locked, Covered, call
<1> QED BY <1>1, <1>2, <1>3, <1>4, <1>5 DEF PortfolioInv

(* A new request, answered later or refused at once.                       *)
LEMMA CallBegins ==
  ASSUME PortfolioInv, SolveSchedule \/ RepairSchedule \/ RefuseRepair \/ Route
  PROVE  PortfolioInv'
<1>1. CASE SolveSchedule
  <2>1. PICK r \in Requests :
          /\ r.kind = "solve"
          /\ Begin(r, IF r.config = None THEN RouteOf(r.profile, r.ctx) ELSE r.config)
          /\ windows' = Pinned(windows, r)
    BY <1>1 DEF SolveSchedule
  <2>2. /\ request' = r /\ env' = env /\ stage' = "guarded" /\ answer' = None
        /\ limits' = LimitsFor(r) /\ forwarded' = Forwarded(r, LimitsFor(r))
        /\ config' = IF r.config = None THEN RouteOf(r.profile, r.ctx) ELSE r.config
        /\ UNCHANGED process /\ calls' = calls + 1
    BY <2>1 DEF Begin, process
  <2>3. Surroundings'
    BY <2>2 DEF PortfolioInv, Surroundings, process
  <2>4. Underway'
    <3>1. LimitsFor(request)' = LimitsFor(r)
      BY <2>2 DEF LimitsFor, LimitsOver, Walls, OwnWall, Positive
    <3>2. Forwarded(request, limits)' = Forwarded(r, LimitsFor(r))
      BY <2>2 DEF Forwarded
    <3> QED BY <2>1, <2>2, <3>1, <3>2 DEF Underway
  <2>5. Routed'
    BY <2>2 DEF Routed
  <2>6. IssuedIsPinned'
    <3>1. ASSUME NEW o \in Locked(r) PROVE windows'[o] = {r.issued[o]}
      <4>1. o \in Ops
        BY <2>1, <3>1, PortfolioAssumption DEF Locked, PortfolioAssumption
      <4> QED BY <2>1, <3>1, <4>1 DEF Pinned
    <3> QED BY <2>2, <3>1 DEF IssuedIsPinned, Locked
  <2>7. ResultFits' /\ AnswersAreHonest'
    BY <2>2 DEF ResultFits, AnswersAreHonest, Answered
  <2> QED BY <2>3, <2>4, <2>5, <2>6, <2>7 DEF PortfolioInv
<1>2. CASE RepairSchedule
  <2>1. PICK r \in Requests : r.kind = "repair" /\ Begin(r, "INCREMENTAL_REPAIR")
    BY <1>2 DEF RepairSchedule
  <2>2. /\ request' = r /\ stage' = "guarded" /\ answer' = None
        /\ limits' = LimitsFor(r) /\ forwarded' = Forwarded(r, LimitsFor(r))
        /\ UNCHANGED process /\ calls' = calls + 1
    BY <2>1 DEF Begin
  <2>3. Surroundings'
    BY <2>2 DEF PortfolioInv, Surroundings, process
  <2>4. Underway'
    <3>1. LimitsFor(request)' = LimitsFor(r)
      BY <2>2 DEF LimitsFor, LimitsOver, Walls, OwnWall, Positive, process
    <3>2. Forwarded(request, limits)' = Forwarded(r, LimitsFor(r))
      BY <2>2 DEF Forwarded
    <3> QED BY <2>1, <2>2, <3>1, <3>2 DEF Underway
  <2>5. Routed' /\ IssuedIsPinned'
    BY <2>1, <2>2 DEF Routed, IssuedIsPinned
  <2>6. ResultFits' /\ AnswersAreHonest'
    BY <2>2 DEF ResultFits, AnswersAreHonest, Answered
  <2> QED BY <2>3, <2>4, <2>5, <2>6 DEF PortfolioInv
<1>3. CASE RefuseRepair
  <2>1. PICK r \in Requests :
          /\ r.kind = "repair" /\ request' = r /\ stage = "idle" /\ calls' = calls + 1
          /\ answer' = [kind |-> "ValueError"]
          /\ UNCHANGED <<process, windows, stage, watcher, breached, result>>
    BY <1>3 DEF RefuseRepair
  <2>2. Surroundings'
    BY <2>1 DEF PortfolioInv, Surroundings, process
  <2>3. Underway' /\ Routed' /\ IssuedIsPinned' /\ ResultFits'
    BY <2>1 DEF Underway, Routed, IssuedIsPinned, ResultFits
  <2>4. AnswersAreHonest'
    BY <2>1 DEF AnswersAreHonest, Answered
  <2> QED BY <2>2, <2>3, <2>4 DEF PortfolioInv
<1>4. CASE Route
  <2>1. /\ stage = "idle" /\ calls = 0 /\ calls' = MaxCalls
        /\ \E q \in Questions :
             /\ request' = [kind |-> "route", config |-> None, profile |-> q.profile, ctx |-> q.ctx]
             /\ config' = RouteOf(q.profile, q.ctx)
        /\ UNCHANGED <<process, windows, stage, limits, forwarded, watcher, breached, result, answer>>
    BY <1>4 DEF Route
  <2>2. answer = None /\ Surroundings'
    BY <2>1, PortfolioAssumption DEF PortfolioInv, Surroundings, process, PortfolioAssumption
  <2>3. Underway' /\ Routed' /\ IssuedIsPinned' /\ ResultFits'
    BY <2>1 DEF Underway, Routed, IssuedIsPinned, ResultFits
  <2>4. AnswersAreHonest'
    BY <2>1, <2>2 DEF AnswersAreHonest, Answered
  <2> QED BY <2>2, <2>3, <2>4 DEF PortfolioInv
<1> QED BY <1>1, <1>2, <1>3, <1>4

(* What is delivered: the stamped result, verified when that was asked.    *)
LEMMA DeliverIsHonest ==
  ASSUME PortfolioInv, Deliver
  PROVE  PortfolioInv'
<1>1. /\ stage = "settled" /\ stage' = "idle"
      /\ UNCHANGED <<process, windows, call, watcher, breached, result, calls>>
  BY DEF Deliver
<1>2. Honest(result) /\ result.rows \in SUBSET Row
  BY <1>1 DEF PortfolioInv, ResultFits
<1>3. Surroundings'
  <2>1. calls' = calls /\ calls # 0
    BY <1>1 DEF PortfolioInv, Surroundings
  <2> QED BY <1>1, <2>1 DEF PortfolioInv, Surroundings, process
<1>4. Underway' /\ IssuedIsPinned' /\ ResultFits'
  BY <1>1 DEF Underway, IssuedIsPinned, ResultFits
<1>5. Routed'
  BY <1>1 DEF PortfolioInv, Routed, call
<1>6. AnswersAreHonest'
  <2> SUFFICES ASSUME Answered' PROVE AnswersAreHonest'
    BY DEF AnswersAreHonest
  <2>1. /\ answer'.kind = "result"
        /\ ~ (request.verify /\ result.status \in Success /\ ~ Verified(windows, result))
        /\ answer' = [kind |-> "result", status |-> result.status, rows |-> result.rows,
                      verified |-> request.verify /\ Verified(windows, result),
                      limit |-> Published(request, limits),
                      exit |-> ExitCode(result.status, result.rows)]
    BY DEF Deliver, Answered
  <2>2. /\ answer'.status = result.status /\ answer'.rows = result.rows
        /\ answer'.verified = (request.verify /\ Verified(windows, result))
        /\ answer'.exit = ExitCode(result.status, result.rows)
    BY <2>1
  <2>3. UNCHANGED <<windows, request>>
    BY <1>1 DEF call
  <2>4. answer'.status \in Success => answer'.rows # {}
    BY <1>2, <2>2 DEF Honest
  <2>5. answer'.status = "optimal" => Covered(answer'.rows) = Ops
    BY <1>2, <2>2 DEF Honest
  <2>6. answer'.status \in Success /\ request.verify => answer'.verified
    BY <2>1, <2>2
  <2>7. ASSUME answer'.verified
        PROVE  /\ Legal(windows, answer'.rows)
               /\ request.kind = "solve" =>
                    \A o \in Locked(request) : [op |-> o, start |-> request.issued[o]] \in answer'.rows
    <3>1. Legal(windows, result.rows)
      BY <2>2, <2>7 DEF Verified
    <3>2. ASSUME request.kind = "solve", NEW o \in Locked(request)
          PROVE  [op |-> o, start |-> request.issued[o]] \in result.rows
      <4>1. windows[o] = {request.issued[o]}
        BY <1>1, <3>2 DEF PortfolioInv, IssuedIsPinned
      <4>2. o \in Ops
        BY <1>1, <3>2, PortfolioAssumption DEF PortfolioInv, Underway, Locked, PortfolioAssumption
      <4>3. PICK row \in result.rows : row.op = o /\ row.start \in windows[o]
        BY <3>1, <4>2 DEF Legal, Covered
      <4>4. row = [op |-> o, start |-> request.issued[o]]
        BY <1>2, <4>1, <4>3 DEF Row
      <4> QED BY <4>3, <4>4
    <3> QED BY <2>2, <3>1, <3>2
  <2>8. answer'.exit = 0 => answer'.status \in Success
    BY <2>2 DEF ExitCode
  <2> HIDE DEF Answered
  <2>9. Legal(windows, answer'.rows) => Legal(windows, answer.rows)'
    BY <2>3 DEF Legal, Covered
  <2>10. Covered(answer.rows)' = Covered(answer'.rows) /\ Locked(request)' = Locked(request)
    BY <2>3 DEF Covered, Locked
  <2> QED BY <2>3, <2>4, <2>5, <2>6, <2>7, <2>8, <2>9, <2>10 DEF AnswersAreHonest
<1> QED BY <1>3, <1>4, <1>5, <1>6 DEF PortfolioInv

LEMMA StepPortfolio == PortfolioInv /\ [Next]_vars => PortfolioInv'
<1> SUFFICES ASSUME PortfolioInv, [Next]_vars PROVE PortfolioInv'
  OBVIOUS
<1>1. CASE SolveSchedule \/ RepairSchedule \/ RefuseRepair \/ Route
  BY <1>1, CallBegins
<1>2. CASE Deliver
  BY <1>2, DeliverIsHonest
<1>3. CASE Allocate
  <2>1. memory' \in Nat /\ peak' = Max({peak, memory'})
    BY <1>3, PortfolioAssumption DEF Allocate, PortfolioAssumption
  <2>2. peak' \in Nat
    BY <2>1, MaxOfTwo DEF PortfolioInv, Surroundings
  <2>3. ResultFits'
    BY <1>3 DEF Allocate, PortfolioInv, ResultFits
  <2> QED BY <1>3, <2>1, <2>2, <2>3, CallStays DEF Allocate, call
<1>4. CASE CheckBefore
  <2>1. ResultFits'
    BY <1>4, StampedIsHonest, MemoryErrorIsKept DEF CheckBefore, ResultFits
  <2> QED BY <1>4, <2>1, CallStays DEF CheckBefore, PortfolioInv, Surroundings, process
<1>5. CASE WatcherWakes
  <2>1. ResultFits'
    BY <1>5 DEF WatcherWakes, PortfolioInv, ResultFits
  <2> QED BY <1>5, <2>1, CallStays DEF WatcherWakes, PortfolioInv, Surroundings, process
<1>6. CASE SolverReturns
  <2>1. ResultFits'
    BY <1>6, PortfolioAssumption DEF SolverReturns, ResultFits, PortfolioAssumption
  <2> QED BY <1>6, <2>1, CallStays DEF SolverReturns, PortfolioInv, Surroundings, process
<1>7. CASE Judge
  <2>1. (IF breached \/ OverLimit THEN MemoryError ELSE result).rows \in SUBSET Row
    BY <1>7, MemoryErrorIsKept DEF Judge, PortfolioInv, ResultFits
  <2>2. ResultFits'
    <3>1. Honest(result')
      BY <1>7, <2>1, StampedIsHonest DEF Judge
    <3>2. result'.rows \in SUBSET Row
      BY <1>7, <2>1 DEF Judge, Stamped
    <3> QED BY <1>7, <3>1, <3>2 DEF Judge, ResultFits, Honest, Covered
  <2> QED BY <1>7, <2>2, CallStays DEF Judge, PortfolioInv, Surroundings, process
<1>8. CASE WatcherSamples
  <2>1. UNCHANGED <<process, windows, stage, call, result, answer, calls>>
    BY <1>8 DEF WatcherSamples
  <2>2. PortfolioInv'
    BY <2>1, SettingStays
  <2> QED BY <2>2
<1>9. CASE SolverRaises
  <2>1. /\ stage' = "idle" /\ answer' = [kind |-> "raised"] /\ stage # "idle"
        /\ UNCHANGED <<process, windows, call, breached, result, calls>>
    BY <1>9 DEF SolverRaises
  <2>2. Surroundings' /\ Underway' /\ Routed' /\ IssuedIsPinned' /\ ResultFits'
    BY <2>1 DEF PortfolioInv, Surroundings, Underway, Routed, IssuedIsPinned, ResultFits, process, call
  <2>3. AnswersAreHonest'
    BY <2>1 DEF AnswersAreHonest, Answered
  <2> QED BY <2>2, <2>3 DEF PortfolioInv
<1>10. CASE UNCHANGED vars
  BY <1>10, SettingStays DEF vars, process, call
<1> QED BY <1>1, <1>2, <1>3, <1>4, <1>5, <1>6, <1>7, <1>8, <1>9, <1>10 DEF Next

(* The strengthened invariant holds in every reachable state.              *)
THEOREM PortfolioInvHolds == Spec => []PortfolioInv
<1> QED BY InitPortfolio, StepPortfolio, PTL DEF Spec

(* Whatever a solver says and whichever calls came before, a successful    *)
(* answer has placed something, an optimal one everything, and a verified  *)
(* one is legal and keeps the issued plan up to its freeze.                *)
THEOREM AnswersStayHonest == Spec => []AnswersAreHonest
<1>1. PortfolioInv => AnswersAreHonest
  BY DEF PortfolioInv
<1> QED BY <1>1, PortfolioInvHolds, PTL

(* The solver gets the strictest of the limits that count, to the second,  *)
(* and is published what it gets, for every box, every number the          *)
(* environment and the routing context may set, and none.                  *)
THEOREM StrictestLimitGiven == Spec => []TimeLimitIsStrictest
<1>1. PortfolioInv => TimeLimitIsStrictest
  <2> SUFFICES ASSUME PortfolioInv, stage = "running"
               PROVE  /\ forwarded # None <=> Granted(request) # {}
                      /\ forwarded # None =>
                           /\ \A t \in Granted(request) : forwarded <= t
                           /\ \E t \in Granted(request) : t < forwarded + 2
                           /\ forwarded <= Published(request, limits)
                           /\ Published(request, limits) < forwarded + 2
    BY DEF TimeLimitIsStrictest
  <2> QED BY ForwardedIsStrictest DEF PortfolioInv, Underway, Surroundings
<1> QED BY <1>1, PortfolioInvHolds, PTL

(* Every route the portfolio or the router alone takes fits the problem.   *)
THEOREM RoutesAlwaysFit == Spec => []RoutesFitTheProblem
<1>1. PortfolioInv => RoutesFitTheProblem
  BY LadderFits DEF PortfolioInv, Routed, RoutesFitTheProblem
<1> QED BY <1>1, PortfolioInvHolds, PTL

(* An answer is taken only within the memory limit: no sample was above    *)
(* it, and where the peak can be read the process never was.               *)
THEOREM MemoryStaysGuarded == Spec => MemoryIsGuarded
<1>1. PortfolioInv /\ [Next]_vars =>
        [stage = "stopping" /\ stage' = "settled" /\ MemoryIsLimited /\ result' # MemoryError =>
           /\ ~ breached
           /\ platform = "posix" => peak <= limits.memory
           /\ platform = "none" => limits.failOpen]_vars
  <2> SUFFICES ASSUME PortfolioInv, Next, stage = "stopping", stage' = "settled", MemoryIsLimited,
                      result' # MemoryError
               PROVE  /\ ~ breached
                      /\ platform = "posix" => peak <= limits.memory
                      /\ platform = "none" => limits.failOpen
    OBVIOUS
  <2>1. Judge
    BY DEF Next, Route, Allocate, SolveSchedule, RepairSchedule, Begin, RefuseRepair, CheckBefore,
           WatcherWakes, WatcherSamples, SolverReturns, SolverRaises, Deliver
  <2>2. ~ breached /\ ~ OverLimit
    BY <2>1, MemoryErrorIsKept DEF Judge
  <2>3. platform = "posix" => ~ (peak > limits.memory)
    BY <2>2 DEF OverLimit
  <2>4. peak \in Nat /\ limits.memory \in Nat
    <3>1. /\ request \in Requests /\ limits = LimitsFor(request) /\ env \in Environments
          /\ peak \in Nat
      BY DEF PortfolioInv, Underway, Surroundings
    <3>2. limits.memory \in Limit /\ limits.memory # None
      BY <3>1, TimeoutIsResolved DEF MemoryIsLimited
    <3> QED BY <3>1, <3>2 DEF Limit
  <2>5. platform = "none" => limits.failOpen
    BY <2>2 DEF OverLimit
  <2> QED BY <2>2, <2>3, <2>4, <2>5
<1> QED BY <1>1, PortfolioInvHolds, PTL DEF Spec, MemoryIsGuarded
=============================================================================
