------------------------------ MODULE RiskChecks ------------------------------
(***************************************************************************)
(* packages/risk-engine/src/checks.ts: the checks the risk engine makes of *)
(* an intent, given the facts it has collected.  A fact that is missing is *)
(* NoFact; amounts, prices and times are integers.  What is not an order   *)
(* passes the checks that are about orders.                                *)
(***************************************************************************)
EXTENDS Integers

CONSTANTS
  Limits,  \* RiskLimits
  NoFact   \* null or undefined, or a number that is not finite

ASSUME LimitsAssumption ==
  Limits \in [marketAge : Nat, portfolioAge : Nat, notional : Nat, dailyNotional : Nat,
              dailyLoss : Nat, slippageBps : Nat, priceBandBps : Nat,
              positionDeltaPct : Nat, orderInterval : Nat, ordersPerDay : Nat]

Status(available, within) ==
  IF ~available THEN "unavailable" ELSE IF within THEN "pass" ELSE "fail"

distance(a, b) == IF a > b THEN a - b ELSE b - a

\* A fact observed at stamp is neither from the future nor too old.
fresh(stamp, now, age) == stamp <= now /\ now - stamp <= age

checkMarketDataFreshness(i, market, now) ==
  Status(market # NoFact /\ market.stamp <= now, now - market.stamp <= Limits.marketAge)

checkPriceBand(i, market, now) ==
  Status(/\ i.price > 0
         /\ market # NoFact
         /\ fresh(market.stamp, now, Limits.marketAge),
         distance(i.price, market.price) * 10000 <= Limits.priceBandBps * market.price)

checkPortfolioFreshness(i, portfolio, now) ==
  Status(/\ portfolio # NoFact
         /\ portfolio.account = i.account
         /\ portfolio.stamp <= now,
         now - portfolio.stamp <= Limits.portfolioAge)

checkPerOrderNotional(i) == Status(TRUE, i.notional <= Limits.notional)

\* Mutant: the order itself is not counted.
TurnoverSoFar(i, stats) ==
  Status(stats # NoFact, stats.notional <= Limits.dailyNotional)

checkDailyNotional(i, stats) ==
  Status(stats # NoFact, stats.notional + i.notional <= Limits.dailyNotional)

checkDailyLoss(i, stats) == Status(stats # NoFact, stats.loss <= Limits.dailyLoss)

checkDailyOrderCount(i, stats) ==
  Status(stats # NoFact, stats.orders + 1 <= Limits.ordersPerDay)

checkSlippage(i) == Status(TRUE, i.slippageBps <= Limits.slippageBps)

\* An account without a position in the symbol may open one of any size.
checkPositionDelta(i, portfolio) ==
  Status(/\ portfolio # NoFact
         /\ portfolio.account = i.account,
         \/ portfolio.position = 0
         \/ i.notional * 100 <= Limits.positionDeltaPct * distance(portfolio.position, 0))

\* last is the time of the last order: NoFact when it is unknown, and Never.
Never == -1

checkOrderFrequency(i, last, now) ==
  IF last = Never THEN "pass"
  ELSE Status(last # NoFact /\ last <= now, now - last >= Limits.orderInterval)

checkEvidenceReferences(i) == Status(TRUE, i.evidence)

\* The verdict is about this intent, and it does not approve what it faults.
checkReviewerConsistency(verdict) ==
  Status(TRUE, verdict.sameIntent /\ ~(verdict.verdict = "approve" /\ verdict.issues))

\* RiskEngine.evaluate: every check, and passed only if each of them passes.
Checks(i, verdict, stats, market, portfolio, last, now) ==
  {checkEvidenceReferences(i), checkReviewerConsistency(verdict)}
  \cup IF i.action # "cex.place_order" THEN {}
       ELSE {checkMarketDataFreshness(i, market, now), checkPriceBand(i, market, now),
             checkPortfolioFreshness(i, portfolio, now), checkPerOrderNotional(i),
             checkDailyNotional(i, stats), checkDailyLoss(i, stats), checkSlippage(i),
             checkPositionDelta(i, portfolio), checkOrderFrequency(i, last, now),
             checkDailyOrderCount(i, stats)}

Passed(checks) == checks = {"pass"}
===============================================================================
