----------------------------- MODULE LiveDecision -----------------------------
(***************************************************************************)
(* How an intent is decided over a live Binance account: the risk stage    *)
(* and the policy stage of GuardrailService.evaluate.  Each evaluation has *)
(* a RiskEngine (packages/risk-engine/src/engine.ts) of its own, over a    *)
(* BinanceRiskDataProvider (packages/binance-connector/src                 *)
(* /risk-provider.ts) that pins the facts of that evaluation, and what     *)
(* passes its checks is put to OPA.  The account goes on trading meanwhile,*)
(* and orders that were allowed are placed in it.                          *)
(***************************************************************************)
EXTENDS BinanceHistory, RiskChecks, Policy

CONSTANTS
  Requests,           \* the intents and the reviewer's verdicts of them
  MAX_COLLECTION_AGE, \* ticks of MAX_COLLECTION_AGE_MS
  credential,         \* config.account
  Garbled             \* per field of OPA's document, what a faulty OPA may put in it

ASSUME DecisionAssumption ==
  /\ NoFact = Absent /\ Absent \notin Int \cup BOOLEAN
  /\ Null \notin {"allow", "needs_human", "deny"}
  /\ MAX_COLLECTION_AGE \in Nat

\* packages/policy/src/policy.json: every environment has its limits; the one
\* for futures alone is optional.
ASSUME BoundsAssumption ==
  \A e \in DOMAIN Bounds :
    /\ {Bounds[e].auto, Bounds[e].autoDaily, Bounds[e].autoLoss, Bounds[e].maxLeverage,
        Bounds[e].defaultLeverage, Bounds[e].approvalCap} \subseteq Nat
    /\ Bounds[e].futuresDaily \in Nat \cup {Absent}
    /\ ServiceCap[e] \in Nat \cup {Absent}

\* packages/schemas/src/intent.ts: what validate has let through.
ASSUME RequestsAssumption ==
  /\ Unlimited \in Nat
  /\ \A r \in Requests :
       LET i == r.intent IN
       /\ i.environment \in DOMAIN Bounds
       /\ i.notional \in Nat \cup {Absent} /\ i.leverage \in Nat \cup {Absent}
       /\ i.calldata \in Nat \cup {Absent} /\ i.metadata.amount \in Nat
       /\ i.action = "cex.place_order" =>
            i.notional \in Nat /\ i.price \in Nat /\ i.side \in {"BUY", "SELL"}

VARIABLES
  pc,       \* per call, the await it is in
  intent, verdict,
  facts,    \* the facts pinned so far; asked is when the pending request was made
  outcome,  \* the decision
  reason    \* why: the rule of the service that decided, or "policy"

evaluation == <<pc, intent, verdict, facts, outcome, reason>>
vars == <<product, clock, account, collect, evaluation>>

Place == {"idle", "history", "snapshot", "market", "portfolio", "policy", "decided", "placed"}

NoFacts == [stats |-> NoFact, market |-> NoFact, portfolio |-> NoFact, asked |-> 0]

Stats == [notional : Nat, loss : Nat, orders : Nat]
Market == [price : Price, stamp : Nat]
Portfolio == [account : {credential}, stamp : Nat, position : Int]

ASSUME FactsAssumption == NoFact \notin Stats \cup Market \cup Portfolio

TypeOK ==
  /\ HistoryTypeOK
  /\ pc \in [Call -> Place]
  /\ \A c \in Call :
       /\ pc[c] # "idle" => \E r \in Requests : intent[c] = r.intent /\ verdict[c] = r.verdict
       /\ facts[c].stats = NoFact \/ facts[c].stats \in Stats
       /\ facts[c].market = NoFact \/ facts[c].market \in Market
       /\ facts[c].portfolio = NoFact \/ facts[c].portfolio \in Portfolio
       /\ facts[c].asked \in 0..clock
  /\ outcome \in [Call -> {"allow", "needs_human", "deny", Null}]
  /\ reason \in [Call -> {"risk_check_unavailable", "risk", "policy_evaluation_failed",
                          "policy", Null}]

Init ==
  /\ InitAccount
  /\ pc = [c \in Call |-> "idle"]
  /\ intent = [c \in Call |-> Null] /\ verdict = [c \in Call |-> Null]
  /\ facts = [c \in Call |-> NoFacts]
  /\ outcome = [c \in Call |-> Null] /\ reason = [c \in Call |-> Null]

-----------------------------------------------------------------------------
Goto(c, p) == pc' = [pc EXCEPT ![c] = p]

Decide(c, o, r) ==
  /\ Goto(c, "decided")
  /\ outcome' = [outcome EXCEPT ![c] = o]
  /\ reason' = [reason EXCEPT ![c] = r]

Continue(c, p) == Goto(c, p) /\ UNCHANGED <<outcome, reason>>

\* An error of the risk stage.
Unavailable(c) == Decide(c, "deny", "risk_check_unavailable")

\* The engine's verdict on the facts f, at this instant.
Judge(c, i, v, f, last) ==
  IF Passed(Checks(i, v, f.stats, f.market, f.portfolio, last, clock))
  THEN Continue(c, "policy")
  ELSE Decide(c, "deny", "risk")

Begin(c, i, v) ==
  /\ pc[c] = "idle"
  /\ intent' = [intent EXCEPT ![c] = i] /\ verdict' = [verdict EXCEPT ![c] = v]
  /\ \/ i.action # "cex.place_order" /\ Judge(c, i, v, NoFacts, NoFact) /\ UNCHANGED collect
     \/ /\ i.action = "cex.place_order"
        /\ IF i.account = credential /\ i.accountMode = product
           THEN Continue(c, "history") /\ Collect(c)
           ELSE Unavailable(c) /\ UNCHANGED collect
  /\ UNCHANGED <<product, clock, account, facts>>

-----------------------------------------------------------------------------
(***************************************************************************)
(* The provider: getHistory, calculateDailyStats, getSnapshot.             *)
(***************************************************************************)
\* Mutant: the UTC day is checked before the requests only.
CurrentWhenItBegan(c) == TRUE

\* assertAccount and the age check of getHistory, made again after each await.
current(c) == day(clock) = day(collect[c].cutoff)
pinned(c) == current(c) /\ clock - collect[c].cutoff <= MAX_COLLECTION_AGE

\* The symbol of the intent is one whose history was read.
assertSymbol(c) == intent[c].symbol \in Symbol

validateTrades(h) == IsInjective(h.trades) /\ IsInjective(h.income)

orderCount(h) == Cardinality(ToSet(h.orders))

prices == [k \in DOMAIN fills |-> orders[fills[k].order].price]

ofToday(h, ids) == {k \in ids : fills[k].time >= dayStart(h.cutoff)}

\* Mutant: the trades of other days are counted.
NotionalOfAllTrades(h) == SumFunctionOnSet(prices, ToSet(h.trades))

totalNotionalUsd(h) == SumFunctionOnSet(prices, ofToday(h, ToSet(h.trades)))

\* spotLoss replays the trades of the account, the oldest first, at average
\* cost: the lots it ends with, the losses of today, and whether each sale had
\* something to sell.
Nothing == [lots |-> NoLots, loss |-> 0, complete |-> TRUE]

traded(h, acc, k) ==
  LET o == orders[fills[k].order]
      lot == acc.lots[o.symbol]
  IN IF o.side = "BUY" THEN [acc EXCEPT !.lots[o.symbol] = bought(lot, o)]
     ELSE IF lot.quantity <= 0 THEN [acc EXCEPT !.complete = FALSE]
     ELSE [acc EXCEPT !.lots[o.symbol] = sold(lot),
                      !.loss = @ + IF fills[k].time >= dayStart(h.cutoff)
                                   THEN Max({0, averageCost(lot) - o.price}) ELSE 0]

spotReplay(h) ==
  LET ids == sorted(ToSet(h.trades))
      after[n \in 0..Len(ids)] == IF n = 0 THEN Nothing ELSE traded(h, after[n - 1], ids[n])
  IN after[Len(ids)]

\* Inventory that does not follow from the trades is a denial.
reconciles(replay) ==
  replay.complete /\ \A s \in Symbol : replay.lots[s].quantity = lots[s].quantity

losses == [k \in DOMAIN fills |-> Max({0, -fills[k].gain})]

\* Gross losses: profits do not restore the budget.
futuresLoss(h) == SumFunctionOnSet(losses, ToSet(h.income))

calculateDailyStats(h, loss) ==
  [notional |-> totalNotionalUsd(h), loss |-> loss, orders |-> orderCount(h)]

Pin(c, f) == facts' = [facts EXCEPT ![c] = f]

\* The position of the account in the symbol of the intent, at a price.
portfolioNow(c, stamp, price) ==
  [account |-> credential, stamp |-> stamp,
   position |-> lots[intent[c].symbol].quantity * price]

\* A spot history waits for the inventory, which it must follow from.
Collected(c) ==
  LET h == collect[c]
      f == facts[c]
  IN /\ pc[c] = "history" /\ h.step = "done"
     /\ IF \/ ~pinned(c) \/ ~validateTrades(h)
           \/ product = "usdm_futures" /\ ~assertSymbol(c)
        THEN Unavailable(c) /\ UNCHANGED facts
        ELSE \/ /\ product = "spot" /\ Continue(c, "snapshot")
                /\ Pin(c, [f EXCEPT !.asked = clock])
             \/ /\ product = "usdm_futures" /\ Continue(c, "market")
                /\ Pin(c, [f EXCEPT !.stats = calculateDailyStats(h, futuresLoss(h)),
                                    !.asked = clock])
     /\ UNCHANGED <<product, clock, account, collect, intent, verdict>>

\* The spot snapshot is dated when it was asked for.
ReadSnapshot(c) ==
  LET h == collect[c]
      f == facts[c]
      replay == spotReplay(h)
  IN /\ pc[c] = "snapshot"
     /\ IF \/ f.asked - h.cutoff > MAX_COLLECTION_AGE \/ ~reconciles(replay)
           \/ ~pinned(c) \/ ~assertSymbol(c)
        THEN Unavailable(c) /\ UNCHANGED facts
        ELSE /\ Continue(c, "market")
             /\ \E p \in Price :
                  Pin(c, [f EXCEPT !.stats = calculateDailyStats(h, replay.loss),
                                   !.portfolio = portfolioNow(c, f.asked, p),
                                   !.asked = clock])
     /\ UNCHANGED <<product, clock, account, collect, intent, verdict>>

\* A spot quote is dated when it was asked for, a futures quote by Binance.
\* What a spot evaluation still needs is pinned: it is judged in this turn.
ReadMarket(c) ==
  /\ pc[c] = "market"
  /\ \E p \in Price, stamp \in facts[c].asked..clock :
       LET f == [facts[c] EXCEPT !.market = [price |-> p, stamp |-> stamp]] IN
       /\ product = "spot" => stamp = facts[c].asked
       /\ IF ~current(c) \/ (product = "spot" /\ ~pinned(c)) THEN Unavailable(c) /\ UNCHANGED facts
          ELSE \/ /\ product = "usdm_futures" /\ Continue(c, "portfolio")
                  /\ Pin(c, [f EXCEPT !.asked = clock])
               \/ /\ product = "spot" /\ Pin(c, f)
                  /\ Judge(c, intent[c], verdict[c], f, collect[c].last)
  /\ UNCHANGED <<product, clock, account, collect, intent, verdict>>

\* The positions of a futures account are dated when they were asked for.
ReadPortfolio(c) ==
  /\ pc[c] = "portfolio"
  /\ \E p \in Price :
       LET f == [facts[c] EXCEPT !.portfolio = portfolioNow(c, facts[c].asked, p)] IN
       IF ~pinned(c) THEN Unavailable(c) /\ UNCHANGED facts
       ELSE Judge(c, intent[c], verdict[c], f, collect[c].last) /\ Pin(c, f)
  /\ UNCHANGED <<product, clock, account, collect, intent, verdict>>

reading(c) == pc[c] \in {"history", "snapshot", "market", "portfolio"}

\* A request fails, or its answer is refused.
RequestFails(c) ==
  /\ reading(c)
  /\ Unavailable(c)
  /\ UNCHANGED <<product, clock, account, collect, intent, verdict, facts>>

ReadPage(c) ==
  /\ pc[c] = "history"
  /\ ReadHistory(c)
  /\ UNCHANGED <<product, clock, account, evaluation>>

\* A page the client refuses.
RefusePage(c) ==
  /\ pc[c] = "history"
  /\ Incomplete(collect[c])
  /\ Unavailable(c)
  /\ UNCHANGED <<product, clock, account, collect, intent, verdict, facts>>

-----------------------------------------------------------------------------
(***************************************************************************)
(* The policy stage, and what becomes of the order.                        *)
(***************************************************************************)
Facts(c) == policyInput(intent[c], verdict[c], facts[c].stats)

\* What a faulty OPA may return: a document one field of which is missing or
\* is not what the policy computed.
faulty(document) ==
  {[x \in DOMAIN document \ {field} |-> document[x]] : field \in DOMAIN document}
  \cup UNION {{[document EXCEPT ![field] = v] : v \in Garbled[field]} : field \in DOMAIN document}

AskPolicy(c) ==
  /\ pc[c] = "policy"
  /\ \/ Decide(c, "deny", "policy_evaluation_failed")
     \/ \E raw \in {Document(Facts(c))} \cup faulty(Document(Facts(c))) :
          LET answer == transformOpaOutput(raw) IN
          IF answer = "threw" THEN Decide(c, "deny", "policy_evaluation_failed")
          ELSE Decide(c, answer, "policy")
  /\ UNCHANGED <<product, clock, account, collect, intent, verdict, facts>>

\* The broker executes what was allowed, or what a human approved.
PlaceOrder(c) ==
  /\ pc[c] = "decided" /\ outcome[c] # "deny" /\ intent[c].action = "cex.place_order"
  /\ Order(intent[c].symbol, intent[c].side, intent[c].price)
  /\ Goto(c, "placed")
  /\ UNCHANGED <<product, clock, fills, lots, collect, intent, verdict, facts, outcome, reason>>

Evaluate(c) ==
  \/ ReadPage(c) \/ RefusePage(c) \/ Collected(c) \/ ReadSnapshot(c) \/ ReadMarket(c)
  \/ ReadPortfolio(c) \/ AskPolicy(c)

\* The account goes on while an evaluation reads it; what it did before is in
\* Histories.
Environment ==
  /\ \E c \in Call : reading(c)
  /\ OwnerOrders \/ Fill \/ Tick
  /\ UNCHANGED evaluation

Next ==
  \/ \E c \in Call :
       \/ \E r \in Requests : Begin(c, r.intent, r.verdict)
       \/ Evaluate(c) \/ RequestFails(c) \/ PlaceOrder(c)
  \/ Environment

\* Every request is answered in the end; when one is aborted by its timeout
\* instead, the evaluation ends there.
Spec == Init /\ [][Next]_vars /\ \A c \in Call : WF_vars(Evaluate(c))

-----------------------------------------------------------------------------
between(least, value, most) == least <= value /\ value <= most

\* What is compared with the limits is what happened: the turnover, the loss
\* and the orders of the day as the exchange itself has recorded them, up to
\* the cutoff, whatever was traded while the history was being read.
StatsAreReal ==
  \A c \in Call :
    facts[c].stats # NoFact =>
      LET stats == facts[c].stats
          cutoff == collect[c].cutoff
      IN /\ between(SumFunctionOnSet(prices, settled(fills, cutoff)), stats.notional,
                    SumFunctionOnSet(prices, todays(fills, cutoff)))
         /\ between(SumFunctionOnSet(losses, settled(fills, cutoff)), stats.loss,
                    SumFunctionOnSet(losses, todays(fills, cutoff)))
         /\ between(Cardinality(settled(orders, cutoff)), stats.orders,
                    Cardinality(todays(orders, cutoff)))

\* c passes the risk stage in this step.
passes(c) == pc[c] \notin {"idle", "policy"} /\ pc'[c] = "policy"

\* An order passes on facts of the current UTC day only, none of them older
\* than its limit at that instant: not on yesterday's statistics, and not on a
\* quote that grew old while the portfolio was read.
PassesOnCurrentFacts ==
  [][\A c \in Call :
       passes(c) =>
         LET f == facts'[c] IN
         /\ day(clock) = day(collect[c].cutoff)
         /\ clock - collect[c].cutoff <= MAX_COLLECTION_AGE
         /\ fresh(f.market.stamp, clock, Limits.marketAge)
         /\ fresh(f.portfolio.stamp, clock, Limits.portfolioAge)]_vars

\* What passes would have kept the day within its limits at the cutoff of its
\* history, and follows every order before the cutoff at the interval asked.
PassesWithinTheDay ==
  [][\A c \in Call :
       passes(c) =>
         LET cutoff == collect[c].cutoff IN
         /\ SumFunctionOnSet(prices, settled(fills, cutoff)) + intent[c].notional
              <= Limits.dailyNotional
         /\ Cardinality(settled(orders, cutoff)) < Limits.ordersPerDay
         /\ SumFunctionOnSet(losses, settled(fills, cutoff)) <= Limits.dailyLoss
         /\ \A k \in DOMAIN orders :
              orders[k].time < cutoff => clock - orders[k].time >= Limits.orderInterval]_vars

\* docs/threat-model.md, "Automatic Execution Envelope": what executes without
\* a human was approved at low risk, is what an entry of the allowlist allows
\* and stays below the automatic thresholds, with the day's turnover and loss
\* and the leverage of a future; an approval of tokens is for no more than the
\* cap and what was asked for.  One field of OPA's answer that is not what
\* the policy computed cannot turn another decision into this one.
AutomaticInsideEnvelope ==
  \A c \in Call :
    outcome[c] = "allow" =>
      LET i == intent[c]
          bounds == Bounds[i.environment]
          a == tokenApprovalFacts(i)
      IN /\ verdict[c].verdict = "approve" /\ verdict[c].risk = "low"
         /\ \E e \in Rules : concerns(e, i) /\ e.human # TRUE
         /\ ~above(i.notional, bounds.auto)
         /\ i.accountMode = "usdm_futures" => i.isolated /\ ~above(i.leverage, bounds.defaultLeverage)
         /\ i.action = "cex.place_order" =>
              /\ facts[c].stats.notional + i.notional <= daily_notional_limit(i)
              /\ facts[c].stats.loss <= bounds.autoLoss
         /\ i.action = "onchain.request_signature" => i.chainEnvironment # "mainnet"
         /\ a.is => /\ a.amount # Absent /\ a.amount <= bounds.approvalCap
                    /\ a.amount <= i.metadata.amount
                    /\ i.approves => a.amount = i.calldata

\* What the policy itself computes always carries the evidence that
\* transformOpaOutput asks for: no intent is denied for a failed evaluation
\* unless OPA failed.  And a denial always names a hard rule: "default_deny"
\* never has to stand in for one.
PolicyIsUnderstood ==
  \A c \in Call :
    pc[c] = "policy" =>
      /\ transformOpaOutput(Document(Facts(c))) = decision(Facts(c))
      /\ decision(Facts(c)) = "deny" => hard_deny_reasons(Facts(c)) # {}

\* An evaluation that has begun decides: paging ends even while the account
\* goes on trading.
EvaluationEnds == \A c \in Call : pc[c] # "idle" ~> outcome[c] # Null
===============================================================================
