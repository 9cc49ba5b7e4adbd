--------------------------- MODULE LiveDecisionProofs ---------------------------
(***************************************************************************)
(* What is proved of the decisions over a live account: what the policy    *)
(* answers is understood and what it allows stays inside the automatic     *)
(* envelope whatever one field of OPA's answer says; the histories are     *)
(* complete, the statistics made of them are real, and what passes the     *)
(* risk stage passes on current facts and within the limits of the day.    *)
(***************************************************************************)
EXTENDS LiveDecision, BinanceHistoryProofs

-----------------------------------------------------------------------------
(***************************************************************************)
(* The policy and the reading of its answer, whatever the facts.           *)
(***************************************************************************)
\* Without a denial or an escalation the intent was approved at low risk, and
\* an entry of the allowlist matches it.
LEMMA NothingToEscalate ==
  ASSUME NEW f, escalation_reasons(f) = {}
  PROVE  /\ f.verdict = "approve" /\ f.risk = "low" /\ allow_reasons(f) # {}
         /\ ~above(f.intent.notional, Bounds[f.intent.environment].auto)
         /\ f.intent.action = "onchain.request_signature" => f.intent.chainEnvironment # "mainnet"
         /\ f.intent.action = "cex.place_order" =>
              /\ ~above(f.projected, daily_notional_limit(f.intent))
              /\ ~above(f.loss, Bounds[f.intent.environment].autoLoss)
         /\ ~(/\ f.intent.accountMode = "usdm_futures"
              /\ above(f.intent.leverage, Bounds[f.intent.environment].defaultLeverage)
              /\ f.intent.leverage <= Bounds[f.intent.environment].maxLeverage)
<1>1. f.verdict = "approve"
  <2>1. f.verdict # "approve" => "reviewer_not_approved" \in escalation_reasons(f)
    BY DEF escalation_reasons
  <2>. QED  BY <2>1
<1>2. f.risk = "low"
  <2>1. f.risk # "low" => "reviewer_risk_not_low" \in escalation_reasons(f)
    BY DEF escalation_reasons
  <2>. QED  BY <2>1
<1>3. allow_reasons(f) # {}
  <2>1. allow_reasons(f) = {} => "no_matching_allowlist" \in escalation_reasons(f)
    BY DEF escalation_reasons
  <2>. QED  BY <2>1
<1>4. ~above(f.intent.notional, Bounds[f.intent.environment].auto)
  <2>1. above(f.intent.notional, Bounds[f.intent.environment].auto) =>
          "notional_above_auto_threshold" \in escalation_reasons(f)
    BY DEF escalation_reasons
  <2>. QED  BY <2>1
<1>5. f.intent.action = "onchain.request_signature" => f.intent.chainEnvironment # "mainnet"
  <2>1. f.intent.action = "onchain.request_signature" /\ f.intent.chainEnvironment = "mainnet" =>
          "mainnet_signing_requires_human" \in escalation_reasons(f)
    BY DEF escalation_reasons
  <2>. QED  BY <2>1
<1>6. f.intent.action = "cex.place_order" => ~above(f.projected, daily_notional_limit(f.intent))
  <2>1. f.intent.action = "cex.place_order" /\ above(f.projected, daily_notional_limit(f.intent)) =>
          "daily_notional_above_threshold" \in escalation_reasons(f)
    BY DEF escalation_reasons
  <2>. QED  BY <2>1
<1>7. f.intent.action = "cex.place_order" =>
        ~above(f.loss, Bounds[f.intent.environment].autoLoss)
  <2>1. f.intent.action = "cex.place_order"
        /\ above(f.loss, Bounds[f.intent.environment].autoLoss) =>
          "daily_loss_above_threshold" \in escalation_reasons(f)
    BY DEF escalation_reasons
  <2>. QED  BY <2>1
<1>8. ~(/\ f.intent.accountMode = "usdm_futures"
        /\ above(f.intent.leverage, Bounds[f.intent.environment].defaultLeverage)
        /\ f.intent.leverage <= Bounds[f.intent.environment].maxLeverage)
  <2>1. SUFFICES ASSUME f.intent.accountMode = "usdm_futures",
                        above(f.intent.leverage, Bounds[f.intent.environment].defaultLeverage),
                        f.intent.leverage <= Bounds[f.intent.environment].maxLeverage
                 PROVE  FALSE
    OBVIOUS
  <2>2. "futures_leverage_escalation" \in escalation_reasons(f)
    BY <2>1, Zenon DEF escalation_reasons
  <2>. QED  BY <2>2
<1>. QED  BY <1>1, <1>2, <1>3, <1>4, <1>5, <1>6, <1>7, <1>8

\* main.rego never falls through to its default decision.
LEMMA Decisions ==
  ASSUME NEW f
  PROVE  \/ decision(f) = "deny" /\ hard_deny_reasons(f) # {}
         \/ decision(f) = "needs_human" /\ hard_deny_reasons(f) = {} /\ escalation_reasons(f) # {}
         \/ /\ decision(f) = "allow" /\ hard_deny_reasons(f) = {} /\ escalation_reasons(f) = {}
            /\ allow_reasons(f) # {}
<1>1. CASE hard_deny_reasons(f) # {}
  BY <1>1 DEF decision
<1>2. CASE hard_deny_reasons(f) = {} /\ escalation_reasons(f) # {}
  BY <1>2 DEF decision
<1>3. CASE hard_deny_reasons(f) = {} /\ escalation_reasons(f) = {}
  BY <1>3, NothingToEscalate DEF decision
<1>. QED  BY <1>1, <1>2, <1>3

\* The document OPA returns, by the decision.
LEMMA DocumentFields ==
  ASSUME NEW f
  PROVE  LET d == Document(f) IN
         /\ DOMAIN d = {"decision", "reasons", "hardDeny", "escalations", "human",
                        "allowRules", "denyRules"}
         /\ d.decision = decision(f) /\ d.hardDeny = hard_deny_reasons(f)
         /\ d.escalations = escalation_reasons(f) /\ d.allowRules = allow_reasons(f)
         /\ d.human <=> decision(f) = "needs_human"
         /\ d.denyRules = hard_deny_reasons(f)
         /\ decision(f) = "deny" => d.reasons = hard_deny_reasons(f)
         /\ decision(f) = "needs_human" => d.reasons = escalation_reasons(f)
         /\ decision(f) = "allow" => d.reasons = allow_reasons(f)
<1>1. all_deny_reasons(f) = hard_deny_reasons(f)
  BY Decisions DEF all_deny_reasons
<1>. QED  BY <1>1 DEF Document

\* transformOpaOutput lets a document pass as an approval only when all of its
\* evidence is that of one.
LEMMA AllowHasEvidence ==
  ASSUME NEW raw, transformOpaOutput(raw) = "allow"
  PROVE  /\ {"decision", "human", "allowRules", "denyRules"} \subseteq DOMAIN raw
         /\ raw.decision = "allow" /\ raw.denyRules = {} /\ ~raw.human
         /\ "hardDeny" \in DOMAIN raw => raw.hardDeny = {}
         /\ "escalations" \in DOMAIN raw => raw.escalations = {}
BY DEF transformOpaOutput

\* opa-transform.ts understands whatever main.rego says: the evidence it asks
\* for is always there.
LEMMA Understood ==
  ASSUME NEW f
  PROVE  transformOpaOutput(Document(f)) = decision(f)
<1>. DEFINE d == Document(f)
<1>1. /\ DOMAIN d = {"decision", "reasons", "hardDeny", "escalations", "human",
                     "allowRules", "denyRules"}
      /\ d.decision = decision(f) /\ d.hardDeny = hard_deny_reasons(f)
      /\ d.escalations = escalation_reasons(f) /\ d.allowRules = allow_reasons(f)
      /\ d.human <=> decision(f) = "needs_human"
      /\ d.denyRules = hard_deny_reasons(f)
      /\ decision(f) = "deny" => d.reasons = hard_deny_reasons(f)
      /\ decision(f) = "needs_human" => d.reasons = escalation_reasons(f)
      /\ decision(f) = "allow" => d.reasons = allow_reasons(f)
  BY DocumentFields
<1>. HIDE DEF d
<1>2. CASE decision(f) = "deny" /\ hard_deny_reasons(f) # {}
  BY <1>1, <1>2 DEF transformOpaOutput, d
<1>3. CASE decision(f) = "needs_human" /\ hard_deny_reasons(f) = {} /\ escalation_reasons(f) # {}
  BY <1>1, <1>3 DEF transformOpaOutput, d
<1>4. CASE /\ decision(f) = "allow" /\ hard_deny_reasons(f) = {} /\ escalation_reasons(f) = {}
           /\ allow_reasons(f) # {}
  BY <1>1, <1>4 DEF transformOpaOutput, d
<1>. QED  BY <1>2, <1>3, <1>4, Decisions

\* One wrong field cannot turn another decision into an approval: a denial has
\* its rules twice, and an escalation is flagged.
LEMMA OneFieldDoesNotAllow ==
  ASSUME NEW f, NEW raw \in {Document(f)} \cup faulty(Document(f)),
         transformOpaOutput(raw) = "allow"
  PROVE  decision(f) = "allow"
<1>. DEFINE d == Document(f)
<1>1. /\ DOMAIN d = {"decision", "reasons", "hardDeny", "escalations", "human",
                     "allowRules", "denyRules"}
      /\ d.decision = decision(f) /\ d.hardDeny = hard_deny_reasons(f)
      /\ d.human <=> decision(f) = "needs_human"
      /\ d.denyRules = hard_deny_reasons(f)
  BY DocumentFields
<1>2. /\ {"decision", "human", "allowRules", "denyRules"} \subseteq DOMAIN raw
      /\ raw.decision = "allow" /\ raw.denyRules = {} /\ ~raw.human
      /\ "hardDeny" \in DOMAIN raw => raw.hardDeny = {}
  BY AllowHasEvidence
<1>. HIDE DEF d
<1>3. \E field \in DOMAIN d : \A x \in DOMAIN d \ {field} : x \in DOMAIN raw /\ raw[x] = d[x]
  <2>1. CASE raw = d
    BY <1>1, <2>1
  <2>2. ASSUME NEW field \in DOMAIN d, raw = [x \in DOMAIN d \ {field} |-> d[x]]
        PROVE  \A x \in DOMAIN d \ {field} : x \in DOMAIN raw /\ raw[x] = d[x]
    BY <2>2
  <2>3. ASSUME NEW field \in DOMAIN d, NEW v, raw = [d EXCEPT ![field] = v]
        PROVE  \A x \in DOMAIN d \ {field} : x \in DOMAIN raw /\ raw[x] = d[x]
    <3>1. d = [x \in DOMAIN d |-> d[x]]
      BY DEF d, Document
    <3>. QED  BY <2>3, <3>1
  <2>4. \/ raw = d
        \/ \E field \in DOMAIN d : raw = [x \in DOMAIN d \ {field} |-> d[x]]
        \/ \E field \in DOMAIN d : \E v \in Garbled[field] : raw = [d EXCEPT ![field] = v]
    BY DEF faulty, d
  <2>. QED  BY <2>1, <2>2, <2>3, <2>4
<1>4. PICK field \in DOMAIN d : \A x \in DOMAIN d \ {field} : x \in DOMAIN raw /\ raw[x] = d[x]
  BY <1>3
<1>5. hard_deny_reasons(f) = {}
  <2>1. CASE field # "hardDeny"
    <3>1. raw.hardDeny = d.hardDeny /\ "hardDeny" \in DOMAIN raw
      BY <1>1, <1>4, <2>1
    <3>. QED  BY <1>1, <1>2, <3>1
  <2>2. CASE field = "hardDeny"
    <3>1. raw.denyRules = d.denyRules
      BY <1>1, <1>4, <2>2
    <3>. QED  BY <1>1, <1>2, <3>1
  <2>. QED  BY <2>1, <2>2
<1>6. decision(f) # "needs_human"
  <2>1. CASE field # "human"
    <3>1. raw.human = d.human
      BY <1>1, <1>4, <2>1
    <3>. QED  BY <1>1, <1>2, <3>1
  <2>2. CASE field = "human"
    <3>1. raw.decision = d.decision
      BY <1>1, <1>4, <2>2
    <3>. QED  BY <1>1, <1>2, <3>1
  <2>. QED  BY <2>1, <2>2
<1>. QED  BY <1>5, <1>6, Decisions

\* An intent with an approval of tokens that no rule denies is for an amount
\* that is known, within the cap and what was asked for.
LEMMA ApprovalNotDenied ==
  ASSUME NEW r \in Requests, NEW i, i = r.intent, NEW a, a = tokenApprovalFacts(i),
         approvalDenied(i, a) = {}, a.is
  PROVE  /\ a.amount # Absent /\ a.amount <= Bounds[i.environment].approvalCap
         /\ a.amount <= i.metadata.amount
         /\ i.approves => a.amount = i.calldata
<1>. DEFINE allowed == IF i.metadata.kind = "decimal" THEN i.metadata.amount ELSE Absent
            metadata == parseApprovalMetadata(i.metadata)
            calldata == IF i.approves THEN i.calldata ELSE Absent
<1>1. /\ i.calldata \in Nat \cup {Absent} /\ i.metadata.amount \in Nat /\ Unlimited \in Nat
      /\ i.environment \in DOMAIN Bounds /\ Absent \notin Int
  BY RequestsAssumption, DecisionAssumption
<1>2. Bounds[i.environment].approvalCap \in Nat
  BY <1>1, BoundsAssumption
<1>3. /\ a.missing <=> (metadata = Absent \/ (i.approves /\ calldata = Absent))
      /\ a.amount = IF calldata # Absent THEN calldata ELSE metadata
  BY DEF tokenApprovalFacts
<1>4. metadata \in Nat \cup {Absent}
  <2>1. CASE i.metadata.kind \in {"unlimited", "alias"}
    BY <1>1, <2>1 DEF parseApprovalMetadata
  <2>2. CASE i.metadata.kind = "decimal" /\ i.metadata.amount <= Unlimited
    BY <1>1, <2>2 DEF parseApprovalMetadata
  <2>3. CASE /\ i.metadata.kind \notin {"unlimited", "alias"}
             /\ ~(i.metadata.kind = "decimal" /\ i.metadata.amount <= Unlimited)
    BY <2>3 DEF parseApprovalMetadata
  <2>. QED  BY <2>1, <2>2, <2>3
<1>5. ~a.missing
  <2>1. a.missing => "token_approval_amount_missing" \in approvalDenied(i, a)
    BY DEF approvalDenied
  <2>. QED  BY <2>1
<1>6. allowed # Absent
  <2>1. allowed = Absent => "token_approval_metadata_invalid" \in approvalDenied(i, a)
    BY DEF approvalDenied
  <2>. QED  BY <2>1
<1>7. ~above(a.amount, Bounds[i.environment].approvalCap)
  <2>1. above(a.amount, Bounds[i.environment].approvalCap) =>
          "token_approval_cap_exceeded" \in approvalDenied(i, a)
    BY DEF approvalDenied
  <2>. QED  BY <2>1
<1>8. ~above(a.amount, allowed)
  <2>1. above(a.amount, allowed) => "token_approval_amount_exceeds_metadata" \in approvalDenied(i, a)
    BY DEF approvalDenied
  <2>. QED  BY <2>1
<1>9. a.amount \in Nat
  BY <1>1, <1>3, <1>4, <1>5
<1>10. a.amount <= Bounds[i.environment].approvalCap
  BY <1>1, <1>2, <1>7, <1>9 DEF above
<1>11. a.amount <= i.metadata.amount
  BY <1>1, <1>6, <1>8, <1>9 DEF above
<1>12. i.approves => a.amount = i.calldata
  BY <1>3, <1>5
<1>. QED  BY <1>1, <1>9, <1>10, <1>11, <1>12

\* docs/threat-model.md, "Automatic Execution Envelope", of one intent.
Envelope(i, v, stats) ==
  LET bounds == Bounds[i.environment]
      a == tokenApprovalFacts(i)
  IN /\ v.verdict = "approve" /\ v.risk = "low"
     /\ \E e \in Rules : concerns(e, i) /\ e.human # TRUE
     /\ ~above(i.notional, bounds.auto)
     /\ i.accountMode = "usdm_futures" => i.isolated /\ ~above(i.leverage, bounds.defaultLeverage)
     /\ i.action = "cex.place_order" =>
          /\ stats.notional + i.notional <= daily_notional_limit(i)
          /\ stats.loss <= bounds.autoLoss
     /\ i.action = "onchain.request_signature" => i.chainEnvironment # "mainnet"
     /\ a.is => /\ a.amount # Absent /\ a.amount <= bounds.approvalCap
                /\ a.amount <= i.metadata.amount
                /\ i.approves => a.amount = i.calldata

LEMMA AllowedInsideEnvelope ==
  ASSUME NEW r \in Requests, NEW i, i = r.intent, NEW v, NEW stats,
         i.action = "cex.place_order" => stats \in Stats,
         decision(policyInput(i, v, stats)) = "allow"
  PROVE  Envelope(i, v, stats)
<1>. DEFINE f == policyInput(i, v, stats)
            bounds == Bounds[i.environment]
            a == tokenApprovalFacts(i)
<1>1. /\ f.intent = i /\ f.verdict = v.verdict /\ f.risk = v.risk /\ f.approval = a
      /\ f.projected = projectedDailyNotionalUsd(i, stats)
      /\ f.loss = IF stats = Absent THEN Absent ELSE stats.loss
  BY DEF policyInput
<1>. HIDE DEF f
<1>2. hard_deny_reasons(f) = {} /\ escalation_reasons(f) = {}
  BY Decisions DEF f
<1>3. /\ f.verdict = "approve" /\ f.risk = "low" /\ ~above(i.notional, bounds.auto)
      /\ i.action = "onchain.request_signature" => i.chainEnvironment # "mainnet"
      /\ i.action = "cex.place_order" =>
           ~above(f.projected, daily_notional_limit(i)) /\ ~above(f.loss, bounds.autoLoss)
  BY <1>1, <1>2, NothingToEscalate
<1>4. ASSUME i.action = "cex.place_order"
      PROVE  stats.notional + i.notional <= daily_notional_limit(i) /\ stats.loss <= bounds.autoLoss
  <2>1. /\ stats.notional \in Nat /\ stats.loss \in Nat /\ i.notional \in Nat
        /\ i.environment \in DOMAIN Bounds /\ Absent \notin Int
    BY <1>4, RequestsAssumption, DecisionAssumption DEF Stats
  <2>2. stats # Absent
    BY <1>4, FactsAssumption, DecisionAssumption
  <2>3. daily_notional_limit(i) \in Nat /\ bounds.autoLoss \in Nat
    <3>1. bounds.autoLoss \in Nat /\ bounds.autoDaily \in Nat /\ bounds.futuresDaily \in Nat \cup {Absent}
      BY <2>1, BoundsAssumption
    <3>. QED  BY <3>1 DEF daily_notional_limit
  <2>4. f.projected = stats.notional + i.notional /\ f.loss = stats.loss
    BY <1>1, <1>4, <2>2 DEF projectedDailyNotionalUsd
  <2>. QED  BY <1>3, <1>4, <2>1, <2>3, <2>4 DEF above
<1>5. approvalDenied(i, a) = {}
  BY <1>1, <1>2 DEF hard_deny_reasons
<1>6. a.is => /\ a.amount # Absent /\ a.amount <= bounds.approvalCap
              /\ a.amount <= i.metadata.amount
              /\ i.approves => a.amount = i.calldata
  BY <1>5, ApprovalNotDenied
<1>7. \E e \in Rules : concerns(e, i) /\ e.human # TRUE
  <2>1. PICK x \in allow_reasons(f) : TRUE
    BY <1>2, NothingToEscalate
  <2>2. PICK e \in Rules : concerns(e, i) /\ human_approval_ok(e)
    BY <1>1, <2>1 DEF allow_reasons
  <2>3. e.human # TRUE
    BY <2>2, DecisionAssumption DEF human_approval_ok
  <2>. QED  BY <2>2, <2>3
<1>8. ASSUME i.accountMode = "usdm_futures"
      PROVE  i.isolated /\ ~above(i.leverage, bounds.defaultLeverage)
  <2>1. accountDenied(i) = {}
    BY <1>1, <1>2 DEF hard_deny_reasons
  <2>2. i.isolated
    <3>1. ~i.isolated => "futures_cross_margin_denied" \in accountDenied(i)
      BY <1>8 DEF accountDenied
    <3>. QED  BY <2>1, <3>1
  <2>3. ~above(i.leverage, bounds.maxLeverage)
    <3>1. above(i.leverage, bounds.maxLeverage) => "leverage_cap_exceeded" \in accountDenied(i)
      BY <1>8 DEF accountDenied
    <3>. QED  BY <2>1, <3>1
  <2>4. ~(above(i.leverage, bounds.defaultLeverage) /\ i.leverage <= bounds.maxLeverage)
    BY <1>1, <1>2, <1>8, NothingToEscalate
  <2>5. /\ i.leverage \in Nat \cup {Absent} /\ bounds.maxLeverage \in Nat
        /\ Absent \notin Int
    BY RequestsAssumption, BoundsAssumption, DecisionAssumption
  <2>. QED  BY <2>2, <2>3, <2>4, <2>5 DEF above
<1>. QED  BY <1>1, <1>3, <1>4, <1>6, <1>7, <1>8 DEF Envelope

-----------------------------------------------------------------------------
(***************************************************************************)
(* The statistics of a history.                                            *)
(***************************************************************************)
LEMMA MaxOfTwo ==
  ASSUME NEW a \in Int, NEW b \in Int
  PROVE  Max({a, b}) = IF a >= b THEN a ELSE b
BY DEF Max

\* A step function has its iterates.
Iterate(g, N, start, step) == g[0] = start /\ \A n \in 1..N : g[n] = step[<<g[n - 1], n>>]

LEMMA Iterates ==
  ASSUME NEW N \in Nat, NEW Acc, NEW start \in Acc, NEW step \in [Acc \X (1..N) -> Acc]
  PROVE  \E g \in [0..N -> Acc] : Iterate(g, N, start, step)
<1>. USE DEF Iterate
<1>. DEFINE upTo(m, g) == Iterate(g, m, start, step)
            T == {m \in Nat : m <= N => \E g \in [0..m -> Acc] : upTo(m, g)}
<1>1. 0 \in T
  <2>1. [n \in 0..0 |-> start] \in [0..0 -> Acc] /\ upTo(0, [n \in 0..0 |-> start])
    OBVIOUS
  <2>. QED  BY <2>1
<1>2. ASSUME NEW m \in Nat, m \in T PROVE m + 1 \in T
  <2>. SUFFICES ASSUME m + 1 <= N PROVE \E g \in [0..m + 1 -> Acc] : upTo(m + 1, g)
    OBVIOUS
  <2>1. PICK g \in [0..m -> Acc] : upTo(m, g)
    BY <1>2
  <2>. DEFINE k == [n \in 0..m + 1 |-> IF n <= m THEN g[n] ELSE step[<<g[m], m + 1>>]]
  <2>2. step[<<g[m], m + 1>>] \in Acc
    <3>1. g[m] \in Acc /\ m + 1 \in 1..N
      OBVIOUS
    <3>. QED  BY <3>1
  <2>3. k \in [0..m + 1 -> Acc]
    BY <2>2
  <2>4. k[0] = start
    BY <2>1
  <2>5. ASSUME NEW n \in 1..m + 1 PROVE k[n] = step[<<k[n - 1], n>>]
    <3>1. CASE n <= m
      <4>1. k[n] = g[n] /\ k[n - 1] = g[n - 1] /\ n \in 1..m
        BY <3>1
      <4>. QED  BY <2>1, <4>1
    <3>2. CASE n = m + 1
      <4>1. k[n] = step[<<g[m], m + 1>>] /\ n - 1 = m /\ k[n - 1] = g[m]
        BY <3>2
      <4>. QED  BY <3>2, <4>1
    <3>. QED  BY <3>1, <3>2
  <2>. HIDE DEF k
  <2>. QED  BY <2>3, <2>4, <2>5
<1>. HIDE DEF T
<1>3. N \in T
  BY <1>1, <1>2, NatSetInduction
<1>. QED  BY <1>3 DEF T

\* What spotLoss accumulates.
Replay == [lots : Lots, loss : Nat, complete : BOOLEAN]

tradesOfHistory(h) == sorted(ToSet(h.trades))

LEMMA NothingIsAReplay == Nothing \in Replay
BY DEF Nothing, NoLots, Replay, Lots

LEMMA TradedIsAReplay ==
  ASSUME HistoryTypeOK, Chronicle(orders, fills, clock), NEW h, h.cutoff \in Nat,
         NEW acc \in Replay, NEW k \in DOMAIN fills
  PROVE  traded(h, acc, k) \in Replay
<1>. DEFINE o == orders[fills[k].order]
            lot == acc.lots[o.symbol]
<1>1. o \in AnOrder /\ o.symbol \in Symbol /\ o.price \in Nat
  <2>1. fills[k].order \in DOMAIN orders
    BY Rows
  <2>2. o \in AnOrder
    BY <2>1 DEF HistoryTypeOK
  <2>. QED  BY <2>2 DEF AnOrder
<1>2. /\ acc.lots \in Lots /\ acc.loss \in Nat /\ acc.complete \in BOOLEAN
      /\ lot \in [quantity : Int, cost : Nat]
  BY <1>1 DEF Replay, Lots
<1>. HIDE DEF o, lot
<1>3. ASSUME NEW new \in [quantity : Int, cost : Nat], NEW loss \in Nat, NEW complete \in BOOLEAN,
             NEW next, next = [acc EXCEPT !.lots[o.symbol] = new, !.loss = loss]
                       \/ next = [acc EXCEPT !.lots[o.symbol] = new]
                       \/ next = [acc EXCEPT !.complete = FALSE]
      PROVE  next \in Replay
  <2>1. [acc.lots EXCEPT ![o.symbol] = new] \in Lots
    BY <1>1, <1>2 DEF Lots
  <2>. QED  BY <1>2, <1>3, <2>1 DEF Replay
<1>4. bought(lot, o) \in [quantity : Int, cost : Nat]
  BY <1>1, <1>2 DEF bought
<1>5. ASSUME ~(lot.quantity <= 0)
      PROVE  /\ sold(lot) \in [quantity : Int, cost : Nat]
             /\ Max({0, averageCost(lot) - o.price}) \in Nat
  <2>1. lot.quantity > 0
    BY <1>2, <1>5
  <2>2. sold(lot) \in [quantity : Int, cost : Nat] /\ averageCost(lot) \in Nat
    BY <1>2, <2>1, SoldLot
  <2>3. averageCost(lot) - o.price \in Int
    BY <1>1, <2>2
  <2>. QED  BY <2>2, <2>3, MaxOfTwo
<1>6. CASE o.side = "BUY"
  <2>1. traded(h, acc, k) = [acc EXCEPT !.lots[o.symbol] = bought(lot, o)]
    BY <1>6 DEF traded, o, lot
  <2>. QED  BY <1>3, <1>4, <2>1
<1>7. CASE o.side # "BUY" /\ lot.quantity <= 0
  <2>1. traded(h, acc, k) = [acc EXCEPT !.complete = FALSE]
    BY <1>7 DEF traded, o, lot
  <2>. QED  BY <1>2, <2>1 DEF Replay
<1>8. CASE o.side # "BUY" /\ ~(lot.quantity <= 0)
  <2>. DEFINE loss == acc.loss + IF fills[k].time >= dayStart(h.cutoff)
                                 THEN Max({0, averageCost(lot) - o.price}) ELSE 0
  <2>1. traded(h, acc, k) = [acc EXCEPT !.lots[o.symbol] = sold(lot), !.loss = loss]
    BY <1>8 DEF traded, o, lot
  <2>2. loss \in Nat
    BY <1>2, <1>5, <1>8
  <2>. QED  BY <1>3, <1>5, <1>8, <2>1, <2>2
<1>. QED  BY <1>6, <1>7, <1>8

\* The recursion of spotReplay, step by step.
LEMMA Replayed ==
  ASSUME HistoryTypeOK, Chronicle(orders, fills, clock), NEW h, h.cutoff \in Nat,
         ToSet(h.trades) \subseteq DOMAIN fills,
         NEW ids, ids = tradesOfHistory(h)
  PROVE  /\ Len(ids) \in Nat /\ \A n \in 1..Len(ids) : ids[n] \in DOMAIN fills
         /\ \E g \in [0..Len(ids) -> Replay] :
              /\ g[0] = Nothing /\ \A n \in 1..Len(ids) : g[n] = traded(h, g[n - 1], ids[n])
              /\ spotReplay(h) = g[Len(ids)]
<1>. DEFINE N == Len(ids)
            step == [x \in Replay \X (1..N) |-> traded(h, x[1], ids[x[2]])]
            isReplay(a) == a = [n \in 0..N |-> IF n = 0 THEN Nothing ELSE traded(h, a[n - 1], ids[n])]
<1>1. N \in Nat /\ \A n \in 1..N : ids[n] \in DOMAIN fills
  <2>1. ToSet(h.trades) \subseteq Int /\ IsFiniteSet(ToSet(h.trades))
    BY Rows, FS_Subset
  <2>2. ids \in Seq(ToSet(h.trades))
    BY <2>1, SortedById DEF tradesOfHistory
  <2>. QED  BY <2>2
<1>. HIDE DEF N
<1>2. step \in [Replay \X (1..N) -> Replay]
  BY <1>1, TradedIsAReplay
<1>. HIDE DEF step
<1>3. PICK g \in [0..N -> Replay] : g[0] = Nothing /\ \A n \in 1..N : g[n] = step[<<g[n - 1], n>>]
  <2>1. \E g \in [0..N -> Replay] : Iterate(g, N, Nothing, step)
    BY <1>1, <1>2, NothingIsAReplay, Iterates
  <2>. QED  BY <2>1 DEF Iterate
<1>4. \A n \in 1..N : g[n] = traded(h, g[n - 1], ids[n])
  <2>1. ASSUME NEW n \in 1..N PROVE g[n] = traded(h, g[n - 1], ids[n])
    <3>1. n - 1 \in 0..N
      BY <1>1
    <3>2. <<g[n - 1], n>> \in Replay \X (1..N)
      BY <3>1
    <3>3. step[<<g[n - 1], n>>] = traded(h, g[n - 1], ids[n])
      BY <3>2 DEF step
    <3>. QED  BY <1>3, <3>3
  <2>. QED  BY <2>1
<1>5. isReplay(g)
  <2>1. \A n \in 0..N : g[n] = IF n = 0 THEN Nothing ELSE traded(h, g[n - 1], ids[n])
    BY <1>1, <1>3, <1>4
  <2>. QED  BY <2>1
<1>6. ASSUME NEW a, isReplay(a) PROVE a[N] = g[N]
  <2>. DEFINE T == {n \in Nat : n <= N => a[n] = g[n]}
  <2>1. \A n \in 0..N : a[n] = IF n = 0 THEN Nothing ELSE traded(h, a[n - 1], ids[n])
    <3>. DEFINE b == [n \in 0..N |-> IF n = 0 THEN Nothing ELSE traded(h, a[n - 1], ids[n])]
    <3>1. \A n \in 0..N : b[n] = IF n = 0 THEN Nothing ELSE traded(h, a[n - 1], ids[n])
      OBVIOUS
    <3>. HIDE DEF b
    <3>2. a = b
      BY <1>6 DEF b
    <3>. QED  BY <3>1, <3>2
  <2>2. 0 \in T
    BY <1>1, <1>3, <2>1
  <2>3. ASSUME NEW n \in Nat, n \in T PROVE n + 1 \in T
    <3>1. CASE ~(n + 1 <= N)
      BY <3>1
    <3>2. CASE n + 1 <= N
      <4>1. n + 1 \in 1..N /\ n + 1 \in 0..N /\ n + 1 # 0 /\ (n + 1) - 1 = n /\ n <= N
        BY <1>1, <3>2
      <4>2. a[n + 1] = traded(h, a[n], ids[n + 1]) /\ g[n + 1] = traded(h, g[n], ids[n + 1])
        BY <1>4, <2>1, <4>1
      <4>. QED  BY <2>3, <4>1, <4>2
    <3>. QED  BY <3>1, <3>2
  <2>. HIDE DEF T
  <2>4. N \in T
    BY <1>1, <2>2, <2>3, NatSetInduction
  <2>. QED  BY <1>1, <2>4 DEF T
<1>7. spotReplay(h) = (CHOOSE a : isReplay(a))[N]
  BY DEF spotReplay, tradesOfHistory, N
<1>8. spotReplay(h) = g[N]
  <2>. DEFINE chosen == CHOOSE a : isReplay(a)
  <2>1. isReplay(chosen)
    BY <1>5
  <2>. HIDE DEF chosen
  <2>2. chosen[N] = g[N]
    BY <1>6, <2>1
  <2>. QED  BY <1>7, <2>2 DEF chosen
<1>. QED  BY <1>1, <1>3, <1>4, <1>8 DEF N

LEMMA AmountTypes ==
  ASSUME HistoryTypeOK, Chronicle(orders, fills, clock)
  PROVE  /\ \A k \in DOMAIN fills : prices[k] \in Nat /\ losses[k] \in Nat
         /\ IsFiniteSet(DOMAIN fills) /\ IsFiniteSet(DOMAIN orders)
<1>1. ASSUME NEW k \in DOMAIN fills PROVE prices[k] \in Nat /\ losses[k] \in Nat
  <2>1. fills[k].order \in DOMAIN orders /\ orders[fills[k].order].price \in Nat /\ fills[k].gain \in Int
    BY Rows
  <2>2. Max({0, -fills[k].gain}) \in Nat
    <3>1. -fills[k].gain \in Int
      BY <2>1
    <3>. QED  BY <3>1, MaxOfTwo
  <2>. QED  BY <2>1, <2>2 DEF prices, losses
<1>. QED  BY <1>1, Rows

LEMMA StatsTypes ==
  ASSUME HistoryTypeOK, Chronicle(orders, fills, clock), NEW h, Sound(h)
  PROVE  /\ futuresLoss(h) \in Nat /\ spotReplay(h).loss \in Nat
         /\ \A loss \in Nat : calculateDailyStats(h, loss) \in Stats
<1>1. /\ ToSet(h.trades) \subseteq DOMAIN fills /\ ToSet(h.income) \subseteq DOMAIN fills
      /\ ToSet(h.orders) \subseteq DOMAIN orders /\ h.cutoff \in Nat
  BY DEF Sound, TradesSound, OrdersSound, IncomeSound, Collection, todays
<1>2. futuresLoss(h) \in Nat
  <2>1. IsFiniteSet(ToSet(h.income)) /\ \A k \in ToSet(h.income) : losses[k] \in Nat
    BY <1>1, AmountTypes, FS_Subset
  <2>. QED  BY <2>1, SumGrows DEF futuresLoss
<1>3. totalNotionalUsd(h) \in Nat
  <2>. DEFINE ids == ofToday(h, ToSet(h.trades))
  <2>1. ids \subseteq DOMAIN fills
    BY <1>1 DEF ofToday
  <2>. HIDE DEF ids
  <2>2. IsFiniteSet(ids) /\ \A k \in ids : prices[k] \in Nat
    BY <2>1, AmountTypes, FS_Subset
  <2>3. SumFunctionOnSet(prices, ids) \in Nat
    BY <2>2, SumGrows
  <2>. QED  BY <2>3 DEF totalNotionalUsd, ids
<1>4. orderCount(h) \in Nat
  <2>1. IsFiniteSet(ToSet(h.orders))
    BY <1>1, AmountTypes, FS_Subset
  <2>. QED  BY <2>1, FS_CardinalityType DEF orderCount
<1>5. spotReplay(h).loss \in Nat
  <2>1. PICK g \in [0..Len(tradesOfHistory(h)) -> Replay] :
          spotReplay(h) = g[Len(tradesOfHistory(h))]
    BY <1>1, Replayed
  <2>2. Len(tradesOfHistory(h)) \in Nat
    BY <1>1, Replayed
  <2>3. spotReplay(h) \in Replay
    BY <2>1, <2>2
  <2>. QED  BY <2>3 DEF Replay
<1>. QED  BY <1>2, <1>3, <1>4, <1>5 DEF calculateDailyStats, Stats

-----------------------------------------------------------------------------
(***************************************************************************)
(* The invariant: what an evaluation has by the time it is where it is.    *)
(***************************************************************************)
isOrder(c) == intent[c].action = "cex.place_order"

requested(c) == \E r \in Requests : intent[c] = r.intent /\ verdict[c] = r.verdict

\* Only orders read the account, and each has a collection while it does.
ReadingOK(c) ==
  /\ reading(c) => isOrder(c) /\ collect[c] # Null
  /\ pc[c] \in {"snapshot", "market", "portfolio"} => collect[c].step = "done"

\* Past the statistics the symbol is one that was read; past the risk stage
\* there are statistics of an order.
JudgedOK(c) ==
  /\ pc[c] \in {"market", "portfolio"} => intent[c].symbol \in Symbol
  /\ pc[c] = "policy" /\ isOrder(c) => intent[c].symbol \in Symbol /\ facts[c].stats # NoFact
  /\ outcome[c] \in {"allow", "needs_human"} /\ isOrder(c) => intent[c].symbol \in Symbol

\* It has an outcome once it is decided, and an allowed one is in the envelope.
OutcomeOK(c) ==
  /\ outcome[c] # Null <=> pc[c] \in {"decided", "placed"}
  /\ outcome[c] = "allow" => Envelope(intent[c], verdict[c], facts[c].stats)

CallOK(c) ==
  /\ pc[c] # "idle" => requested(c)
  /\ facts[c].asked <= clock
  /\ ReadingOK(c) /\ JudgedOK(c) /\ OutcomeOK(c)

Pinned == [stats : {NoFact} \cup Stats, market : {NoFact} \cup Market,
           portfolio : {NoFact} \cup Portfolio, asked : Nat]

EvaluationTypes ==
  /\ pc \in [Call -> Place]
  /\ DOMAIN intent = Call /\ DOMAIN verdict = Call
  /\ facts \in [Call -> Pinned]
  /\ outcome \in [Call -> {"allow", "needs_human", "deny", Null}]
  /\ reason \in [Call -> {"risk_check_unavailable", "risk", "policy_evaluation_failed",
                          "policy", Null}]

DecisionInv == HistoryInv /\ EvaluationTypes /\ \A c \in Call : CallOK(c)

-----------------------------------------------------------------------------
(***************************************************************************)
(* A step of one evaluation leaves the others alone.                       *)
(***************************************************************************)
untouched(d) ==
  /\ pc'[d] = pc[d] /\ intent'[d] = intent[d] /\ verdict'[d] = verdict[d]
  /\ facts'[d] = facts[d] /\ outcome'[d] = outcome[d] /\ collect'[d] = collect[d]

LEMMA OthersStay ==
  ASSUME NEW d \in Call, CallOK(d), untouched(d), facts[d].asked <= clock'
  PROVE  CallOK(d)'
<1>1. requested(d)' <=> requested(d)
  BY DEF untouched, requested
<1>2. ReadingOK(d)'
  BY DEF CallOK, ReadingOK, untouched, reading, isOrder
<1>3. JudgedOK(d)'
  BY DEF CallOK, JudgedOK, untouched, isOrder
<1>4. OutcomeOK(d)'
  BY DEF CallOK, OutcomeOK, untouched
<1>. QED  BY <1>1, <1>2, <1>3, <1>4 DEF CallOK, untouched

\* A step of c that keeps the clock: what is to be shown of c alone.
LEMMA OwnStep ==
  ASSUME DecisionInv, HistoryInv', EvaluationTypes', clock' = clock,
         NEW c \in Call, CallOK(c)', \A d \in Call \ {c} : untouched(d)
  PROVE  DecisionInv'
<1>1. \A d \in Call \ {c} : CallOK(d)'
  <2>1. ASSUME NEW d \in Call \ {c} PROVE CallOK(d)'
    BY OthersStay DEF DecisionInv, CallOK
  <2>. QED  BY <2>1
<1>. QED  BY <1>1 DEF DecisionInv

\* The three ways an evaluation goes on.
LEMMA Moves ==
  ASSUME EvaluationTypes, NEW c \in Call, NEW p \in Place, Continue(c, p)
  PROVE  /\ pc' \in [Call -> Place] /\ pc'[c] = p /\ outcome'[c] = outcome[c]
         /\ \A d \in Call \ {c} : pc'[d] = pc[d] /\ outcome'[d] = outcome[d]
         /\ outcome' \in [Call -> {"allow", "needs_human", "deny", Null}]
         /\ reason' \in [Call -> {"risk_check_unavailable", "risk", "policy_evaluation_failed",
                                  "policy", Null}]
BY DEF EvaluationTypes, Continue, Goto

LEMMA Decided ==
  ASSUME EvaluationTypes, NEW c \in Call, NEW o \in {"allow", "needs_human", "deny"},
         NEW r \in {"risk_check_unavailable", "risk", "policy_evaluation_failed", "policy"},
         Decide(c, o, r)
  PROVE  /\ pc' \in [Call -> Place] /\ pc'[c] = "decided" /\ outcome'[c] = o
         /\ \A d \in Call \ {c} : pc'[d] = pc[d] /\ outcome'[d] = outcome[d]
         /\ outcome' \in [Call -> {"allow", "needs_human", "deny", Null}]
         /\ reason' \in [Call -> {"risk_check_unavailable", "risk", "policy_evaluation_failed",
                                  "policy", Null}]
BY DEF EvaluationTypes, Decide, Goto, Place

\* What a denial keeps: an error of the risk stage or a check that fails.
LEMMA DeniedOn ==
  ASSUME DecisionInv, NEW c \in Call, requested(c)',
         NEW r \in {"risk_check_unavailable", "risk", "policy_evaluation_failed"},
         Decide(c, "deny", r), NEW f \in Pinned, f.asked <= clock, Pin(c, f),
         HistoryInv', clock' = clock, DOMAIN intent' = Call, DOMAIN verdict' = Call,
         \A d \in Call \ {c} : /\ intent'[d] = intent[d] /\ verdict'[d] = verdict[d]
                               /\ collect'[d] = collect[d]
  PROVE  DecisionInv'
<1>1. /\ pc' \in [Call -> Place] /\ pc'[c] = "decided" /\ outcome'[c] = "deny"
      /\ \A d \in Call \ {c} : pc'[d] = pc[d] /\ outcome'[d] = outcome[d]
      /\ outcome' \in [Call -> {"allow", "needs_human", "deny", Null}]
      /\ reason' \in [Call -> {"risk_check_unavailable", "risk", "policy_evaluation_failed",
                               "policy", Null}]
  BY Decided DEF DecisionInv
<1>2. facts' \in [Call -> Pinned] /\ facts'[c] = f /\ \A d \in Call \ {c} : facts'[d] = facts[d]
  BY DEF DecisionInv, EvaluationTypes, Pin
<1>3. EvaluationTypes'
  BY <1>1, <1>2 DEF DecisionInv, EvaluationTypes
<1>4. CallOK(c)'
  <2>1. "deny" # Null
    BY DecisionAssumption
  <2>2. ReadingOK(c)' /\ JudgedOK(c)' /\ OutcomeOK(c)'
    BY <1>1, <2>1 DEF ReadingOK, JudgedOK, OutcomeOK, reading
  <2>. QED  BY <1>2, <2>2 DEF CallOK, DecisionInv
<1>5. \A d \in Call \ {c} : untouched(d)
  BY <1>1, <1>2 DEF untouched
<1>. QED  BY <1>3, <1>4, <1>5, OwnStep

LEMMA Denied ==
  ASSUME DecisionInv, NEW c \in Call, requested(c)',
         NEW r \in {"risk_check_unavailable", "risk", "policy_evaluation_failed"},
         Decide(c, "deny", r),
         HistoryInv', UNCHANGED <<clock, facts>>, DOMAIN intent' = Call, DOMAIN verdict' = Call,
         \A d \in Call \ {c} : /\ intent'[d] = intent[d] /\ verdict'[d] = verdict[d]
                               /\ collect'[d] = collect[d]
  PROVE  DecisionInv'
<1>1. facts[c] \in Pinned /\ facts[c].asked <= clock /\ Pin(c, facts[c])
  BY DEF DecisionInv, EvaluationTypes, CallOK, Pin
<1>. QED  BY <1>1, DeniedOn

\* An order passes only on facts: each of them there, and each check passed.
LEMMA PassedOrder ==
  ASSUME NEW i, i.action = "cex.place_order", NEW v, NEW stats, NEW market, NEW portfolio,
         NEW last, NEW now, Passed(Checks(i, v, stats, market, portfolio, last, now))
  PROVE  /\ stats # NoFact /\ market # NoFact /\ portfolio # NoFact
         /\ fresh(market.stamp, now, Limits.marketAge)
         /\ fresh(portfolio.stamp, now, Limits.portfolioAge)
         /\ stats.notional + i.notional <= Limits.dailyNotional
         /\ stats.loss <= Limits.dailyLoss /\ stats.orders + 1 <= Limits.ordersPerDay
         /\ last # Never => last # NoFact /\ last <= now /\ now - last >= Limits.orderInterval
<1>1. /\ checkMarketDataFreshness(i, market, now) = "pass"
      /\ checkPortfolioFreshness(i, portfolio, now) = "pass"
      /\ checkDailyNotional(i, stats) = "pass" /\ checkDailyLoss(i, stats) = "pass"
      /\ checkDailyOrderCount(i, stats) = "pass" /\ checkOrderFrequency(i, last, now) = "pass"
  BY DEF Passed, Checks
<1>2. market # NoFact /\ market.stamp <= now /\ now - market.stamp <= Limits.marketAge
  BY <1>1 DEF Status, checkMarketDataFreshness
<1>3. portfolio # NoFact /\ portfolio.stamp <= now /\ now - portfolio.stamp <= Limits.portfolioAge
  BY <1>1 DEF Status, checkPortfolioFreshness
<1>4. stats # NoFact /\ stats.notional + i.notional <= Limits.dailyNotional
  BY <1>1 DEF Status, checkDailyNotional
<1>5. stats.loss <= Limits.dailyLoss /\ stats.orders + 1 <= Limits.ordersPerDay
  BY <1>1 DEF Status, checkDailyLoss, checkDailyOrderCount
<1>6. last # Never => last # NoFact /\ last <= now /\ now - last >= Limits.orderInterval
  BY <1>1 DEF Status, checkOrderFrequency
<1>. QED  BY <1>2, <1>3, <1>4, <1>5, <1>6 DEF fresh

-----------------------------------------------------------------------------
(***************************************************************************)
(* Every action keeps the invariant.                                       *)
(***************************************************************************)
LEMMA DecisionBegins == Init => DecisionInv
<1>. SUFFICES ASSUME Init PROVE DecisionInv
  OBVIOUS
<1>1. HistoryInv
  BY HistoryBegins DEF Init
<1>2. clock \in Nat
  BY <1>1, Rows DEF HistoryInv
<1>3. EvaluationTypes
  BY DEF Init, EvaluationTypes, Pinned, Place, NoFacts
<1>4. ASSUME NEW c \in Call PROVE CallOK(c)
  <2>1. pc[c] = "idle" /\ outcome[c] = Null /\ facts[c].asked = 0
    BY DEF Init, NoFacts
  <2>2. Null \notin {"allow", "needs_human", "deny"}
    BY DecisionAssumption
  <2>. QED  BY <1>2, <2>1, <2>2 DEF CallOK, ReadingOK, JudgedOK, OutcomeOK, reading
<1>. QED  BY <1>1, <1>3, <1>4 DEF DecisionInv

\* A collection that no one changes, in a step that leaves the account alone.
LEMMA HistoryKept ==
  ASSUME DecisionInv, UNCHANGED <<product, clock, account, collect>>
  PROVE  HistoryInv' /\ clock' = clock /\ clock \in Nat
BY HistoryStays, Rows DEF DecisionInv, HistoryInv

LEMMA BeginStep ==
  ASSUME DecisionInv, NEW c \in Call, NEW r \in Requests, Begin(c, r.intent, r.verdict)
  PROVE  DecisionInv'
<1>1. /\ pc[c] = "idle" /\ UNCHANGED <<product, clock, account, facts>>
      /\ DOMAIN intent' = Call /\ DOMAIN verdict' = Call
      /\ intent'[c] = r.intent /\ verdict'[c] = r.verdict
      /\ \A d \in Call \ {c} : intent'[d] = intent[d] /\ verdict'[d] = verdict[d]
  BY DEF Begin, DecisionInv, EvaluationTypes
<1>2. requested(c)'
  BY <1>1 DEF requested
<1>3. outcome[c] = Null /\ Null \notin {"allow", "needs_human", "deny"}
  BY <1>1, DecisionAssumption DEF DecisionInv, CallOK, OutcomeOK
<1>4. CASE UNCHANGED collect /\ \E why \in {"risk_check_unavailable", "risk"} : Decide(c, "deny", why)
  <2>1. HistoryInv'
    BY <1>1, <1>4, HistoryKept
  <2>. QED  BY <1>1, <1>2, <1>4, <2>1, Denied
<1>5. CASE /\ UNCHANGED collect /\ r.intent.action # "cex.place_order"
           /\ Continue(c, "policy")
  <2>1. HistoryInv'
    BY <1>1, <1>5, HistoryKept
  <2>2. /\ pc' \in [Call -> Place] /\ pc'[c] = "policy" /\ outcome'[c] = outcome[c]
        /\ \A d \in Call \ {c} : pc'[d] = pc[d] /\ outcome'[d] = outcome[d]
        /\ outcome' \in [Call -> {"allow", "needs_human", "deny", Null}]
        /\ reason' \in [Call -> {"risk_check_unavailable", "risk", "policy_evaluation_failed",
                                 "policy", Null}]
    BY <1>5, Moves DEF DecisionInv, Place
  <2>3. EvaluationTypes'
    BY <1>1, <2>2 DEF DecisionInv, EvaluationTypes
  <2>4. CallOK(c)'
    <3>1. ~isOrder(c)'
      BY <1>1, <1>5 DEF isOrder
    <3>. QED  BY <1>1, <1>2, <1>3, <2>2, <3>1
              DEF DecisionInv, CallOK, ReadingOK, JudgedOK, OutcomeOK, reading
  <2>5. \A d \in Call \ {c} : untouched(d)
    BY <1>1, <1>5, <2>2 DEF untouched
  <2>. QED  BY <1>1, <2>1, <2>3, <2>4, <2>5, OwnStep
<1>6. CASE r.intent.action = "cex.place_order" /\ Continue(c, "history") /\ Collect(c)
  <2>1. HistoryInv' /\ collect'[c] # Null /\ \A d \in Call \ {c} : collect'[d] = collect[d]
    BY <1>1, <1>6, HistoryCollect DEF DecisionInv
  <2>2. /\ pc' \in [Call -> Place] /\ pc'[c] = "history" /\ outcome'[c] = outcome[c]
        /\ \A d \in Call \ {c} : pc'[d] = pc[d] /\ outcome'[d] = outcome[d]
        /\ outcome' \in [Call -> {"allow", "needs_human", "deny", Null}]
        /\ reason' \in [Call -> {"risk_check_unavailable", "risk", "policy_evaluation_failed",
                                 "policy", Null}]
    BY <1>6, Moves DEF DecisionInv, Place
  <2>3. EvaluationTypes'
    BY <1>1, <2>2 DEF DecisionInv, EvaluationTypes
  <2>4. CallOK(c)'
    <3>1. isOrder(c)'
      BY <1>1, <1>6 DEF isOrder
    <3>. QED  BY <1>1, <1>2, <1>3, <2>1, <2>2, <3>1
              DEF DecisionInv, CallOK, ReadingOK, JudgedOK, OutcomeOK, reading
  <2>5. \A d \in Call \ {c} : untouched(d)
    BY <1>1, <2>1, <2>2 DEF untouched
  <2>. QED  BY <1>1, <2>1, <2>3, <2>4, <2>5, OwnStep
<1>. QED  BY <1>4, <1>5, <1>6 DEF Begin, Judge, Unavailable

\* A request that fails, or a page that is refused.
LEMMA UnavailableStep ==
  ASSUME DecisionInv, NEW c \in Call, pc[c] # "idle", Unavailable(c),
         UNCHANGED <<product, clock, account, collect, intent, verdict, facts>>
  PROVE  DecisionInv'
<1>1. HistoryInv'
  BY HistoryKept
<1>2. requested(c)'
  BY DEF DecisionInv, CallOK, requested
<1>3. DOMAIN intent' = Call /\ DOMAIN verdict' = Call
  BY DEF DecisionInv, EvaluationTypes
<1>. QED  BY <1>1, <1>2, <1>3, Denied DEF Unavailable

LEMMA ReadPageStep ==
  ASSUME DecisionInv, NEW c \in Call, ReadPage(c)
  PROVE  DecisionInv'
<1>1. pc[c] = "history" /\ ReadHistory(c) /\ UNCHANGED <<product, clock, account, evaluation>>
  BY DEF ReadPage
<1>2. collect[c] # Null
  BY <1>1 DEF DecisionInv, CallOK, ReadingOK, reading
<1>3. HistoryInv' /\ collect'[c] # Null /\ \A d \in Call \ {c} : collect'[d] = collect[d]
  BY <1>1, <1>2, HistoryReads DEF DecisionInv
<1>4. EvaluationTypes'
  BY <1>1 DEF DecisionInv, EvaluationTypes, evaluation
<1>5. CallOK(c)'
  BY <1>1, <1>3 DEF DecisionInv, CallOK, requested, ReadingOK, JudgedOK, OutcomeOK,
                    reading, isOrder, evaluation
<1>6. \A d \in Call \ {c} : untouched(d)
  BY <1>1, <1>3 DEF untouched, evaluation
<1>. QED  BY <1>1, <1>3, <1>4, <1>5, <1>6, OwnStep

\* An evaluation that is not denied goes on with what it has pinned.
LEMMA PinnedStep ==
  ASSUME DecisionInv, NEW c \in Call, isOrder(c), reading(c), collect[c].step = "done",
         NEW p \in {"snapshot", "market", "portfolio", "policy"}, Continue(c, p),
         NEW f \in Pinned, f.asked <= clock, Pin(c, f),
         p = "snapshot" \/ intent[c].symbol \in Symbol,
         p = "policy" => f.stats # NoFact,
         UNCHANGED <<product, clock, account, collect, intent, verdict>>
  PROVE  DecisionInv'
<1>1. HistoryInv' /\ clock' = clock
  BY HistoryKept
<1>2. /\ pc' \in [Call -> Place] /\ pc'[c] = p /\ outcome'[c] = outcome[c]
      /\ \A d \in Call \ {c} : pc'[d] = pc[d] /\ outcome'[d] = outcome[d]
      /\ outcome' \in [Call -> {"allow", "needs_human", "deny", Null}]
      /\ reason' \in [Call -> {"risk_check_unavailable", "risk", "policy_evaluation_failed",
                               "policy", Null}]
  BY Moves DEF DecisionInv, Place
<1>3. facts' \in [Call -> Pinned] /\ facts'[c] = f /\ \A d \in Call \ {c} : facts'[d] = facts[d]
  BY DEF DecisionInv, EvaluationTypes, Pin
<1>4. EvaluationTypes'
  BY <1>2, <1>3 DEF DecisionInv, EvaluationTypes
<1>5. CallOK(c)'
  <2>1. requested(c) /\ outcome[c] = Null /\ collect[c] # Null
    BY DEF DecisionInv, CallOK, OutcomeOK, ReadingOK, reading
  <2>2. Null \notin {"allow", "needs_human", "deny"}
    BY DecisionAssumption
  <2>. QED  BY <1>1, <1>2, <1>3, <2>1, <2>2
            DEF CallOK, requested, ReadingOK, JudgedOK, OutcomeOK, reading, isOrder
<1>6. \A d \in Call \ {c} : untouched(d)
  BY <1>2, <1>3 DEF untouched
<1>. QED  BY <1>1, <1>4, <1>5, <1>6, OwnStep

\* The verdict of the engine on the facts f, which are pinned with it.
LEMMA JudgeStep ==
  ASSUME DecisionInv, NEW c \in Call, isOrder(c), reading(c), collect[c].step = "done",
         NEW f \in Pinned, f.asked <= clock, Pin(c, f), intent[c].symbol \in Symbol,
         NEW last, Judge(c, intent[c], verdict[c], f, last),
         UNCHANGED <<product, clock, account, collect, intent, verdict>>
  PROVE  DecisionInv'
<1>1. CASE Passed(Checks(intent[c], verdict[c], f.stats, f.market, f.portfolio, last, clock))
  <2>1. f.stats # NoFact
    BY <1>1, PassedOrder DEF isOrder
  <2>2. Continue(c, "policy")
    BY <1>1 DEF Judge
  <2>. QED  BY <2>1, <2>2, PinnedStep
<1>2. CASE ~Passed(Checks(intent[c], verdict[c], f.stats, f.market, f.portfolio, last, clock))
  <2>1. Decide(c, "deny", "risk")
    BY <1>2 DEF Judge
  <2>2. HistoryInv' /\ clock' = clock
    BY HistoryKept
  <2>3. requested(c)'
    BY DEF DecisionInv, CallOK, requested, reading
  <2>4. DOMAIN intent' = Call /\ DOMAIN verdict' = Call
    BY DEF DecisionInv, EvaluationTypes
  <2>. QED  BY <2>1, <2>2, <2>3, <2>4, DeniedOn
<1>. QED  BY <1>1, <1>2

LEMMA PortfolioType ==
  ASSUME DecisionInv, NEW c \in Call, intent[c].symbol \in Symbol,
         NEW stamp \in Nat, NEW price \in Price
  PROVE  portfolioNow(c, stamp, price) \in Portfolio
<1>1. lots \in Lots
  BY DEF DecisionInv, HistoryInv, HistoryTypeOK
<1>2. lots[intent[c].symbol].quantity \in Int
  BY <1>1 DEF Lots
<1>3. price \in Nat
  BY HistoryAssumption
<1>4. lots[intent[c].symbol].quantity * price \in Int
  BY <1>2, <1>3
<1>. QED  BY <1>4 DEF portfolioNow, Portfolio

\* The collection of an order that is being read.
LEMMA ItsCollection ==
  ASSUME DecisionInv, NEW c \in Call, reading(c)
  PROVE  /\ Sound(collect[c]) /\ HistoryTypeOK /\ Chronicle(orders, fills, clock)
         /\ isOrder(c) /\ facts[c] \in Pinned /\ facts[c].asked <= clock /\ clock \in Nat
<1>1. collect[c] \in collected
  BY DEF DecisionInv, CallOK, ReadingOK, collected
<1>. QED  BY <1>1, Rows DEF DecisionInv, HistoryInv, CallOK, ReadingOK, EvaluationTypes

LEMMA CollectedStep ==
  ASSUME DecisionInv, NEW c \in Call, Collected(c)
  PROVE  DecisionInv'
<1>. DEFINE h == collect[c]
            f == facts[c]
<1>1. /\ reading(c) /\ pc[c] = "history" /\ h.step = "done"
      /\ UNCHANGED <<product, clock, account, collect, intent, verdict>>
  BY DEF Collected, reading
<1>2. /\ Sound(h) /\ HistoryTypeOK /\ Chronicle(orders, fills, clock)
      /\ isOrder(c) /\ f \in Pinned /\ f.asked <= clock /\ clock \in Nat
  BY <1>1, ItsCollection
<1>3. CASE Unavailable(c) /\ UNCHANGED facts
  BY <1>1, <1>3, UnavailableStep
<1>4. CASE Continue(c, "snapshot") /\ Pin(c, [f EXCEPT !.asked = clock])
  <2>1. [f EXCEPT !.asked = clock] \in Pinned /\ [f EXCEPT !.asked = clock].asked <= clock
    BY <1>2 DEF Pinned
  <2>. QED  BY <1>1, <1>2, <1>4, <2>1, PinnedStep
<1>5. CASE /\ assertSymbol(c) /\ Continue(c, "market")
           /\ Pin(c, [f EXCEPT !.stats = calculateDailyStats(h, futuresLoss(h)), !.asked = clock])
  <2>. DEFINE g == [f EXCEPT !.stats = calculateDailyStats(h, futuresLoss(h)), !.asked = clock]
  <2>1. calculateDailyStats(h, futuresLoss(h)) \in Stats
    BY <1>2, StatsTypes
  <2>2. g \in Pinned /\ g.asked <= clock
    <3>. DEFINE s == calculateDailyStats(h, futuresLoss(h))
    <3>. HIDE DEF f, h, s
    <3>1. s \in Stats /\ f \in Pinned /\ clock \in Nat
      BY <1>2, <2>1 DEF s
    <3>2. [f EXCEPT !.stats = s, !.asked = clock] \in Pinned
      BY <3>1 DEF Pinned
    <3>3. [f EXCEPT !.stats = s, !.asked = clock].asked = clock
      BY <3>1 DEF Pinned
    <3>. QED  BY <3>1, <3>2, <3>3 DEF s
  <2>. HIDE DEF g
  <2>. QED  BY <1>1, <1>2, <1>5, <2>2, PinnedStep DEF assertSymbol, g
<1>. QED  BY <1>3, <1>4, <1>5 DEF Collected

LEMMA ReadSnapshotStep ==
  ASSUME DecisionInv, NEW c \in Call, ReadSnapshot(c)
  PROVE  DecisionInv'
<1>. DEFINE h == collect[c]
            f == facts[c]
<1>1. /\ reading(c) /\ pc[c] = "snapshot"
      /\ UNCHANGED <<product, clock, account, collect, intent, verdict>>
  BY DEF ReadSnapshot, reading
<1>2. /\ Sound(h) /\ HistoryTypeOK /\ Chronicle(orders, fills, clock) /\ h.step = "done"
      /\ isOrder(c) /\ f \in Pinned /\ f.asked <= clock /\ clock \in Nat
  BY <1>1, ItsCollection DEF DecisionInv, CallOK, ReadingOK
<1>3. CASE Unavailable(c) /\ UNCHANGED facts
  BY <1>1, <1>3, UnavailableStep
<1>4. ASSUME NEW p \in Price, assertSymbol(c), Continue(c, "market"),
             Pin(c, [f EXCEPT !.stats = calculateDailyStats(h, spotReplay(h).loss),
                              !.portfolio = portfolioNow(c, f.asked, p), !.asked = clock])
      PROVE  DecisionInv'
  <2>. DEFINE g == [f EXCEPT !.stats = calculateDailyStats(h, spotReplay(h).loss),
                             !.portfolio = portfolioNow(c, f.asked, p), !.asked = clock]
  <2>1. calculateDailyStats(h, spotReplay(h).loss) \in Stats
    BY <1>2, StatsTypes
  <2>2. portfolioNow(c, f.asked, p) \in Portfolio
    BY <1>2, <1>4, PortfolioType DEF Pinned, assertSymbol
  <2>3. g \in Pinned /\ g.asked <= clock
    <3>. DEFINE s == calculateDailyStats(h, spotReplay(h).loss)
                q == portfolioNow(c, f.asked, p)
    <3>. HIDE DEF f, h, s, q
    <3>1. s \in Stats /\ q \in Portfolio /\ f \in Pinned /\ clock \in Nat
      BY <1>2, <2>1, <2>2 DEF s, q
    <3>2. [f EXCEPT !.stats = s, !.portfolio = q, !.asked = clock] \in Pinned
      BY <3>1 DEF Pinned
    <3>3. [f EXCEPT !.stats = s, !.portfolio = q, !.asked = clock].asked = clock
      BY <3>1 DEF Pinned
    <3>. QED  BY <3>1, <3>2, <3>3 DEF s, q
  <2>. HIDE DEF g
  <2>. QED  BY <1>1, <1>2, <1>4, <2>3, PinnedStep DEF assertSymbol, g
<1>. QED  BY <1>3, <1>4 DEF ReadSnapshot

LEMMA ReadMarketStep ==
  ASSUME DecisionInv, NEW c \in Call, ReadMarket(c)
  PROVE  DecisionInv'
<1>. DEFINE g(p, stamp) == [facts[c] EXCEPT !.market = [price |-> p, stamp |-> stamp]]
<1>1. /\ reading(c) /\ pc[c] = "market"
      /\ UNCHANGED <<product, clock, account, collect, intent, verdict>>
  BY DEF ReadMarket, reading
<1>2. /\ collect[c].step = "done" /\ intent[c].symbol \in Symbol
      /\ isOrder(c) /\ facts[c] \in Pinned /\ facts[c].asked <= clock /\ clock \in Nat
  BY <1>1, ItsCollection DEF DecisionInv, CallOK, ReadingOK, JudgedOK
<1>3. PICK p \in Price, stamp \in facts[c].asked..clock :
        \/ Unavailable(c) /\ UNCHANGED facts
        \/ Continue(c, "portfolio") /\ Pin(c, [g(p, stamp) EXCEPT !.asked = clock])
        \/ Pin(c, g(p, stamp)) /\ Judge(c, intent[c], verdict[c], g(p, stamp), collect[c].last)
  BY DEF ReadMarket
<1>4. g(p, stamp) \in Pinned /\ g(p, stamp).asked <= clock
  <2>1. stamp \in Nat
    BY <1>2 DEF Pinned
  <2>. QED  BY <1>2, <2>1 DEF Pinned, Market
<1>. HIDE DEF g
<1>5. CASE Unavailable(c) /\ UNCHANGED facts
  BY <1>1, <1>5, UnavailableStep
<1>6. CASE Continue(c, "portfolio") /\ Pin(c, [g(p, stamp) EXCEPT !.asked = clock])
  <2>1. /\ [g(p, stamp) EXCEPT !.asked = clock] \in Pinned
        /\ [g(p, stamp) EXCEPT !.asked = clock].asked <= clock
    BY <1>2, <1>4 DEF Pinned
  <2>. QED  BY <1>1, <1>2, <1>6, <2>1, PinnedStep
<1>7. CASE Pin(c, g(p, stamp)) /\ Judge(c, intent[c], verdict[c], g(p, stamp), collect[c].last)
  BY <1>1, <1>2, <1>4, <1>7, JudgeStep
<1>. QED  BY <1>3, <1>5, <1>6, <1>7

LEMMA ReadPortfolioStep ==
  ASSUME DecisionInv, NEW c \in Call, ReadPortfolio(c)
  PROVE  DecisionInv'
<1>. DEFINE g(p) == [facts[c] EXCEPT !.portfolio = portfolioNow(c, facts[c].asked, p)]
<1>1. /\ reading(c) /\ pc[c] = "portfolio"
      /\ UNCHANGED <<product, clock, account, collect, intent, verdict>>
  BY DEF ReadPortfolio, reading
<1>2. /\ collect[c].step = "done" /\ intent[c].symbol \in Symbol
      /\ isOrder(c) /\ facts[c] \in Pinned /\ facts[c].asked <= clock /\ clock \in Nat
  BY <1>1, ItsCollection DEF DecisionInv, CallOK, ReadingOK, JudgedOK
<1>3. PICK p \in Price :
        \/ Unavailable(c) /\ UNCHANGED facts
        \/ Pin(c, g(p)) /\ Judge(c, intent[c], verdict[c], g(p), collect[c].last)
  BY DEF ReadPortfolio
<1>4. g(p) \in Pinned /\ g(p).asked <= clock
  <2>1. portfolioNow(c, facts[c].asked, p) \in Portfolio
    BY <1>2, PortfolioType DEF Pinned
  <2>. QED  BY <1>2, <2>1 DEF Pinned
<1>. HIDE DEF g
<1>5. CASE Unavailable(c) /\ UNCHANGED facts
  BY <1>1, <1>5, UnavailableStep
<1>6. CASE Pin(c, g(p)) /\ Judge(c, intent[c], verdict[c], g(p), collect[c].last)
  BY <1>1, <1>2, <1>4, <1>6, JudgeStep
<1>. QED  BY <1>3, <1>5, <1>6

LEMMA AnswerType ==
  ASSUME NEW raw
  PROVE  transformOpaOutput(raw) \in {"allow", "needs_human", "deny", "threw"}
BY DEF transformOpaOutput

LEMMA AskPolicyStep ==
  ASSUME DecisionInv, NEW c \in Call, AskPolicy(c)
  PROVE  DecisionInv'
<1>1. /\ pc[c] = "policy" /\ requested(c) /\ HistoryInv' /\ clock' = clock
      /\ UNCHANGED <<product, clock, account, collect, intent, verdict, facts>>
      /\ requested(c)' /\ DOMAIN intent' = Call /\ DOMAIN verdict' = Call
  BY HistoryKept DEF AskPolicy, DecisionInv, EvaluationTypes, CallOK, requested
<1>2. CASE Decide(c, "deny", "policy_evaluation_failed")
  BY <1>1, <1>2, Denied
<1>3. ASSUME NEW raw \in {Document(Facts(c))} \cup faulty(Document(Facts(c))),
             transformOpaOutput(raw) # "threw", Decide(c, transformOpaOutput(raw), "policy")
      PROVE  DecisionInv'
  <2>. DEFINE answer == transformOpaOutput(raw)
  <2>1. answer \in {"allow", "needs_human", "deny"}
    BY <1>3, AnswerType
  <2>2. /\ pc' \in [Call -> Place] /\ pc'[c] = "decided" /\ outcome'[c] = answer
        /\ \A d \in Call \ {c} : pc'[d] = pc[d] /\ outcome'[d] = outcome[d]
        /\ outcome' \in [Call -> {"allow", "needs_human", "deny", Null}]
        /\ reason' \in [Call -> {"risk_check_unavailable", "risk", "policy_evaluation_failed",
                                 "policy", Null}]
    <3>. HIDE DEF answer
    <3>1. Decide(c, answer, "policy") /\ EvaluationTypes
      BY <1>3 DEF answer, DecisionInv
    <3>. QED  BY <2>1, <3>1, Decided
  <2>3. answer = "allow" => Envelope(intent[c], verdict[c], facts[c].stats)
    <3>. SUFFICES ASSUME answer = "allow" PROVE Envelope(intent[c], verdict[c], facts[c].stats)
      OBVIOUS
    <3>1. decision(Facts(c)) = "allow"
      BY <1>3, OneFieldDoesNotAllow
    <3>2. PICK r \in Requests : intent[c] = r.intent /\ verdict[c] = r.verdict
      BY <1>1 DEF requested
    <3>3. intent[c].action = "cex.place_order" => facts[c].stats \in Stats
      BY <1>1 DEF DecisionInv, CallOK, JudgedOK, isOrder, EvaluationTypes, Pinned
    <3>. QED  BY <3>1, <3>2, <3>3, AllowedInsideEnvelope DEF Facts
  <2>. HIDE DEF answer
  <2>4. EvaluationTypes'
    BY <1>1, <2>2 DEF DecisionInv, EvaluationTypes
  <2>5. CallOK(c)'
    <3>1. answer # Null
      BY <2>1, DecisionAssumption
    <3>. QED  BY <1>1, <2>2, <2>3, <3>1
              DEF DecisionInv, CallOK, ReadingOK, JudgedOK, OutcomeOK, reading, isOrder
  <2>6. \A d \in Call \ {c} : untouched(d)
    BY <1>1, <2>2 DEF untouched
  <2>. QED  BY <1>1, <2>4, <2>5, <2>6, OwnStep
<1>. QED  BY <1>2, <1>3 DEF AskPolicy

LEMMA PlaceOrderStep ==
  ASSUME DecisionInv, NEW c \in Call, PlaceOrder(c)
  PROVE  DecisionInv'
<1>1. /\ pc[c] = "decided" /\ outcome[c] # "deny" /\ isOrder(c)
      /\ Order(intent[c].symbol, intent[c].side, intent[c].price)
      /\ pc' = [pc EXCEPT ![c] = "placed"]
      /\ UNCHANGED <<product, clock, fills, lots, collect, intent, verdict, facts, outcome, reason>>
  BY DEF PlaceOrder, Goto, isOrder
<1>2. requested(c) /\ outcome[c] \in {"allow", "needs_human"}
  <2>1. outcome[c] # Null /\ requested(c)
    BY <1>1 DEF DecisionInv, CallOK, OutcomeOK
  <2>2. outcome[c] \in {"allow", "needs_human", "deny", Null}
    BY DEF DecisionInv, EvaluationTypes
  <2>. QED  BY <1>1, <2>1, <2>2
<1>3. intent[c].symbol \in Symbol /\ intent[c].side \in {"BUY", "SELL"} /\ intent[c].price \in Nat
  BY <1>1, <1>2, RequestsAssumption DEF DecisionInv, CallOK, JudgedOK, requested, isOrder
<1>4. HistoryInv'
  BY <1>1, <1>3, HistoryOrders DEF DecisionInv
<1>5. pc' \in [Call -> Place] /\ pc'[c] = "placed" /\ \A d \in Call \ {c} : pc'[d] = pc[d]
  BY <1>1 DEF DecisionInv, EvaluationTypes, Place
<1>6. EvaluationTypes'
  BY <1>1, <1>5 DEF DecisionInv, EvaluationTypes
<1>7. CallOK(c)'
  BY <1>1, <1>2, <1>5 DEF DecisionInv, CallOK, requested, ReadingOK, JudgedOK, OutcomeOK,
                          reading, isOrder
<1>8. \A d \in Call \ {c} : untouched(d)
  BY <1>1, <1>5 DEF untouched
<1>. QED  BY <1>1, <1>4, <1>6, <1>7, <1>8, OwnStep

LEMMA EnvironmentStep ==
  ASSUME DecisionInv, Environment
  PROVE  DecisionInv'
<1>1. HistoryInv' /\ collect' = collect /\ clock \in Nat /\ clock' \in {clock, clock + 1}
  <2>1. clock \in Nat
    BY Rows DEF DecisionInv, HistoryInv
  <2>2. CASE OwnerOrders
    <3>1. PICK s \in Symbol, side \in {"BUY", "SELL"}, p \in Price : Order(s, side, p)
      BY <2>2 DEF OwnerOrders
    <3>2. p \in Nat /\ UNCHANGED <<product, clock, fills, lots, collect>>
      BY <2>2, HistoryAssumption DEF OwnerOrders
    <3>. QED  BY <2>1, <3>1, <3>2, HistoryOrders DEF DecisionInv
  <2>3. CASE Fill
    BY <2>1, <2>3, HistoryFill DEF DecisionInv, Fill
  <2>4. CASE Tick
    BY <2>1, <2>4, HistoryTick DEF DecisionInv, Tick
  <2>. QED  BY <2>2, <2>3, <2>4 DEF Environment
<1>2. UNCHANGED evaluation
  BY DEF Environment
<1>3. EvaluationTypes'
  BY <1>2 DEF DecisionInv, EvaluationTypes, evaluation
<1>4. ASSUME NEW d \in Call PROVE CallOK(d)'
  <2>1. untouched(d)
    BY <1>1, <1>2 DEF untouched, evaluation
  <2>2. facts[d].asked <= clock'
    <3>1. facts[d].asked \in Nat /\ facts[d].asked <= clock
      BY DEF DecisionInv, EvaluationTypes, CallOK, Pinned
    <3>. QED  BY <1>1, <3>1
  <2>. QED  BY <2>1, <2>2, OthersStay DEF DecisionInv
<1>. QED  BY <1>1, <1>3, <1>4 DEF DecisionInv

LEMMA DecisionStep ==
  ASSUME DecisionInv, [Next]_vars
  PROVE  DecisionInv'
<1>1. ASSUME NEW c \in Call, NEW r \in Requests, Begin(c, r.intent, r.verdict) PROVE DecisionInv'
  BY <1>1, BeginStep
<1>2. ASSUME NEW c \in Call, Evaluate(c) PROVE DecisionInv'
  <2>1. CASE RefusePage(c)
    BY <2>1, UnavailableStep DEF RefusePage
  <2>. QED  BY <1>2, <2>1, ReadPageStep, CollectedStep, ReadSnapshotStep, ReadMarketStep,
               ReadPortfolioStep, AskPolicyStep DEF Evaluate
<1>3. ASSUME NEW c \in Call, RequestFails(c) PROVE DecisionInv'
  BY <1>3, UnavailableStep DEF RequestFails, reading
<1>4. ASSUME NEW c \in Call, PlaceOrder(c) PROVE DecisionInv'
  BY <1>4, PlaceOrderStep
<1>5. CASE Environment
  BY <1>5, EnvironmentStep
<1>6. CASE UNCHANGED vars
  <2>1. HistoryInv' /\ clock' = clock /\ UNCHANGED <<collect, evaluation>>
    BY <1>6, HistoryKept DEF vars
  <2>2. EvaluationTypes'
    BY <2>1 DEF DecisionInv, EvaluationTypes, evaluation
  <2>3. ASSUME NEW d \in Call PROVE CallOK(d)'
    <3>1. untouched(d) /\ facts[d].asked <= clock'
      BY <2>1 DEF untouched, evaluation, DecisionInv, CallOK
    <3>. QED  BY <3>1, OthersStay DEF DecisionInv
  <2>. QED  BY <2>1, <2>2, <2>3 DEF DecisionInv
<1>. QED  BY <1>1, <1>2, <1>3, <1>4, <1>5, <1>6 DEF Next

-----------------------------------------------------------------------------
(***************************************************************************)
(* What passes the risk stage.                                             *)
(***************************************************************************)
\* What holds of the evaluation c in a step in which it passes.
CurrentFacts(c) ==
  LET f == facts'[c] IN
  /\ day(clock) = day(collect[c].cutoff)
  /\ clock - collect[c].cutoff <= MAX_COLLECTION_AGE
  /\ fresh(f.market.stamp, clock, Limits.marketAge)
  /\ fresh(f.portfolio.stamp, clock, Limits.portfolioAge)

\* The only two steps in which an order passes: the last fact it needs is
\* pinned, the history is current, and every check passes on the facts.
Passing(c) ==
  /\ pinned(c) /\ isOrder(c) /\ reading(c)
  /\ pc[c] \in {"market", "portfolio"}
  /\ collect[c].step = "done" /\ intent[c].symbol \in Symbol
  /\ facts'[c].stats = facts[c].stats
  /\ Passed(Checks(intent[c], verdict[c], facts'[c].stats, facts'[c].market,
                   facts'[c].portfolio, collect[c].last, clock))

\* A step that is not of c leaves it where it is.
LEMMA StaysThere ==
  ASSUME EvaluationTypes, NEW c \in Call, NEW d \in Call \ {c}, NEW p, Goto(d, p)
  PROVE  pc'[c] = pc[c]
BY DEF EvaluationTypes, Goto

LEMMA Arrives ==
  ASSUME EvaluationTypes, NEW c \in Call, NEW p, Goto(c, p)
  PROVE  pc'[c] = p
BY DEF EvaluationTypes, Goto

LEMMA JudgedGoes ==
  ASSUME EvaluationTypes, NEW c \in Call, NEW f, NEW last, pc'[c] = "policy",
         NEW i, NEW v, Judge(c, i, v, f, last)
  PROVE  Passed(Checks(i, v, f.stats, f.market, f.portfolio, last, clock))
<1>1. ~Decide(c, "deny", "risk")
  BY Arrives DEF Decide
<1>. QED  BY <1>1 DEF Judge

\* Every action of an evaluation says where it goes.
LEMMA GoesSomewhere ==
  ASSUME NEW d \in Call,
         \/ \E r \in Requests : Begin(d, r.intent, r.verdict)
         \/ Evaluate(d) \/ RequestFails(d) \/ PlaceOrder(d)
  PROVE  UNCHANGED pc \/ \E p : Goto(d, p)
<1>1. ASSUME NEW i, NEW v, NEW f, NEW last, Judge(d, i, v, f, last) PROVE \E p : Goto(d, p)
  BY <1>1 DEF Judge, Continue, Decide
<1>2. CASE \E r \in Requests : Begin(d, r.intent, r.verdict)
  <2>1. PICK r \in Requests : Begin(d, r.intent, r.verdict)
    BY <1>2
  <2>. QED  BY <2>1, <1>1 DEF Begin, Continue, Unavailable, Decide
<1>3. CASE ReadPage(d)
  BY <1>3 DEF ReadPage, evaluation
<1>4. CASE RefusePage(d) \/ RequestFails(d)
  BY <1>4 DEF RefusePage, RequestFails, Unavailable, Decide
<1>5. CASE Collected(d)
  BY <1>5 DEF Collected, Unavailable, Decide, Continue
<1>6. CASE ReadSnapshot(d)
  BY <1>6 DEF ReadSnapshot, Unavailable, Decide, Continue
<1>7. CASE ReadMarket(d)
  BY <1>7, <1>1 DEF ReadMarket, Unavailable, Decide, Continue
<1>8. CASE ReadPortfolio(d)
  BY <1>8, <1>1 DEF ReadPortfolio, Unavailable, Decide, Continue
<1>9. CASE AskPolicy(d)
  BY <1>9 DEF AskPolicy, Decide
<1>10. CASE PlaceOrder(d)
  BY <1>10 DEF PlaceOrder
<1>. QED  BY <1>2, <1>3, <1>4, <1>5, <1>6, <1>7, <1>8, <1>9, <1>10 DEF Evaluate

LEMMA PinnedNow ==
  ASSUME EvaluationTypes, NEW c \in Call, NEW f, Pin(c, f)
  PROVE  facts'[c] = f
BY DEF EvaluationTypes, Pin

LEMMA OnlyOnFacts ==
  ASSUME DecisionInv, [Next]_vars, NEW c \in Call, passes(c)
  PROVE  Passing(c) /\ UNCHANGED <<product, clock, account, collect, intent, verdict>>
<1>1. EvaluationTypes /\ CallOK(c) /\ pc[c] \in Place
  BY DEF DecisionInv, EvaluationTypes
<1>2. pc'[c] = "policy" /\ pc[c] # "policy" /\ pc[c] # "idle"
  BY DEF passes
<1>3. /\ reading(c) => isOrder(c)
      /\ pc[c] \in {"market", "portfolio"} => collect[c].step = "done" /\ intent[c].symbol \in Symbol
  BY <1>1 DEF CallOK, ReadingOK, JudgedOK
<1>4. ~UNCHANGED pc
  BY <1>2
<1>5. ~Environment
  BY <1>4 DEF Environment, evaluation
<1>6. PICK d \in Call : \/ \E r \in Requests : Begin(d, r.intent, r.verdict)
                        \/ Evaluate(d) \/ RequestFails(d) \/ PlaceOrder(d)
  BY <1>4, <1>5 DEF Next, vars, evaluation
<1>7. d = c
  BY <1>1, <1>2, <1>4, <1>6, GoesSomewhere, StaysThere
<1>8. ASSUME NEW p, Goto(c, p) PROVE p = "policy"
  BY <1>1, <1>2, <1>8, Arrives
<1>9. ~Unavailable(c)
  BY <1>8 DEF Unavailable, Decide
<1>10. ASSUME NEW p, Continue(c, p) PROVE p = "policy"
  BY <1>8, <1>10 DEF Continue
<1>11. CASE ReadMarket(c)
  <2>. DEFINE g(p, stamp) == [facts[c] EXCEPT !.market = [price |-> p, stamp |-> stamp]]
  <2>1. PICK p \in Price, stamp \in facts[c].asked..clock :
          /\ product = "spot" => pinned(c)
          /\ product = "spot" /\ Pin(c, g(p, stamp))
             /\ Judge(c, intent[c], verdict[c], g(p, stamp), collect[c].last)
    BY <1>9, <1>10, <1>11 DEF ReadMarket
  <2>2. pc[c] = "market" /\ UNCHANGED <<product, clock, account, collect, intent, verdict>>
    BY <1>11 DEF ReadMarket
  <2>3. g(p, stamp).stats = facts[c].stats
    OBVIOUS
  <2>. HIDE DEF g
  <2>4. facts'[c] = g(p, stamp)
    BY <1>1, <2>1, PinnedNow
  <2>5. Passed(Checks(intent[c], verdict[c], g(p, stamp).stats, g(p, stamp).market,
                      g(p, stamp).portfolio, collect[c].last, clock))
    BY <1>1, <1>2, <2>1, JudgedGoes
  <2>. QED  BY <1>3, <2>1, <2>2, <2>3, <2>4, <2>5 DEF Passing, reading
<1>12. CASE ReadPortfolio(c)
  <2>. DEFINE g(p) == [facts[c] EXCEPT !.portfolio = portfolioNow(c, facts[c].asked, p)]
  <2>1. PICK p \in Price :
          /\ pinned(c) /\ Pin(c, g(p))
          /\ Judge(c, intent[c], verdict[c], g(p), collect[c].last)
    BY <1>9, <1>12 DEF ReadPortfolio
  <2>2. pc[c] = "portfolio" /\ UNCHANGED <<product, clock, account, collect, intent, verdict>>
    BY <1>12 DEF ReadPortfolio
  <2>3. g(p).stats = facts[c].stats
    OBVIOUS
  <2>. HIDE DEF g
  <2>4. facts'[c] = g(p)
    BY <1>1, <2>1, PinnedNow
  <2>5. Passed(Checks(intent[c], verdict[c], g(p).stats, g(p).market,
                      g(p).portfolio, collect[c].last, clock))
    BY <1>1, <1>2, <2>1, JudgedGoes
  <2>. QED  BY <1>3, <2>1, <2>2, <2>3, <2>4, <2>5 DEF Passing, reading
<1>13. ~(\E r \in Requests : Begin(c, r.intent, r.verdict)) /\ ~RequestFails(c) /\ ~PlaceOrder(c)
  BY <1>2, <1>8, <1>9 DEF Begin, RequestFails, PlaceOrder
<1>14. ~ReadPage(c) /\ ~RefusePage(c) /\ ~AskPolicy(c)
  BY <1>2, <1>4, <1>9 DEF ReadPage, RefusePage, AskPolicy, evaluation
<1>15. ~Collected(c) /\ ~ReadSnapshot(c)
  BY <1>9, <1>10 DEF Collected, ReadSnapshot
<1>. QED  BY <1>6, <1>7, <1>11, <1>12, <1>13, <1>14, <1>15 DEF Evaluate

LEMMA PassesOnFacts ==
  ASSUME DecisionInv, [Next]_vars, NEW c \in Call, passes(c)
  PROVE  CurrentFacts(c)
<1>1. Passing(c) /\ UNCHANGED clock
  BY OnlyOnFacts
<1>2. pinned(c) /\ isOrder(c)
  BY <1>1 DEF Passing
<1>3. /\ fresh(facts'[c].market.stamp, clock, Limits.marketAge)
      /\ fresh(facts'[c].portfolio.stamp, clock, Limits.portfolioAge)
  BY <1>1, <1>2, PassedOrder DEF Passing, isOrder
<1>. QED  BY <1>2, <1>3 DEF CurrentFacts, pinned, current

-----------------------------------------------------------------------------
(***************************************************************************)
(* What the provider computes is what happened.                            *)
(***************************************************************************)
\* The ids of T up to m, and those of them that are of the day.
upTo(T, m) == {k \in T : k <= m}

LEMMA OneMore ==
  ASSUME NEW T, T \subseteq Nat, IsFiniteSet(T), NEW m \in Nat
  PROVE  /\ m + 1 \in T => /\ upTo(T, m + 1) = upTo(T, m) \cup {m + 1} /\ m + 1 \notin upTo(T, m)
                           /\ Cardinality(upTo(T, m + 1)) = Cardinality(upTo(T, m)) + 1
         /\ m + 1 \notin T => upTo(T, m + 1) = upTo(T, m)
         /\ IsFiniteSet(upTo(T, m)) /\ Cardinality(upTo(T, m)) \in Nat
         /\ Cardinality(upTo(T, m)) <= Cardinality(T)
<1>1. \A k \in T : k \in Nat /\ (k <= m + 1 <=> k <= m \/ k = m + 1) /\ ~(m + 1 <= m)
  OBVIOUS
<1>2. /\ m + 1 \in T => upTo(T, m + 1) = upTo(T, m) \cup {m + 1} /\ m + 1 \notin upTo(T, m)
      /\ m + 1 \notin T => upTo(T, m + 1) = upTo(T, m)
  BY <1>1 DEF upTo
<1>3. upTo(T, m) \subseteq T
  BY DEF upTo
<1>4. /\ IsFiniteSet(upTo(T, m)) /\ Cardinality(upTo(T, m)) \in Nat
      /\ Cardinality(upTo(T, m)) <= Cardinality(T)
  BY <1>3, FS_Subset, FS_CardinalityType
<1>5. m + 1 \in T => Cardinality(upTo(T, m + 1)) = Cardinality(upTo(T, m)) + 1
  BY <1>2, <1>4, FS_AddElement
<1>. QED  BY <1>2, <1>4, <1>5

\* What spotLoss adds for a trade is what the exchange recorded of it.
LEMMA TradedAsBooked ==
  ASSUME HistoryTypeOK, Chronicle(orders, fills, clock), InTheBooks(orders, fills, lots),
         NEW h, h.cutoff \in Nat, NEW k \in DOMAIN fills, NEW acc \in Replay,
         acc.lots[symbolOfFill(k)] = books(orders, fills)[k - 1][symbolOfFill(k)]
  PROVE  LET next == traded(h, acc, k) IN
         /\ next.lots[symbolOfFill(k)] = books(orders, fills)[k][symbolOfFill(k)]
         /\ \A s \in Symbol \ {symbolOfFill(k)} : next.lots[s] = acc.lots[s]
         /\ next.loss = acc.loss + IF fills[k].time >= dayStart(h.cutoff) THEN losses[k] ELSE 0
         /\ \A s \in Symbol \ {symbolOfFill(k)} :
              books(orders, fills)[k][s] = books(orders, fills)[k - 1][s]
<1>. DEFINE held == books(orders, fills)
            o == orders[fills[k].order]
            lot == held[k - 1][o.symbol]
            today == fills[k].time >= dayStart(h.cutoff)
            next == traded(h, acc, k)
<1>1. /\ Len(fills) \in Nat /\ k \in 1..Len(fills) /\ k - 1 \in 0..Len(fills)
      /\ symbolOfFill(k) = o.symbol /\ fills[k].order \in DOMAIN orders
  <2>1. Len(fills) \in Nat /\ DOMAIN fills = 1..Len(fills) /\ fills[k].order \in DOMAIN orders
    BY Rows
  <2>. QED  BY <2>1 DEF symbolOfFill
<1>2. o \in AnOrder
  BY <1>1 DEF HistoryTypeOK
<1>3. held[k - 1] \in Lots
  BY <1>1, BooksAreLots
<1>4. IF o.side = "BUY" THEN fills[k].gain = 0
      ELSE lot.quantity > 0 /\ fills[k].gain = o.price - averageCost(lot)
  BY DEF InTheBooks
<1>5. held[k] = booked(held[k - 1], o)
  <2>1. Follows(held, orders, fills, Len(fills))
    BY <1>1, BooksFollow
  <2>. QED  BY <1>1, <2>1 DEF Follows
<1>6. losses[k] = Max({0, -fills[k].gain})
  BY DEF losses
<1>. HIDE DEF held, o
<1>7. /\ lot \in [quantity : Int, cost : Nat] /\ o.symbol \in Symbol /\ o.price \in Nat
      /\ o.side \in {"BUY", "SELL"}
  BY <1>2, <1>3 DEF Lots, AnOrder
<1>8. held[k] = [held[k - 1] EXCEPT ![o.symbol] = IF o.side = "BUY" THEN bought(lot, o) ELSE sold(lot)]
  BY <1>5 DEF booked
<1>9. acc.lots[o.symbol] = lot /\ acc.lots \in Lots /\ acc.loss \in Nat
  BY <1>1 DEF held, Replay
<1>. HIDE DEF lot, today, next
<1>10. /\ held[k][o.symbol] = (IF o.side = "BUY" THEN bought(lot, o) ELSE sold(lot))
       /\ \A s \in Symbol \ {o.symbol} : held[k][s] = held[k - 1][s]
  BY <1>3, <1>7, <1>8 DEF Lots
<1>11. CASE o.side = "BUY"
  <2>1. next = [acc EXCEPT !.lots[o.symbol] = bought(lot, o)]
    BY <1>9, <1>11 DEF traded, next, o
  <2>2. losses[k] = 0
    <3>. DEFINE g == -fills[k].gain
    <3>1. g = 0
      BY <1>4, <1>11
    <3>. HIDE DEF g
    <3>2. Max({0, g}) = 0
      BY <3>1, MaxOfTwo
    <3>. QED  BY <1>6, <3>2 DEF g
  <2>3. /\ next.lots[o.symbol] = bought(lot, o) /\ next.loss = acc.loss
        /\ \A s \in Symbol \ {o.symbol} : next.lots[s] = acc.lots[s]
    BY <1>7, <1>9, <2>1 DEF Replay, Lots
  <2>4. next.loss = acc.loss + IF today THEN losses[k] ELSE 0
    BY <1>9, <2>2, <2>3
  <2>. QED  BY <1>1, <1>10, <1>11, <2>3, <2>4 DEF held, today, next
<1>12. CASE o.side # "BUY"
  <2>1. lot.quantity > 0 /\ ~(lot.quantity <= 0) /\ fills[k].gain = o.price - averageCost(lot)
    BY <1>4, <1>7, <1>12
  <2>. DEFINE loss == acc.loss + IF today THEN Max({0, averageCost(lot) - o.price}) ELSE 0
  <2>2. next = [acc EXCEPT !.lots[o.symbol] = sold(lot), !.loss = loss]
    BY <1>9, <1>12, <2>1 DEF traded, next, o, today
  <2>3. Max({0, averageCost(lot) - o.price}) = losses[k]
    <3>1. averageCost(lot) \in Nat
      BY <1>7, <2>1, SoldLot
    <3>2. -fills[k].gain = averageCost(lot) - o.price
      BY <1>7, <2>1, <3>1
    <3>. QED  BY <1>6, <3>2
  <2>. HIDE DEF loss
  <2>4. /\ next.lots[o.symbol] = sold(lot) /\ next.loss = loss
        /\ \A s \in Symbol \ {o.symbol} : next.lots[s] = acc.lots[s]
    BY <1>7, <1>9, <2>2 DEF Replay, Lots
  <2>. QED  BY <1>1, <1>10, <1>12, <2>3, <2>4 DEF held, today, next, loss
<1>. QED  BY <1>11, <1>12

\* spotLoss of a history is the sum of the losses the exchange recorded of the
\* trades in it that are of the day.
LEMMA LossIsRecorded ==
  ASSUME HistoryTypeOK, Chronicle(orders, fills, clock), InTheBooks(orders, fills, lots),
         product = "spot", NEW h, Sound(h)
  PROVE  spotReplay(h).loss = SumFunctionOnSet(losses, ofToday(h, ToSet(h.trades)))
<1>. DEFINE T == ToSet(h.trades)
            ids == tradesOfHistory(h)
            held == books(orders, fills)
            N == Len(fills)
            lost(m) == SumFunctionOnSet(losses, ofToday(h, upTo(T, m)))
            place(m) == Cardinality(upTo(T, m))
            whole(s, m) == \A j \in 1..m : symbolOfFill(j) = s => j \in T
<1>1. /\ h.cutoff \in Nat /\ T \subseteq DOMAIN fills
      /\ \A k \in T, j \in DOMAIN fills : j < k /\ symbolOfFill(j) = symbolOfFill(k) => j \in T
  BY DEF Sound, TradesSound, Collection
<1>2. /\ N \in Nat /\ DOMAIN fills = 1..N /\ T \subseteq Nat /\ T \subseteq Int /\ IsFiniteSet(T)
      /\ \A k \in T : losses[k] \in Int
      /\ \A k \in DOMAIN fills : symbolOfFill(k) \in Symbol
  <2>1. /\ N \in Nat /\ DOMAIN fills = 1..N /\ IsFiniteSet(DOMAIN fills)
        /\ \A k \in DOMAIN fills : symbolOfFill(k) \in Symbol
    BY Rows
  <2>2. \A k \in T : losses[k] \in Int
    BY <1>1, AmountTypes
  <2>3. IsFiniteSet(T)
    BY <1>1, <2>1, FS_Subset
  <2>4. T \subseteq Nat /\ T \subseteq Int
    BY <1>1, <2>1
  <2>. QED  BY <2>1, <2>2, <2>3, <2>4
<1>3. PICK g \in [0..Len(ids) -> Replay] :
        /\ g[0] = Nothing /\ \A n \in 1..Len(ids) : g[n] = traded(h, g[n - 1], ids[n])
        /\ spotReplay(h) = g[Len(ids)]
  BY <1>1, Replayed
<1>. HIDE DEF ids, T
<1>4. /\ Len(ids) = Cardinality(T) /\ Len(ids) \in Nat
      /\ \A k \in T : ids[Cardinality(upTo(T, k))] = k
  <2>1. ids = sorted(T)
    BY DEF ids, T, tradesOfHistory
  <2>2. \A k \in T : rank(k, T) = Cardinality(upTo(T, k))
    BY DEF rank, upTo
  <2>3. Cardinality(T) \in Nat
    BY <1>2, FS_CardinalityType
  <2>. QED  BY <1>2, <2>1, <2>2, <2>3, SortedById
<1>5. Follows(held, orders, fills, N)
  BY <1>2, BooksFollow
<1>. HIDE DEF held, N
<1>. DEFINE Q == {m \in Nat : m <= N =>
              /\ place(m) \in 0..Len(ids)
              /\ \A s \in Symbol : whole(s, m) => g[place(m)].lots[s] = held[m][s]
              /\ g[place(m)].loss = lost(m)}
<1>6. 0 \in Q
  <2>1. upTo(T, 0) = {}
    <3>1. \A k \in T : k \in 1..N
      BY <1>1, <1>2 DEF T
    <3>. QED  BY <1>2, <3>1 DEF upTo
  <2>2. place(0) = 0
    BY <2>1, FS_EmptySet
  <2>3. lost(0) = 0
    <3>1. ofToday(h, {}) = {}
      BY DEF ofToday
    <3>. QED  BY <2>1, <3>1, SumOfNothing
  <2>4. g[0].loss = 0 /\ g[0].lots = NoLots /\ held[0] = NoLots
    BY <1>3, <1>5 DEF Nothing, Follows
  <2>. QED  BY <1>4, <2>2, <2>3, <2>4
<1>7. ASSUME NEW m \in Nat, m \in Q PROVE m + 1 \in Q
  <2>. SUFFICES ASSUME m + 1 <= N
                PROVE  /\ place(m + 1) \in 0..Len(ids)
                       /\ \A s \in Symbol : whole(s, m + 1) =>
                            g[place(m + 1)].lots[s] = held[m + 1][s]
                       /\ g[place(m + 1)].loss = lost(m + 1)
    OBVIOUS
  <2>1. /\ m <= N /\ m + 1 \in 1..N /\ m + 1 \in DOMAIN fills /\ (m + 1) - 1 = m
        /\ m + 1 \in Nat /\ m + 1 # 0 /\ m \in 0..N
    BY <1>2
  <2>2. /\ place(m) \in 0..Len(ids)
        /\ \A s \in Symbol : whole(s, m) => g[place(m)].lots[s] = held[m][s]
        /\ g[place(m)].loss = lost(m)
    BY <1>7, <2>1
  <2>3. /\ m + 1 \in T => /\ upTo(T, m + 1) = upTo(T, m) \cup {m + 1} /\ m + 1 \notin upTo(T, m)
                           /\ place(m + 1) = place(m) + 1
        /\ m + 1 \notin T => upTo(T, m + 1) = upTo(T, m)
        /\ IsFiniteSet(upTo(T, m)) /\ upTo(T, m) \subseteq T
        /\ place(m + 1) \in Nat /\ place(m + 1) <= Cardinality(T)
    <3>1. upTo(T, m) \subseteq T
      BY DEF upTo
    <3>2. place(m + 1) \in Nat /\ place(m + 1) <= Cardinality(T)
      BY <1>2, <2>1, OneMore
    <3>. QED  BY <1>2, <3>1, <3>2, OneMore
  <2>4. \A s : whole(s, m + 1) => whole(s, m)
    BY <2>1
  <2>5. g[place(m)] \in Replay
    BY <1>3, <2>2
  <2>. DEFINE own == symbolOfFill(m + 1)
  <2>6. own \in Symbol
    BY <1>2, <2>1
  <2>7. CASE m + 1 \in T
    <3>1. place(m + 1) \in 1..Len(ids) /\ place(m + 1) - 1 = place(m)
      <4>1. place(m) \in Nat
        BY <2>2
      <4>. HIDE DEF place
      <4>. QED  BY <1>4, <2>3, <2>7, <4>1
    <3>2. g[place(m + 1)] = traded(h, g[place(m)], m + 1)
      <4>1. ids[place(m + 1)] = m + 1
        BY <1>4, <2>7
      <4>. HIDE DEF place
      <4>. QED  BY <1>3, <3>1, <4>1
    <3>3. whole(own, m)
      BY <1>1, <1>2, <2>1, <2>7 DEF T
    <3>4. g[place(m)].lots[own] = held[m][own]
      BY <2>2, <2>6, <3>3
    <3>. DEFINE acc == g[place(m)]
                next == traded(h, acc, m + 1)
    <3>5. /\ next.lots[own] = held[m + 1][own]
          /\ \A s \in Symbol \ {own} : next.lots[s] = acc.lots[s]
          /\ next.loss = acc.loss + IF fills[m + 1].time >= dayStart(h.cutoff) THEN losses[m + 1] ELSE 0
          /\ \A s \in Symbol \ {own} : held[m + 1][s] = held[m][s]
      <4>. HIDE DEF acc
      <4>1. acc \in Replay /\ acc.lots[own] = held[m][own]
        BY <2>5, <3>4 DEF acc
      <4>. QED  BY <1>1, <2>1, <4>1, TradedAsBooked DEF held
    <3>6. next.loss = lost(m + 1)
      <4>1. CASE fills[m + 1].time >= dayStart(h.cutoff)
        <5>. DEFINE before_ == ofToday(h, upTo(T, m))
                    after_ == ofToday(h, upTo(T, m + 1))
        <5>1. after_ = before_ \cup {m + 1} /\ m + 1 \notin before_ /\ after_ \subseteq T
          BY <2>3, <2>7, <4>1 DEF ofToday
        <5>. HIDE DEF before_, after_
        <5>2. after_ \ {m + 1} = before_ /\ m + 1 \in after_
          BY <5>1
        <5>3. IsFiniteSet(after_) /\ \A x \in after_ : losses[x] \in Int
          BY <1>2, <5>1, FS_Subset
        <5>4. SumFunctionOnSet(losses, after_) = losses[m + 1] + SumFunctionOnSet(losses, before_)
          BY <5>2, <5>3, SumWithout
        <5>5. IsFiniteSet(before_) /\ \A x \in before_ : losses[x] \in Int
          BY <5>1, <5>3, FS_Subset
        <5>6. SumFunctionOnSet(losses, before_) \in Int /\ losses[m + 1] \in Int
          BY <1>2, <2>7, <5>5, SumType
        <5>7. next.loss = SumFunctionOnSet(losses, before_) + losses[m + 1]
          <6>. HIDE DEF next, held
          <6>. QED  BY <2>2, <3>5, <4>1 DEF before_
        <5>. QED  BY <5>4, <5>6, <5>7 DEF after_
      <4>2. CASE ~(fills[m + 1].time >= dayStart(h.cutoff))
        <5>1. ofToday(h, upTo(T, m + 1)) = ofToday(h, upTo(T, m))
          BY <2>3, <2>7, <4>2 DEF ofToday
        <5>2. acc.loss \in Nat
          BY <2>5 DEF Replay
        <5>. HIDE DEF next, acc
        <5>3. next.loss = acc.loss
          BY <3>5, <4>2, <5>2
        <5>. QED  BY <2>2, <5>1, <5>3 DEF acc
      <4>. QED  BY <4>1, <4>2
    <3>7. ASSUME NEW s \in Symbol, whole(s, m + 1) PROVE next.lots[s] = held[m + 1][s]
      <4>1. CASE s = own
        BY <3>5, <4>1
      <4>2. CASE s # own
        <5>1. acc.lots[s] = held[m][s]
          BY <2>2, <2>4, <3>7
        <5>. HIDE DEF next, acc
        <5>. QED  BY <3>5, <4>2, <5>1
      <4>. QED  BY <4>1, <4>2
    <3>8. place(m + 1) \in 0..Len(ids)
      BY <1>4, <3>1
    <3>. QED  BY <3>2, <3>6, <3>7, <3>8
  <2>8. CASE m + 1 \notin T
    <3>1. place(m + 1) = place(m) /\ lost(m + 1) = lost(m)
      BY <2>3, <2>8
    <3>2. ASSUME NEW s \in Symbol, whole(s, m + 1) PROVE held[m + 1][s] = held[m][s]
      <4>1. s # own
        BY <2>1, <2>8, <3>2
      <4>. DEFINE o == orders[fills[m + 1].order]
      <4>2. held[m + 1] = booked(held[m], o) /\ own = o.symbol
        BY <1>5, <2>1 DEF Follows, symbolOfFill
      <4>3. held[m] \in Lots
        BY <2>1, BooksAreLots DEF held, N
      <4>. QED  BY <4>1, <4>2, <4>3 DEF booked, Lots
    <3>. QED  BY <2>2, <2>4, <3>1, <3>2
  <2>. QED  BY <2>7, <2>8
<1>8. N \in Q
  <2>. HIDE DEF Q
  <2>. QED  BY <1>2, <1>6, <1>7, NatSetInduction
<1>9. upTo(T, N) = T
  BY <1>1, <1>2 DEF upTo, T
<1>10. place(N) = Len(ids) /\ lost(N) = SumFunctionOnSet(losses, ofToday(h, T))
  BY <1>4, <1>9
<1>11. g[place(N)].loss = lost(N)
  BY <1>2, <1>8
<1>. QED  BY <1>3, <1>10, <1>11 DEF T

-----------------------------------------------------------------------------
(***************************************************************************)
(* The statistics stay those of what happened.                             *)
(***************************************************************************)
RealStats(stats, cutoff) ==
  /\ between(SumFunctionOnSet(prices, settled(fills, cutoff)), stats.notional,
             SumFunctionOnSet(prices, todays(fills, cutoff)))
  /\ between(SumFunctionOnSet(losses, settled(fills, cutoff)), stats.loss,
             SumFunctionOnSet(losses, todays(fills, cutoff)))
  /\ between(Cardinality(settled(orders, cutoff)), stats.orders,
             Cardinality(todays(orders, cutoff)))

StatsOK(c) ==
  /\ pc[c] \in {"idle", "history", "snapshot"} => facts[c].stats = NoFact
  /\ pc[c] = "snapshot" => product = "spot"
  /\ facts[c].stats # NoFact => collect[c] # Null /\ RealStats(facts[c].stats, collect[c].cutoff)

RealInv == DecisionInv /\ BooksOK /\ \A c \in Call : StatsOK(c)

\* A set of rows between the settled ones and those of the day has a sum between.
LEMMA SumsBetween ==
  ASSUME HistoryTypeOK, Chronicle(orders, fills, clock), NEW cutoff,
         NEW ids, settled(fills, cutoff) \subseteq ids, ids \subseteq todays(fills, cutoff)
  PROVE  /\ between(SumFunctionOnSet(prices, settled(fills, cutoff)), SumFunctionOnSet(prices, ids),
                    SumFunctionOnSet(prices, todays(fills, cutoff)))
         /\ between(SumFunctionOnSet(losses, settled(fills, cutoff)), SumFunctionOnSet(losses, ids),
                    SumFunctionOnSet(losses, todays(fills, cutoff)))
<1>1. todays(fills, cutoff) \subseteq DOMAIN fills
  BY DEF todays
<1>2. /\ IsFiniteSet(todays(fills, cutoff)) /\ IsFiniteSet(ids)
      /\ \A k \in todays(fills, cutoff) : prices[k] \in Nat /\ losses[k] \in Nat
      /\ \A k \in ids : prices[k] \in Nat /\ losses[k] \in Nat
  BY <1>1, AmountTypes, FS_Subset
<1>. QED  BY <1>2, SumGrows DEF between

\* The statistics of a collection that has ended.
LEMMA FreshStats ==
  ASSUME DecisionInv, BooksOK, NEW c \in Call, reading(c), collect[c].step = "done",
         NEW loss, loss = IF product = "spot" THEN spotReplay(collect[c]).loss
                          ELSE futuresLoss(collect[c])
  PROVE  RealStats(calculateDailyStats(collect[c], loss), collect[c].cutoff)
<1>. DEFINE h == collect[c]
            stats == calculateDailyStats(h, loss)
            cutoff == h.cutoff
            T == ToSet(h.trades)
<1>1. Sound(h) /\ HistoryTypeOK /\ Chronicle(orders, fills, clock)
  BY ItsCollection
<1>2. /\ settled(fills, cutoff) \subseteq T /\ settled(orders, cutoff) \subseteq ToSet(h.orders)
      /\ product = "usdm_futures" => settled(fills, cutoff) \subseteq ToSet(h.income)
      /\ ToSet(h.orders) \subseteq todays(orders, cutoff)
  <2>1. HistoryIsComplete /\ collect[c] # Null
    BY CompleteWhenDone DEF DecisionInv, CallOK, ReadingOK
  <2>. QED  BY <2>1 DEF HistoryIsComplete
<1>3. ToSet(h.income) \subseteq todays(fills, cutoff)
  BY <1>1 DEF Sound, IncomeSound
<1>4. /\ settled(fills, cutoff) \subseteq ofToday(h, T)
      /\ ofToday(h, T) \subseteq todays(fills, cutoff)
  <2>1. /\ \A k \in T : k \in DOMAIN fills /\ fills[k].time <= cutoff
        /\ cutoff \in Nat /\ dayStart(cutoff) \in Nat
    BY <1>1, DayBegins DEF Sound, TradesSound, Collection
  <2>2. \A k \in settled(fills, cutoff) : fills[k].time >= dayStart(cutoff)
    BY <2>1 DEF settled, todays
  <2>3. \A k \in T : fills[k].time \in Nat
    BY <1>1, <2>1, Rows
  <2>4. ASSUME NEW k \in T, fills[k].time >= dayStart(cutoff) PROVE k \in todays(fills, cutoff)
    BY <2>1, <2>3, <2>4 DEF todays
  <2>. QED  BY <1>2, <2>2, <2>4 DEF ofToday
<1>5. stats.notional = SumFunctionOnSet(prices, ofToday(h, T))
      /\ stats.loss = loss /\ stats.orders = Cardinality(ToSet(h.orders))
  BY DEF calculateDailyStats, totalNotionalUsd, orderCount
<1>. HIDE DEF stats, h
<1>6. between(SumFunctionOnSet(prices, settled(fills, cutoff)), stats.notional,
              SumFunctionOnSet(prices, todays(fills, cutoff)))
  BY <1>1, <1>4, <1>5, SumsBetween
<1>7. between(SumFunctionOnSet(losses, settled(fills, cutoff)), stats.loss,
              SumFunctionOnSet(losses, todays(fills, cutoff)))
  <2>1. CASE product = "spot"
    <3>1. loss = SumFunctionOnSet(losses, ofToday(h, T))
      <4>1. InTheBooks(orders, fills, lots)
        BY <2>1 DEF BooksOK
      <4>. QED  BY <1>1, <2>1, <4>1, LossIsRecorded DEF h
    <3>. QED  BY <1>1, <1>4, <1>5, <3>1, SumsBetween
  <2>2. CASE product # "spot"
    <3>1. product = "usdm_futures" /\ loss = SumFunctionOnSet(losses, ToSet(h.income))
      BY <1>1, <2>2 DEF HistoryTypeOK, futuresLoss, h
    <3>. QED  BY <1>1, <1>2, <1>3, <1>5, <3>1, SumsBetween
  <2>. QED  BY <2>1, <2>2
<1>8. between(Cardinality(settled(orders, cutoff)), stats.orders, Cardinality(todays(orders, cutoff)))
  <2>1. IsFiniteSet(todays(orders, cutoff))
    <3>1. IsFiniteSet(DOMAIN orders) /\ todays(orders, cutoff) \subseteq DOMAIN orders
      BY <1>1, Rows DEF todays
    <3>. QED  BY <3>1, FS_Subset
  <2>2. IsFiniteSet(ToSet(h.orders)) /\ Cardinality(ToSet(h.orders)) <= Cardinality(todays(orders, cutoff))
    BY <1>2, <2>1, FS_Subset
  <2>3. Cardinality(settled(orders, cutoff)) <= Cardinality(ToSet(h.orders))
    BY <1>2, <2>2, FS_Subset
  <2>. QED  BY <1>5, <2>2, <2>3 DEF between
<1>. QED  BY <1>6, <1>7, <1>8 DEF RealStats, stats, h

\* They stay so while the account goes on: what is settled stays as it was, and
\* the day only grows.
LEMMA StatsGrow ==
  ASSUME HistoryTypeOK, Chronicle(orders, fills, clock), HistoryTypeOK', Chronicle(orders, fills, clock)',
         Grows(orders, orders', clock), Grows(fills, fills', clock),
         NEW cutoff \in Nat, cutoff <= clock, NEW stats \in Stats, RealStats(stats, cutoff)
  PROVE  RealStats(stats, cutoff)'
<1>1. clock \in Nat
  BY Rows
<1>2. /\ settled(fills', cutoff) = settled(fills, cutoff)
      /\ todays(fills, cutoff) \subseteq todays(fills', cutoff)
      /\ settled(orders', cutoff) = settled(orders, cutoff)
      /\ todays(orders, cutoff) \subseteq todays(orders', cutoff)
  BY <1>1, GrownRows
<1>3. /\ \A k \in DOMAIN fills : prices[k] \in Nat /\ losses[k] \in Nat
      /\ IsFiniteSet(DOMAIN fills) /\ IsFiniteSet(DOMAIN orders)
      /\ todays(fills, cutoff) \subseteq DOMAIN fills /\ settled(fills, cutoff) \subseteq DOMAIN fills
  BY AmountTypes DEF todays, settled
<1>4. \A k \in DOMAIN fills : prices'[k] = prices[k] /\ losses'[k] = losses[k]
  <2>1. ASSUME NEW k \in DOMAIN fills PROVE prices'[k] = prices[k] /\ losses'[k] = losses[k]
    <3>1. k \in DOMAIN fills' /\ fills'[k] = fills[k] /\ fills[k].order \in DOMAIN orders
      BY Rows DEF Grows
    <3>2. orders'[fills[k].order] = orders[fills[k].order]
      BY <3>1 DEF Grows
    <3>. QED  BY <3>1, <3>2 DEF prices, losses
  <2>. QED  BY <2>1
<1>5. \A k \in DOMAIN fills' : prices'[k] \in Nat /\ losses'[k] \in Nat
  <2>1. ASSUME NEW k \in DOMAIN fills' PROVE prices'[k] \in Nat /\ losses'[k] \in Nat
    <3>1. fills'[k].order \in DOMAIN orders' /\ fills' \in Seq(AFill) /\ orders' \in Seq(AnOrder)
      BY DEF HistoryTypeOK, Chronicle
    <3>2. fills'[k] \in AFill /\ orders'[fills'[k].order] \in AnOrder
      BY <3>1
    <3>3. fills'[k].gain \in Int /\ orders'[fills'[k].order].price \in Nat
      BY <3>2 DEF AFill, AnOrder
    <3>. DEFINE g == -fills'[k].gain
    <3>4. g \in Int
      BY <3>3
    <3>. HIDE DEF g
    <3>5. Max({0, g}) \in Nat
      BY <3>4, MaxOfTwo
    <3>. QED  BY <3>3, <3>5 DEF prices, losses, g
  <2>. QED  BY <2>1
<1>6. IsFiniteSet(todays(fills', cutoff)) /\ IsFiniteSet(todays(orders', cutoff))
      /\ todays(fills', cutoff) \subseteq DOMAIN fills'
  <2>1. /\ DOMAIN fills' = 1..Len(fills') /\ Len(fills') \in Nat
        /\ DOMAIN orders' = 1..Len(orders') /\ Len(orders') \in Nat
    BY DEF HistoryTypeOK
  <2>2. IsFiniteSet(DOMAIN fills') /\ IsFiniteSet(DOMAIN orders')
    BY <2>1, FS_Interval
  <2>3. todays(fills', cutoff) \subseteq DOMAIN fills' /\ todays(orders', cutoff) \subseteq DOMAIN orders'
    BY DEF todays
  <2>. QED  BY <2>2, <2>3, FS_Subset
<1>. DEFINE S == settled(fills, cutoff)
            D == todays(fills, cutoff)
            E == todays(fills', cutoff)
<1>7. IsFiniteSet(S) /\ IsFiniteSet(D) /\ IsFiniteSet(E)
  BY <1>3, <1>6, FS_Subset
<1>8. /\ D \subseteq E /\ S \subseteq DOMAIN fills /\ D \subseteq DOMAIN fills /\ E \subseteq DOMAIN fills'
  BY <1>2, <1>3, <1>6
<1>. HIDE DEF S, D, E
<1>9. /\ SumFunctionOnSet(prices', S) = SumFunctionOnSet(prices, S)
      /\ SumFunctionOnSet(prices', D) = SumFunctionOnSet(prices, D)
      /\ SumFunctionOnSet(losses', S) = SumFunctionOnSet(losses, S)
      /\ SumFunctionOnSet(losses', D) = SumFunctionOnSet(losses, D)
  <2>1. /\ \A k \in S : prices[k] \in Int /\ prices'[k] = prices[k] /\ losses[k] \in Int /\ losses'[k] = losses[k]
        /\ \A k \in D : prices[k] \in Int /\ prices'[k] = prices[k] /\ losses[k] \in Int /\ losses'[k] = losses[k]
    BY <1>3, <1>4, <1>8
  <2>. QED  BY <1>7, <2>1, SumOnlySees
<1>10. /\ SumFunctionOnSet(prices', D) <= SumFunctionOnSet(prices', E)
       /\ SumFunctionOnSet(losses', D) <= SumFunctionOnSet(losses', E)
       /\ SumFunctionOnSet(prices', E) \in Nat /\ SumFunctionOnSet(losses', E) \in Nat
  BY <1>5, <1>7, <1>8, SumGrows
<1>11. SumFunctionOnSet(prices, D) \in Nat /\ SumFunctionOnSet(losses, D) \in Nat
  BY <1>3, <1>7, <1>8, SumGrows
<1>12. /\ Cardinality(todays(orders, cutoff)) <= Cardinality(todays(orders', cutoff))
       /\ Cardinality(todays(orders, cutoff)) \in Nat /\ Cardinality(todays(orders', cutoff)) \in Nat
  BY <1>2, <1>6, FS_Subset, FS_CardinalityType
<1>13. stats.notional \in Nat /\ stats.loss \in Nat /\ stats.orders \in Nat
  BY DEF Stats
<1>14. /\ SumFunctionOnSet(prices, S) <= stats.notional /\ stats.notional <= SumFunctionOnSet(prices, D)
       /\ SumFunctionOnSet(losses, S) <= stats.loss /\ stats.loss <= SumFunctionOnSet(losses, D)
       /\ Cardinality(settled(orders, cutoff)) <= stats.orders
       /\ stats.orders <= Cardinality(todays(orders, cutoff))
  BY DEF RealStats, between, S, D
<1>15. /\ stats.notional <= SumFunctionOnSet(prices', E) /\ stats.loss <= SumFunctionOnSet(losses', E)
       /\ stats.orders <= Cardinality(todays(orders', cutoff))
  BY <1>9, <1>10, <1>11, <1>12, <1>13, <1>14
<1>. QED  BY <1>2, <1>9, <1>14, <1>15 DEF RealStats, between, S, E

-----------------------------------------------------------------------------
(***************************************************************************)
(* Every step keeps the statistics real.                                   *)
(***************************************************************************)
\* The account only goes on, and its books with it.
LEMMA AccountGrows ==
  ASSUME DecisionInv, [Next]_vars
  PROVE  /\ Grows(orders, orders', clock) /\ Grows(fills, fills', clock)
         /\ product' = product /\ (BooksOK => BooksOK')
<1>1. HistoryInv /\ HistoryTypeOK /\ Chronicle(orders, fills, clock)
      /\ orders \in Seq(AnOrder) /\ fills \in Seq(AFill)
  BY DEF DecisionInv, HistoryInv, HistoryTypeOK
<1>2. Grows(orders, orders, clock) /\ Grows(fills, fills, clock)
  BY <1>1, SameGrows
<1>3. CASE UNCHANGED <<product, account>>
  <2>1. UNCHANGED <<product, fills, lots>> /\ orders' = orders /\ Grows(orders, orders', clock)
    BY <1>2, <1>3 DEF account
  <2>. QED  BY <1>1, <1>2, <2>1, BooksStay
<1>4. ASSUME NEW symbol, NEW side, NEW price, Order(symbol, side, price),
             UNCHANGED <<product, fills, lots>>
      PROVE  /\ Grows(orders, orders', clock) /\ Grows(fills, fills', clock)
         /\ product' = product /\ (BooksOK => BooksOK')
  <2>. DEFINE o == [symbol |-> symbol, side |-> side, price |-> price, time |-> clock]
  <2>1. orders' = Append(orders, o) /\ o.time = clock
    BY <1>4 DEF Order
  <2>. HIDE DEF o
  <2>2. Grows(orders, orders', clock)
    BY <1>1, <2>1, AppendGrows
  <2>. QED  BY <1>1, <1>2, <1>4, <2>2, BooksStay
<1>5. CASE Fill
  <2>1. PICK k, gain : fills' = Append(fills, [order |-> k, time |-> clock, gain |-> gain])
    BY <1>5 DEF Fill
  <2>. DEFINE e == [order |-> k, time |-> clock, gain |-> gain]
  <2>2. e.time = clock /\ fills' = Append(fills, e)
    BY <2>1
  <2>. HIDE DEF e
  <2>3. Grows(fills, fills', clock)
    BY <1>1, <2>2, AppendGrows
  <2>4. orders' = orders /\ product' = product
    BY <1>5 DEF Fill
  <2>. QED  BY <1>1, <1>2, <1>5, <2>3, <2>4, BooksFilled
<1>6. CASE Environment
  <2>1. CASE OwnerOrders
    BY <1>4, <2>1 DEF OwnerOrders
  <2>2. CASE Tick
    BY <1>3, <2>2 DEF Tick
  <2>. QED  BY <1>5, <1>6, <2>1, <2>2 DEF Environment
<1>7. ASSUME NEW c \in Call, PlaceOrder(c)
      PROVE  /\ Grows(orders, orders', clock) /\ Grows(fills, fills', clock)
         /\ product' = product /\ (BooksOK => BooksOK')
  BY <1>4, <1>7 DEF PlaceOrder
<1>8. ASSUME NEW c \in Call, NEW i, NEW v, Begin(c, i, v) PROVE UNCHANGED <<product, account>>
  BY <1>8 DEF Begin
<1>9. ASSUME NEW c \in Call, Evaluate(c) \/ RequestFails(c) PROVE UNCHANGED <<product, account>>
  BY <1>9 DEF Evaluate, RequestFails, ReadPage, RefusePage, Collected, ReadSnapshot, ReadMarket,
              ReadPortfolio, AskPolicy
<1>. QED  BY <1>3, <1>6, <1>7, <1>8, <1>9 DEF Next, vars

early(p) == p \in {"idle", "history", "snapshot"}

\* A step that leaves the statistics of d and the history they are of.
keepsStats(d) ==
  /\ facts'[d].stats = facts[d].stats
  /\ early(pc'[d]) => early(pc[d])
  /\ pc'[d] = "snapshot" => pc[d] = "snapshot" \/ product = "spot"
  /\ facts[d].stats = NoFact \/ collect'[d] = collect[d]

LEMMA StatsStay ==
  ASSUME RealInv, [Next]_vars, NEW d \in Call, keepsStats(d)
  PROVE  StatsOK(d)'
<1>1. DecisionInv /\ StatsOK(d) /\ DecisionInv'
  BY DecisionStep DEF RealInv
<1>2. early(pc'[d]) => facts'[d].stats = NoFact
  BY <1>1 DEF StatsOK, keepsStats, early
<1>5. pc'[d] = "snapshot" => product' = "spot"
  BY <1>1, AccountGrows DEF StatsOK, keepsStats
<1>3. CASE facts[d].stats = NoFact
  BY <1>2, <1>3, <1>5 DEF keepsStats, StatsOK, early
<1>4. CASE facts[d].stats # NoFact
  <2>. DEFINE stats == facts[d].stats
              cutoff == collect[d].cutoff
  <2>1. /\ collect[d] # Null /\ RealStats(stats, cutoff)
        /\ collect'[d] = collect[d] /\ facts'[d].stats = facts[d].stats
    BY <1>1, <1>4 DEF StatsOK, keepsStats
  <2>2. /\ HistoryTypeOK /\ Chronicle(orders, fills, clock)
        /\ HistoryTypeOK' /\ Chronicle(orders, fills, clock)'
    BY <1>1 DEF DecisionInv, HistoryInv
  <2>3. stats \in Stats
    BY <1>1, <1>4 DEF DecisionInv, EvaluationTypes, Pinned
  <2>4. cutoff \in Nat /\ cutoff <= clock
    BY <1>1, <2>1 DEF DecisionInv, HistoryInv, collected, Sound, PlaceSound, Collection
  <2>5. Grows(orders, orders', clock) /\ Grows(fills, fills', clock)
    BY <1>1, AccountGrows
  <2>. HIDE DEF stats, cutoff
  <2>6. RealStats(stats, cutoff)'
    <3>1. ASSUME NEW s \in Stats, NEW t \in Nat, t <= clock, RealStats(s, t)
          PROVE  RealStats(s, t)'
      BY <2>2, <2>5, <3>1, StatsGrow
    <3>2. stats' = stats /\ cutoff' = cutoff
      BY <2>1 DEF stats, cutoff
    <3>. QED  BY <2>1, <2>3, <2>4, <3>1, <3>2 DEF RealStats
  <2>. QED  BY <1>2, <1>5, <2>1, <2>6 DEF StatsOK, early, stats, cutoff
<1>. QED  BY <1>3, <1>4

\* Each action of c pins facts of c only, and reads into its own collection.
LEMMA TouchesOwn ==
  ASSUME NEW c \in Call,
         \/ \E r \in Requests : Begin(c, r.intent, r.verdict)
         \/ Evaluate(c) \/ RequestFails(c) \/ PlaceOrder(c)
  PROVE  /\ UNCHANGED facts \/ \E f : Pin(c, f)
         /\ UNCHANGED collect \/ \E h : collect' = [collect EXCEPT ![c] = h]
         /\ UNCHANGED pc \/ \E p : Goto(c, p)
<1>1. UNCHANGED pc \/ \E p : Goto(c, p)
  BY GoesSomewhere
<1>2. CASE \E r \in Requests : Begin(c, r.intent, r.verdict)
  <2>1. UNCHANGED facts /\ (UNCHANGED collect \/ Collect(c))
    BY <1>2 DEF Begin
  <2>2. Collect(c) => \E h : collect' = [collect EXCEPT ![c] = h]
    BY DEF Collect
  <2>. QED  BY <1>1, <2>1, <2>2
<1>3. CASE ReadPage(c)
  <2>1. UNCHANGED facts /\ ReadHistory(c)
    BY <1>3 DEF ReadPage, evaluation
  <2>2. \E h : collect' = [collect EXCEPT ![c] = h]
    <3>1. CASE ReadSpotTrades(c)
      BY <3>1 DEF ReadSpotTrades
    <3>2. CASE ReadFuturesTrades(c)
      BY <3>2 DEF ReadFuturesTrades
    <3>3. CASE ReadOrders(c)
      BY <3>3 DEF ReadOrders
    <3>4. CASE ReadLatest(c)
      BY <3>4 DEF ReadLatest
    <3>5. CASE ReadIncome(c)
      BY <3>5 DEF ReadIncome
    <3>. QED  BY <2>1, <3>1, <3>2, <3>3, <3>4, <3>5 DEF ReadHistory
  <2>. QED  BY <1>1, <2>1, <2>2
<1>4. CASE RefusePage(c) \/ RequestFails(c) \/ AskPolicy(c) \/ PlaceOrder(c)
  <2>1. UNCHANGED <<facts, collect>>
    BY <1>4 DEF RefusePage, RequestFails, AskPolicy, PlaceOrder
  <2>. QED  BY <1>1, <2>1
<1>5. CASE Collected(c) \/ ReadSnapshot(c) \/ ReadMarket(c) \/ ReadPortfolio(c)
  <2>1. UNCHANGED collect
    BY <1>5 DEF Collected, ReadSnapshot, ReadMarket, ReadPortfolio
  <2>2. UNCHANGED facts \/ \E f : Pin(c, f)
    <3>1. CASE Collected(c)
      BY <3>1 DEF Collected
    <3>2. CASE ReadSnapshot(c)
      BY <3>2 DEF ReadSnapshot
    <3>3. CASE ReadMarket(c)
      BY <3>3 DEF ReadMarket
    <3>4. CASE ReadPortfolio(c)
      BY <3>4 DEF ReadPortfolio
    <3>. QED  BY <1>5, <3>1, <3>2, <3>3, <3>4
  <2>. QED  BY <1>1, <2>1, <2>2
<1>. QED  BY <1>2, <1>3, <1>4, <1>5 DEF Evaluate

LEMMA OthersKeep ==
  ASSUME DecisionInv, NEW c \in Call, NEW d \in Call \ {c},
         \/ \E r \in Requests : Begin(c, r.intent, r.verdict)
         \/ Evaluate(c) \/ RequestFails(c) \/ PlaceOrder(c)
  PROVE  keepsStats(d)
<1>1. /\ UNCHANGED facts \/ \E f : Pin(c, f)
      /\ UNCHANGED collect \/ \E h : collect' = [collect EXCEPT ![c] = h]
      /\ UNCHANGED pc \/ \E p : Goto(c, p)
  BY TouchesOwn
<1>2. EvaluationTypes /\ collect \in [Call -> {Null} \cup Collection]
  BY DEF DecisionInv, HistoryInv, HistoryTypeOK
<1>3. pc'[d] = pc[d]
  BY <1>1, <1>2, StaysThere
<1>4. facts'[d] = facts[d]
  BY <1>1, <1>2 DEF Pin, EvaluationTypes
<1>5. collect'[d] = collect[d]
  BY <1>1, <1>2
<1>. QED  BY <1>3, <1>4, <1>5 DEF keepsStats

\* The statistics of a collection that has ended, as they are pinned.
LEMMA PinsFreshStats ==
  ASSUME RealInv, NEW c \in Call, reading(c), collect[c].step = "done",
         NEW loss, loss = IF product = "spot" THEN spotReplay(collect[c]).loss
                          ELSE futuresLoss(collect[c]),
         NEW f, f.stats = calculateDailyStats(collect[c], loss), Pin(c, f),
         ~early(pc'[c]), UNCHANGED <<product, clock, account, collect>>
  PROVE  StatsOK(c)'
<1>. DEFINE stats == calculateDailyStats(collect[c], loss)
            cutoff == collect[c].cutoff
<1>1. DecisionInv /\ BooksOK /\ EvaluationTypes /\ collect[c] # Null
  BY DEF RealInv, DecisionInv, CallOK, ReadingOK
<1>2. RealStats(stats, cutoff)
  BY <1>1, FreshStats
<1>3. facts'[c].stats = stats
  BY <1>1, PinnedNow
<1>. HIDE DEF stats
<1>4. /\ fills' = fills /\ orders' = orders /\ collect' = collect
      /\ prices' = prices /\ losses' = losses
  BY DEF account, prices, losses
<1>5. RealStats(facts[c].stats, collect[c].cutoff)'
  BY <1>2, <1>3, <1>4 DEF RealStats
<1>. QED  BY <1>1, <1>4, <1>5 DEF StatsOK, early

LEMMA OwnStats ==
  ASSUME RealInv, [Next]_vars, NEW c \in Call,
         \/ \E r \in Requests : Begin(c, r.intent, r.verdict)
         \/ Evaluate(c) \/ RequestFails(c) \/ PlaceOrder(c)
  PROVE  StatsOK(c)'
<1>1. EvaluationTypes /\ StatsOK(c) /\ DecisionInv
  BY DEF RealInv, DecisionInv
<1>2. early(pc[c]) => facts[c].stats = NoFact
  BY <1>1 DEF StatsOK, early
<1>3. ASSUME NEW p, Goto(c, p) PROVE pc'[c] = p
  BY <1>1, <1>3, Arrives
<1>4. ASSUME NEW o, NEW r, Decide(c, o, r) PROVE ~early(pc'[c])
  BY <1>3, <1>4 DEF Decide, early
<1>5. ASSUME NEW i, NEW v, NEW f, NEW last, Judge(c, i, v, f, last) PROVE ~early(pc'[c])
  BY <1>3, <1>4, <1>5 DEF Judge, Continue, early
<1>6. CASE \E r \in Requests : Begin(c, r.intent, r.verdict)
  <2>1. PICK r \in Requests : Begin(c, r.intent, r.verdict)
    BY <1>6
  <2>2. pc[c] = "idle" /\ UNCHANGED facts
        /\ \/ Judge(c, r.intent, r.verdict, NoFacts, NoFact)
           \/ Continue(c, "history") \/ Unavailable(c)
    BY <2>1 DEF Begin
  <2>3. pc'[c] = "snapshot" => FALSE
    BY <1>3, <1>4, <1>5, <2>2 DEF Continue, Unavailable, early
  <2>4. keepsStats(c)
    BY <1>2, <2>2, <2>3 DEF keepsStats, early
  <2>. QED  BY <2>4, StatsStay
<1>7. CASE ReadPage(c)
  <2>1. pc[c] = "history" /\ UNCHANGED <<pc, facts>>
    BY <1>7 DEF ReadPage, evaluation
  <2>2. keepsStats(c)
    BY <1>2, <2>1 DEF keepsStats, early
  <2>. QED  BY <2>2, StatsStay
<1>8. CASE UNCHANGED <<facts, collect>> /\ \E o, r : Decide(c, o, r)
  <2>1. keepsStats(c)
    BY <1>4, <1>8 DEF keepsStats, early
  <2>. QED  BY <2>1, StatsStay
<1>9. CASE PlaceOrder(c)
  <2>1. UNCHANGED <<facts, collect>> /\ ~early(pc'[c])
    BY <1>3, <1>9 DEF PlaceOrder, early
  <2>2. keepsStats(c)
    BY <2>1 DEF keepsStats, early
  <2>. QED  BY <2>2, StatsStay
<1>10. CASE RefusePage(c) \/ RequestFails(c)
  BY <1>8, <1>10 DEF RefusePage, RequestFails, Unavailable
<1>11. CASE AskPolicy(c)
  BY <1>8, <1>11 DEF AskPolicy
<1>12. CASE Collected(c)
  <2>. DEFINE h == collect[c]
              g == [facts[c] EXCEPT !.asked = clock]
              k == [facts[c] EXCEPT !.stats = calculateDailyStats(h, futuresLoss(h)), !.asked = clock]
  <2>1. /\ pc[c] = "history" /\ reading(c) /\ h.step = "done"
        /\ UNCHANGED <<product, clock, account, collect>>
        /\ \/ Unavailable(c) /\ UNCHANGED facts
           \/ product = "spot" /\ Continue(c, "snapshot") /\ Pin(c, g)
           \/ product = "usdm_futures" /\ Continue(c, "market") /\ Pin(c, k)
    BY <1>12 DEF Collected, reading
  <2>2. g.stats = facts[c].stats /\ k.stats = calculateDailyStats(h, futuresLoss(h))
    BY <1>1 DEF EvaluationTypes, Pinned
  <2>. HIDE DEF g, k
  <2>3. CASE Unavailable(c) /\ UNCHANGED facts
    BY <1>8, <2>1, <2>3 DEF Unavailable
  <2>4. CASE product = "spot" /\ Continue(c, "snapshot") /\ Pin(c, g)
    <3>1. facts'[c].stats = facts[c].stats
      BY <1>1, <2>2, <2>4, PinnedNow
    <3>2. keepsStats(c)
      BY <2>1, <2>4, <3>1 DEF keepsStats, early
    <3>. QED  BY <3>2, StatsStay
  <2>5. CASE product = "usdm_futures" /\ Continue(c, "market") /\ Pin(c, k)
    <3>1. ~early(pc'[c])
      BY <1>3, <2>5 DEF Continue, early
    <3>. QED  BY <2>1, <2>2, <2>5, <3>1, PinsFreshStats
  <2>. QED  BY <2>1, <2>3, <2>4, <2>5
<1>13. CASE ReadSnapshot(c)
  <2>. DEFINE h == collect[c]
              loss == spotReplay(h).loss
              g(p) == [facts[c] EXCEPT !.stats = calculateDailyStats(h, loss),
                                       !.portfolio = portfolioNow(c, facts[c].asked, p),
                                       !.asked = clock]
  <2>1. /\ pc[c] = "snapshot" /\ reading(c)
        /\ UNCHANGED <<product, clock, account, collect>>
        /\ \/ Unavailable(c) /\ UNCHANGED facts
           \/ Continue(c, "market") /\ \E p \in Price : Pin(c, g(p))
    BY <1>13 DEF ReadSnapshot, reading
  <2>2. h.step = "done"
    BY <1>1, <2>1 DEF DecisionInv, CallOK, ReadingOK
  <2>3. product = "spot"
    BY <1>1, <2>1 DEF StatsOK
  <2>4. CASE Unavailable(c) /\ UNCHANGED facts
    BY <1>8, <2>1, <2>4 DEF Unavailable
  <2>5. CASE Continue(c, "market") /\ \E p \in Price : Pin(c, g(p))
    <3>1. PICK p \in Price : Pin(c, g(p))
      BY <2>5
    <3>2. g(p).stats = calculateDailyStats(h, loss)
      BY <1>1 DEF EvaluationTypes, Pinned
    <3>3. ~early(pc'[c])
      BY <1>3, <2>5 DEF Continue, early
    <3>. HIDE DEF g, loss
    <3>4. loss = IF product = "spot" THEN spotReplay(h).loss ELSE futuresLoss(h)
      BY <2>3 DEF loss
    <3>. QED  BY <2>1, <2>2, <3>1, <3>2, <3>3, <3>4, PinsFreshStats
  <2>. QED  BY <2>1, <2>4, <2>5
<1>14. CASE ReadMarket(c)
  <2>. DEFINE g(p, stamp) == [facts[c] EXCEPT !.market = [price |-> p, stamp |-> stamp]]
  <2>1. PICK p \in Price, stamp \in facts[c].asked..clock :
          \/ Unavailable(c) /\ UNCHANGED facts
          \/ Continue(c, "portfolio") /\ Pin(c, [g(p, stamp) EXCEPT !.asked = clock])
          \/ Pin(c, g(p, stamp)) /\ Judge(c, intent[c], verdict[c], g(p, stamp), collect[c].last)
    BY <1>14 DEF ReadMarket
  <2>2. UNCHANGED collect
    BY <1>14 DEF ReadMarket
  <2>3. /\ g(p, stamp).stats = facts[c].stats
        /\ [g(p, stamp) EXCEPT !.asked = clock].stats = facts[c].stats
    BY <1>1 DEF EvaluationTypes, Pinned
  <2>. DEFINE k == [g(p, stamp) EXCEPT !.asked = clock]
  <2>. HIDE DEF g, k
  <2>4. facts'[c].stats = facts[c].stats
    <3>1. CASE Pin(c, g(p, stamp))
      BY <1>1, <2>3, <3>1, PinnedNow
    <3>2. CASE Pin(c, k)
      BY <1>1, <2>3, <3>2, PinnedNow DEF k
    <3>. QED  BY <2>1, <3>1, <3>2 DEF k
  <2>5. ~early(pc'[c])
    BY <1>3, <1>4, <1>5, <2>1 DEF Unavailable, Continue, early
  <2>6. keepsStats(c)
    BY <2>2, <2>4, <2>5 DEF keepsStats, early
  <2>. QED  BY <2>6, StatsStay
<1>15. CASE ReadPortfolio(c)
  <2>. DEFINE g(p) == [facts[c] EXCEPT !.portfolio = portfolioNow(c, facts[c].asked, p)]
  <2>1. UNCHANGED collect /\ \E p \in Price :
          \/ Unavailable(c) /\ UNCHANGED facts
          \/ Pin(c, g(p)) /\ Judge(c, intent[c], verdict[c], g(p), collect[c].last)
    BY <1>15 DEF ReadPortfolio
  <2>2. ASSUME NEW p PROVE g(p).stats = facts[c].stats
    BY <1>1 DEF EvaluationTypes, Pinned
  <2>. HIDE DEF g
  <2>3. facts'[c].stats = facts[c].stats
    BY <1>1, <2>1, <2>2, PinnedNow
  <2>4. ~early(pc'[c])
    BY <1>4, <1>5, <2>1 DEF Unavailable
  <2>5. keepsStats(c)
    BY <2>1, <2>3, <2>4 DEF keepsStats, early
  <2>. QED  BY <2>5, StatsStay
<1>. QED  BY <1>6, <1>7, <1>9, <1>10, <1>11, <1>12, <1>13, <1>14, <1>15 DEF Evaluate

LEMMA RealBegins == Init => RealInv
<1>. SUFFICES ASSUME Init PROVE RealInv
  OBVIOUS
<1>1. DecisionInv /\ BooksOK
  BY DecisionBegins, BooksBegin DEF Init
<1>2. ASSUME NEW c \in Call PROVE StatsOK(c)
  BY DEF Init, NoFacts, StatsOK
<1>. QED  BY <1>1, <1>2 DEF RealInv

LEMMA RealStep ==
  ASSUME RealInv, [Next]_vars
  PROVE  RealInv'
<1>1. DecisionInv /\ DecisionInv' /\ BooksOK'
  BY DecisionStep, AccountGrows DEF RealInv
<1>2. ASSUME NEW d \in Call PROVE StatsOK(d)'
  <2>1. CASE \E c \in Call : \/ \E r \in Requests : Begin(c, r.intent, r.verdict)
                            \/ Evaluate(c) \/ RequestFails(c) \/ PlaceOrder(c)
    <3>1. PICK c \in Call : \/ \E r \in Requests : Begin(c, r.intent, r.verdict)
                            \/ Evaluate(c) \/ RequestFails(c) \/ PlaceOrder(c)
      BY <2>1
    <3>2. CASE d = c
      BY <3>1, <3>2, OwnStats
    <3>3. CASE d # c
      <4>1. keepsStats(d)
        BY <1>1, <3>1, <3>3, OthersKeep
      <4>. QED  BY <4>1, StatsStay
    <3>. QED  BY <3>2, <3>3
  <2>2. CASE Environment \/ UNCHANGED vars
    <3>1. UNCHANGED <<pc, facts, collect>>
      BY <2>2 DEF Environment, evaluation, vars, OwnerOrders, Fill, Tick
    <3>2. keepsStats(d)
      BY <3>1 DEF keepsStats
    <3>. QED  BY <3>2, StatsStay
  <2>. QED  BY <2>1, <2>2 DEF Next
<1>. QED  BY <1>1, <1>2 DEF RealInv

\* What holds of an order c that passes.
WithinTheDay(c) ==
  LET cutoff == collect[c].cutoff IN
  /\ SumFunctionOnSet(prices, settled(fills, cutoff)) + intent[c].notional
       <= Limits.dailyNotional
  /\ Cardinality(settled(orders, cutoff)) < Limits.ordersPerDay
  /\ SumFunctionOnSet(losses, settled(fills, cutoff)) <= Limits.dailyLoss
  /\ \A k \in DOMAIN orders :
       orders[k].time < cutoff => clock - orders[k].time >= Limits.orderInterval

LEMMA PassesWithin ==
  ASSUME RealInv, [Next]_vars, NEW c \in Call, passes(c)
  PROVE  WithinTheDay(c)
<1>. DEFINE h == collect[c]
            cutoff == h.cutoff
            stats == facts[c].stats
            now == clock
            last == h.last
<1>1. DecisionInv /\ StatsOK(c) /\ HistoryInv /\ HistoryTypeOK /\ Chronicle(orders, fills, clock)
  BY DEF RealInv, DecisionInv, HistoryInv
<1>2. Passing(c)
  BY <1>1, OnlyOnFacts
<1>3. reading(c) /\ isOrder(c) /\ h.step = "done" /\ h # Null
  BY <1>1, <1>2 DEF Passing, DecisionInv, CallOK, ReadingOK
<1>4. h \in Collection /\ cutoff \in Nat /\ last \in Int /\ now \in Nat
  BY <1>1, <1>3, ItsCollection DEF Sound, Collection
<1>5. intent[c].notional \in Nat
  <2>1. PICK r \in Requests : intent[c] = r.intent
    BY <1>1, <1>3 DEF DecisionInv, CallOK, requested, reading
  <2>. QED  BY <1>3, <2>1, RequestsAssumption DEF isOrder
<1>6. /\ stats # NoFact /\ stats.notional + intent[c].notional <= Limits.dailyNotional
      /\ stats.loss <= Limits.dailyLoss /\ stats.orders + 1 <= Limits.ordersPerDay
      /\ last # Never => last <= now /\ now - last >= Limits.orderInterval
  BY <1>2, <1>3, PassedOrder DEF Passing, isOrder
<1>7. RealStats(stats, cutoff) /\ stats \in Stats
  BY <1>1, <1>6 DEF StatsOK, DecisionInv, EvaluationTypes, Pinned
<1>8. /\ Limits.dailyNotional \in Nat /\ Limits.dailyLoss \in Nat
      /\ Limits.ordersPerDay \in Nat /\ Limits.orderInterval \in Nat
  BY LimitsAssumption
<1>9. /\ SumFunctionOnSet(prices, settled(fills, cutoff)) \in Nat
      /\ SumFunctionOnSet(losses, settled(fills, cutoff)) \in Nat
      /\ Cardinality(settled(orders, cutoff)) \in Nat
  <2>1. /\ settled(fills, cutoff) \subseteq DOMAIN fills
        /\ settled(orders, cutoff) \subseteq DOMAIN orders
    BY DEF settled, todays
  <2>2. /\ IsFiniteSet(settled(fills, cutoff)) /\ IsFiniteSet(settled(orders, cutoff))
        /\ \A k \in settled(fills, cutoff) : prices[k] \in Nat /\ losses[k] \in Nat
    BY <1>1, <2>1, AmountTypes, FS_Subset
  <2>. QED  BY <2>2, SumGrows, FS_CardinalityType
<1>10. ASSUME NEW k \in DOMAIN orders, orders[k].time < cutoff
       PROVE  now - orders[k].time >= Limits.orderInterval
  <2>1. orders[k].time <= last
    BY <1>1, <1>3, <1>10, LatestOfAll
  <2>2. orders[k].time \in Nat
    BY <1>1, Rows
  <2>. DEFINE t == orders[k].time
  <2>. HIDE DEF t, last, now
  <2>3. last # Never /\ last <= now /\ now - last >= Limits.orderInterval
    BY <1>4, <1>6, <2>1, <2>2 DEF Never, t
  <2>. QED  BY <1>4, <1>8, <2>1, <2>2, <2>3 DEF t
<1>. DEFINE n == SumFunctionOnSet(prices, settled(fills, cutoff))
            l == SumFunctionOnSet(losses, settled(fills, cutoff))
            o == Cardinality(settled(orders, cutoff))
<1>11. /\ n <= stats.notional /\ l <= stats.loss /\ o <= stats.orders
       /\ stats.notional \in Nat /\ stats.loss \in Nat /\ stats.orders \in Nat
  BY <1>7 DEF RealStats, between, Stats
<1>. HIDE DEF n, l, o, stats
<1>12. /\ n + intent[c].notional <= Limits.dailyNotional /\ l <= Limits.dailyLoss
       /\ o < Limits.ordersPerDay
  BY <1>5, <1>6, <1>8, <1>9, <1>11 DEF n, l, o
<1>. QED  BY <1>10, <1>12 DEF WithinTheDay, n, l, o

-----------------------------------------------------------------------------
(***************************************************************************)
(* The theorems.                                                           *)
(***************************************************************************)
\* The collections of the account and the evaluations that read them stay
\* consistent, whatever is traded and however the requests are answered.
THEOREM DecisionInvariant == Spec => []DecisionInv
<1>1. Init => DecisionInv
  BY DecisionBegins
<1>2. DecisionInv /\ [Next]_vars => DecisionInv'
  BY DecisionStep
<1>. QED  BY <1>1, <1>2, PTL DEF Spec

\* getRiskHistory (rest-client.ts): a collection that has ended is complete and
\* without duplicates, however the pages fell and whatever was traded
\* meanwhile, for accounts, pages and days of any size.
THEOREM HistoriesAreComplete == Spec => []HistoryIsComplete
<1>1. DecisionInv => HistoryIsComplete
  BY CompleteWhenDone DEF DecisionInv
<1>. QED  BY <1>1, DecisionInvariant, PTL

\* main.rego and opa-transform.ts agree: no answer of the policy is refused for
\* lack of evidence, and a denial names a rule.
THEOREM PolicyAlwaysUnderstood == Spec => []PolicyIsUnderstood
<1>1. PolicyIsUnderstood
  BY Understood, Decisions DEF PolicyIsUnderstood
<1>. QED  BY <1>1, PTL

\* docs/threat-model.md, "Automatic Execution Envelope", for every policy.json
\* and every intent, though one field of OPA's answer be wrong.
THEOREM AutomaticInsideTheEnvelope == Spec => []AutomaticInsideEnvelope
<1>1. DecisionInv => AutomaticInsideEnvelope
  BY DEF DecisionInv, CallOK, OutcomeOK, Envelope, AutomaticInsideEnvelope
<1>. QED  BY <1>1, DecisionInvariant, PTL

\* The variables of an evaluation, and of the account it reads, keep their types.
THEOREM DecisionTypeCorrect == Spec => []TypeOK
<1>1. DecisionInv => TypeOK
  <2>. SUFFICES ASSUME DecisionInv PROVE TypeOK
    OBVIOUS
  <2>1. HistoryTypeOK /\ EvaluationTypes /\ clock \in Nat
    BY Rows DEF DecisionInv, HistoryInv
  <2>2. ASSUME NEW c \in Call
        PROVE  /\ pc[c] # "idle" => \E r \in Requests : intent[c] = r.intent /\ verdict[c] = r.verdict
               /\ facts[c].stats = NoFact \/ facts[c].stats \in Stats
               /\ facts[c].market = NoFact \/ facts[c].market \in Market
               /\ facts[c].portfolio = NoFact \/ facts[c].portfolio \in Portfolio
               /\ facts[c].asked \in 0..clock
    <3>1. CallOK(c) /\ facts[c] \in Pinned
      BY <2>1 DEF DecisionInv, EvaluationTypes
    <3>2. facts[c].asked \in 0..clock
      BY <2>1, <3>1 DEF CallOK, Pinned
    <3>. QED  BY <3>1, <3>2 DEF CallOK, requested, Pinned
  <2>. QED  BY <2>1, <2>2 DEF TypeOK, EvaluationTypes
<1>. QED  BY <1>1, DecisionInvariant, PTL

\* BinanceRiskDataProvider asserts its pinned history after every await and the
\* engine judges at that instant: nothing passes on yesterday's statistics or on
\* a fact that grew old while another was read.
THEOREM PassesOnlyCurrent == Spec => PassesOnCurrentFacts
<1>1. DecisionInv /\ [Next]_vars =>
        [\A c \in Call :
           passes(c) =>
             LET f == facts'[c] IN
             /\ day(clock) = day(collect[c].cutoff)
             /\ clock - collect[c].cutoff <= MAX_COLLECTION_AGE
             /\ fresh(f.market.stamp, clock, Limits.marketAge)
             /\ fresh(f.portfolio.stamp, clock, Limits.portfolioAge)]_vars
  BY PassesOnFacts DEF CurrentFacts
<1>. QED  BY <1>1, DecisionInvariant, PTL DEF PassesOnCurrentFacts, Spec

\* The statistics of an evaluation, and the books they are of, stay real,
\* whatever is traded meanwhile.
THEOREM RealInvariant == Spec => []RealInv
<1>1. Init => RealInv
  BY RealBegins
<1>2. RealInv /\ [Next]_vars => RealInv'
  BY RealStep
<1>. QED  BY <1>1, <1>2, PTL DEF Spec

\* calculateDailyStats and spotLoss (risk-provider.ts): what is compared with the
\* limits lies between what the exchange itself recorded of the day before the
\* cutoff and what it recorded up to it, for histories of any length.
THEOREM StatsAlwaysReal == Spec => []StatsAreReal
<1>1. RealInv => StatsAreReal
  BY DEF RealInv, StatsOK, RealStats, StatsAreReal
<1>. QED  BY <1>1, RealInvariant, PTL

\* What passes the risk engine would have kept the day within its limits at the
\* cutoff of its history, and comes the interval after every order before it.
THEOREM PassesInsideTheDay == Spec => PassesWithinTheDay
<1>1. RealInv /\ [Next]_vars =>
        [\A c \in Call :
           passes(c) =>
             LET cutoff == collect[c].cutoff IN
             /\ SumFunctionOnSet(prices, settled(fills, cutoff)) + intent[c].notional
                  <= Limits.dailyNotional
             /\ Cardinality(settled(orders, cutoff)) < Limits.ordersPerDay
             /\ SumFunctionOnSet(losses, settled(fills, cutoff)) <= Limits.dailyLoss
             /\ \A k \in DOMAIN orders :
                  orders[k].time < cutoff => clock - orders[k].time >= Limits.orderInterval]_vars
  BY PassesWithin DEF WithinTheDay
<1>. QED  BY <1>1, RealInvariant, PTL DEF PassesWithinTheDay, Spec
=============================================================================
