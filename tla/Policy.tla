-------------------------------- MODULE Policy --------------------------------
(***************************************************************************)
(* The policy: the Rego rules of packages/policy/src, the facts            *)
(* GuardrailService hands them and transformOpaOutput, which reads their   *)
(* answer.  A reason is the name of its rule.  A rule of Rego one of whose *)
(* inputs is undefined does not fire: undefined is Absent here, and a      *)
(* field OPA's document lacks is not in its domain.                        *)
(***************************************************************************)
EXTENDS Integers

CONSTANTS
  Rules,      \* data.policy.allowlists.rules, the "allow" entries
  Contracts,  \* data.policy.allowlists.ethereum_contracts
  Programs,   \* data.policy.allowlists.solana_programs
  Bounds,     \* data.policy.limits of each environment
  ServiceCap, \* approvalCapForEnvironment: the cap per environment, or Absent
  Unlimited,  \* 2^256 - 1
  Absent      \* undefined

above(x, limit) == x # Absent /\ limit # Absent /\ x > limit

-----------------------------------------------------------------------------
(***************************************************************************)
(* tokenApprovalFacts.  i.calldata is the amount in the calldata of an     *)
(* approve, Absent when the calldata is malformed, and i.metadata is what  *)
(* maxTokenApprovalAmount is: a "decimal" and its amount, "unlimited",     *)
(* another "alias" of that, "garbage" or "none".                           *)
(***************************************************************************)
parseApprovalMetadata(value) ==
  CASE value.kind \in {"unlimited", "alias"} -> Unlimited
    [] value.kind = "decimal" /\ value.amount <= Unlimited -> value.amount
    [] OTHER -> Absent

tokenApprovalFacts(i) ==
  LET metadata == parseApprovalMetadata(i.metadata)
      calldata == IF i.approves THEN i.calldata ELSE Absent
      amount   == IF calldata # Absent THEN calldata ELSE metadata
      is == /\ i.action = "onchain.request_signature" /\ i.chain = "ethereum"
            /\ i.approves \/ metadata # Absent
  IN [is        |-> is,
      amount    |-> IF is THEN amount ELSE Absent,
      missing   |-> is /\ (metadata = Absent \/ (i.approves /\ calldata = Absent)),
      unlimited |-> is /\ Unlimited \in {calldata, metadata},
      exceeds   |-> is /\ above(amount, ServiceCap[i.environment])]

\* The policy input of an intent: what it says, the verdict of the reviewer
\* and, for an order, the statistics of the day.
projectedDailyNotionalUsd(i, stats) ==
  IF i.action = "cex.place_order" /\ stats # Absent THEN stats.notional + i.notional
  ELSE Absent

policyInput(i, verdict, stats) ==
  [intent    |-> i,
   verdict   |-> verdict.verdict,
   risk      |-> verdict.risk,
   projected |-> projectedDailyNotionalUsd(i, stats),
   loss      |-> IF stats = Absent THEN Absent ELSE stats.loss,
   approval  |-> tokenApprovalFacts(i)]

-----------------------------------------------------------------------------
(***************************************************************************)
(* rules/deny.rego.                                                        *)
(***************************************************************************)
signs(i, chain) == i.action = "onchain.request_signature" /\ i.chain = chain

supportedPair(i) ==
  \/ i.chain = "ethereum" /\ i.chainEnvironment \in {"sepolia", "mainnet"}
  \/ i.chain = "solana" /\ i.chainEnvironment \in {"devnet", "mainnet"}

\* tokenApprovalFacts sets every flag of an approval, so that the rule
\* token_approval_facts_missing never fires on the input of the service.
approvalDenied(i, a) ==
  LET bound == Bounds[i.environment].approvalCap
      allowed == IF i.metadata.kind = "decimal" THEN i.metadata.amount ELSE Absent
  IN (IF i.metadata.kind = "unlimited" \/ allowed = Unlimited \/ a.unlimited
      THEN {"unlimited_approval_denied"} ELSE {})
     \cup IF ~a.is THEN {}
          ELSE {r \in {"token_approval_amount_missing", "token_approval_amount_invalid",
                       "token_approval_metadata_invalid", "token_approval_cap_exceeded",
                       "token_approval_amount_exceeds_metadata"} :
                  CASE r = "token_approval_amount_missing" -> a.missing
                    [] r = "token_approval_amount_invalid" -> a.amount = Absent
                    [] r = "token_approval_metadata_invalid" -> allowed = Absent
                    [] r = "token_approval_cap_exceeded" -> a.exceeds \/ above(a.amount, bound)
                    [] OTHER -> above(a.amount, allowed)}

signingDenied(i) ==
  {r \in {"unsupported_chain_environment_pair", "mainnet_requires_live_environment",
          "unknown_contract_denied", "unknown_program_denied",
          "solana_authority_change_denied", "solana_instruction_type_unknown"} :
     CASE r = "unsupported_chain_environment_pair" ->
            /\ i.action \in {"onchain.request_signature", "onchain.simulate_transaction"}
            /\ ~supportedPair(i)
       [] r = "mainnet_requires_live_environment" ->
            /\ i.action = "onchain.request_signature" /\ i.chainEnvironment = "mainnet"
            /\ i.environment \notin {"canary_live", "production"}
       [] r = "unknown_contract_denied" -> signs(i, "ethereum") /\ i.contract \notin Contracts
       [] r = "unknown_program_denied" -> signs(i, "solana") /\ i.program \notin Programs
       [] r = "solana_authority_change_denied" ->
            signs(i, "solana") /\ i.instruction = "setAuthority"
       [] OTHER -> signs(i, "solana") /\ i.instruction \notin {"transfer", "setAuthority"}}

accountDenied(i) ==
  {r \in {"withdrawal_denied", "account_transfer_denied", "spot_margin_denied",
          "coinm_futures_denied", "leverage_cap_exceeded", "futures_cross_margin_denied"} :
     CASE r = "withdrawal_denied" -> i.action = "cex.withdraw"
       [] r = "account_transfer_denied" -> i.action = "cex.account_transfer"
       [] r = "spot_margin_denied" -> i.accountMode \in {"margin", "cross_margin"}
       [] r = "coinm_futures_denied" -> i.accountMode = "coinm_futures"
       [] r = "leverage_cap_exceeded" ->
            /\ i.accountMode = "usdm_futures"
            /\ above(i.leverage, Bounds[i.environment].maxLeverage)
       [] OTHER -> i.accountMode = "usdm_futures" /\ ~i.isolated}

hard_deny_reasons(f) ==
  accountDenied(f.intent) \cup signingDenied(f.intent) \cup approvalDenied(f.intent, f.approval)

-----------------------------------------------------------------------------
(***************************************************************************)
(* rules/allowlist.rego.  An entry names a principal and an action, or any,*)
(* and the resources its pattern covers; a condition it does not set is    *)
(* met.                                                                    *)
(***************************************************************************)
any(field, value) == field \in {"*", value}

environment_ok(e, i) == e.environment \in {Absent, i.environment}

account_mode_ok(e, i) == e.accountMode \in {Absent, i.accountMode}

notional_ok(e, i) ==
  e.maxNotional = Absent \/ (i.notional # Absent /\ i.notional <= e.maxNotional)

leverage_ok(e, i) ==
  e.maxLeverage = Absent
  \/ IF i.leverage = Absent THEN e.maxLeverage >= 1 ELSE i.leverage <= e.maxLeverage

concerns(e, i) ==
  /\ any(e.principal, i.principal) /\ any(e.action, i.action)
  /\ i.resource \in e.resources
  /\ environment_ok(e, i) /\ account_mode_ok(e, i)
  /\ notional_ok(e, i) /\ leverage_ok(e, i)

\* requiresHumanApproval is TRUE, FALSE or not set; only TRUE asks for a human.
human_approval_ok(e) == e.human \in {Absent, FALSE}

allow_reasons(f) ==
  {e.name : e \in {e \in Rules : concerns(e, f.intent) /\ human_approval_ok(e)}}

-----------------------------------------------------------------------------
(***************************************************************************)
(* rules/escalation.rego.                                                  *)
(***************************************************************************)
daily_notional_limit(i) ==
  LET bounds == Bounds[i.environment] IN
  IF i.accountMode = "usdm_futures" /\ bounds.futuresDaily # Absent
  THEN bounds.futuresDaily ELSE bounds.autoDaily

\* Mutant: an intent no entry matches is left to the default decision.
EscalationsOfMatched(f) ==
  {r \in {"reviewer_not_approved", "reviewer_risk_not_low"} :
     \/ r = "reviewer_not_approved" /\ f.verdict # "approve"
     \/ r = "reviewer_risk_not_low" /\ f.risk # "low"}

escalation_reasons(f) ==
  LET i == f.intent
      bounds == Bounds[i.environment]
  IN {r \in {"reviewer_not_approved", "reviewer_risk_not_low", "mainnet_signing_requires_human",
             "notional_above_auto_threshold", "daily_notional_above_threshold",
             "daily_loss_above_threshold", "futures_leverage_escalation",
             "no_matching_allowlist", "requires_human_by_policy"} :
        CASE r = "reviewer_not_approved" -> f.verdict # "approve"
          [] r = "reviewer_risk_not_low" -> f.risk # "low"
          [] r = "mainnet_signing_requires_human" ->
               i.action = "onchain.request_signature" /\ i.chainEnvironment = "mainnet"
          [] r = "notional_above_auto_threshold" -> above(i.notional, bounds.auto)
          [] r = "daily_notional_above_threshold" ->
               i.action = "cex.place_order" /\ above(f.projected, daily_notional_limit(i))
          [] r = "daily_loss_above_threshold" ->
               i.action = "cex.place_order" /\ above(f.loss, bounds.autoLoss)
          [] r = "futures_leverage_escalation" ->
               /\ i.accountMode = "usdm_futures"
               /\ above(i.leverage, bounds.defaultLeverage)
               /\ i.leverage <= bounds.maxLeverage
          [] r = "no_matching_allowlist" -> allow_reasons(f) = {}
          [] OTHER -> \E e \in Rules : concerns(e, i) /\ e.human = TRUE}

-----------------------------------------------------------------------------
(***************************************************************************)
(* main.rego, and the document OPA returns of it.                          *)
(***************************************************************************)
decision(f) ==
  CASE hard_deny_reasons(f) # {} -> "deny"
    [] hard_deny_reasons(f) = {} /\ escalation_reasons(f) # {} -> "needs_human"
    [] /\ hard_deny_reasons(f) = {} /\ escalation_reasons(f) = {}
       /\ allow_reasons(f) # {} /\ f.verdict = "approve" /\ f.risk = "low" -> "allow"
    [] OTHER -> "deny"

all_deny_reasons(f) ==
  hard_deny_reasons(f)
  \cup IF decision(f) = "deny" /\ hard_deny_reasons(f) = {} THEN {"default_deny"} ELSE {}

Document(f) ==
  [decision    |-> decision(f),
   reasons     |-> CASE decision(f) = "deny" -> all_deny_reasons(f)
                     [] decision(f) = "needs_human" -> escalation_reasons(f)
                     [] OTHER -> allow_reasons(f),
   hardDeny    |-> hard_deny_reasons(f),
   escalations |-> escalation_reasons(f),
   human       |-> decision(f) = "needs_human",
   allowRules  |-> allow_reasons(f),
   denyRules   |-> all_deny_reasons(f)]

-----------------------------------------------------------------------------
(***************************************************************************)
(* transformOpaOutput: "threw", or the decision of a document whose        *)
(* evidence agrees with it.  The reasons may be left to the evidence.      *)
(***************************************************************************)
\* Mutant: the decision is taken without its evidence.
DecisionAlone(raw) == IF "decision" \in DOMAIN raw THEN raw.decision ELSE "threw"

transformOpaOutput(raw) ==
  LET optional(field) == IF field \in DOMAIN raw THEN raw[field] ELSE {}
      hardDeny == optional("hardDeny")
      escalations == optional("escalations")
      reasons == IF "reasons" \in DOMAIN raw THEN raw.reasons ELSE hardDeny \cup escalations
      wellFormed ==
        /\ {"decision", "human", "allowRules", "denyRules"} \subseteq DOMAIN raw
        /\ DOMAIN raw \cap {"reasons", "hardDeny", "escalations"} # {}
        /\ raw.human <=> raw.decision = "needs_human"
      evidence ==
        CASE raw.decision = "allow" ->
               /\ hardDeny = {} /\ raw.denyRules = {} /\ escalations = {}
               /\ reasons # {} /\ reasons \subseteq raw.allowRules
          [] raw.decision = "needs_human" ->
               /\ hardDeny = {} /\ raw.denyRules = {}
               /\ reasons # {}
               /\ escalations # {} => reasons = escalations
          [] raw.decision = "deny" ->
               reasons # {} /\ (hardDeny # {} => reasons = hardDeny)
          [] OTHER -> FALSE
  IN IF wellFormed /\ evidence THEN raw.decision ELSE "threw"
===============================================================================
