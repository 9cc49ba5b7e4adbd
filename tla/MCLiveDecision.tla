---------------------------- MODULE MCLiveDecision ----------------------------
(***************************************************************************)
(* One evaluation over an account of one or two symbols that its owner     *)
(* also trades: a day of four ticks, pages of two rows, and accounts that  *)
(* bought before.  The intents are an order, its variants, and signatures; *)
(* OPA may return the document of the policy with one field wrong.         *)
(***************************************************************************)
EXTENDS LiveDecision
CONSTANTS one, coin, token, contract, program, home, away

MCHistorySymbols == <<coin, token>>

MCGains == {-3, 3}

Bought(symbol, price, time) == [symbol |-> symbol, side |-> "BUY", price |-> price, time |-> time]

\* An account that made these purchases, each filled at once.
Past(p, at, made) ==
  [product |-> p, clock |-> at, orders |-> made,
   fills |-> [k \in DOMAIN made |-> [order |-> k, time |-> made[k].time, gain |-> 0]],
   lots |-> [s \in ToSet(historySymbols) |->
     LET ks == {k \in DOMAIN made : made[k].symbol = s} IN
     [quantity |-> Cardinality(ks),
      cost |-> IF p = "spot" THEN MapThenSumSet(LAMBDA k : made[k].price, ks) ELSE 0]]]

MCHistories ==
  {Past(p, 7, <<Bought(coin, 12, 1), Bought(coin, 12, 5), Bought(coin, 6, 6)>>)
     : p \in {"spot", "usdm_futures"}}
  \cup {Past("usdm_futures", 7, <<Bought(coin, 6, 4), Bought(coin, 6, 5), Bought(token, 6, 5)>>),
        Past("usdm_futures", 7, <<Bought(token, 6, 1), Bought(coin, 6, 5), Bought(coin, 6, 5)>>)}

MCLimits ==
  [marketAge |-> 1, portfolioAge |-> 1, notional |-> 12, dailyNotional |-> 24, dailyLoss |-> 2,
   slippageBps |-> 50, priceBandBps |-> 1000, positionDeltaPct |-> 100, orderInterval |-> 1,
   ordersPerDay |-> 3]

None == [kind |-> "none", amount |-> 0]

Buy(mode) ==
  [action |-> "cex.place_order", principal |-> "agent", resource |-> "cex:main:coin",
   environment |-> "canary_live", account |-> home, accountMode |-> mode,
   isolated |-> TRUE, leverage |-> 1, symbol |-> coin, side |-> "BUY", price |-> 6,
   notional |-> 6, slippageBps |-> 10, evidence |-> TRUE,
   chain |-> Absent, chainEnvironment |-> Absent, contract |-> Absent, program |-> Absent,
   instruction |-> Absent, approves |-> FALSE, calldata |-> Absent, metadata |-> None]

Sign ==
  [Buy("none") EXCEPT
     !.action = "onchain.request_signature", !.resource = "onchain:ethereum:sepolia",
     !.notional = Absent, !.leverage = Absent, !.chain = "ethereum",
     !.chainEnvironment = "sepolia", !.contract = contract,
     !.approves = TRUE, !.calldata = 1, !.metadata = [kind |-> "decimal", amount |-> 1]]

SolanaSign ==
  [Sign EXCEPT !.resource = "onchain:solana:devnet", !.chain = "solana",
     !.chainEnvironment = "devnet", !.contract = Absent, !.program = program,
     !.instruction = "transfer", !.approves = FALSE, !.calldata = Absent, !.metadata = None]

Orders(m) ==
  {Buy(m), [Buy(m) EXCEPT !.side = "SELL", !.price = 12, !.notional = 12],
   [Buy(m) EXCEPT !.leverage = 2, !.symbol = token]}

Foreign == {[Buy("spot") EXCEPT !.account = away], [Buy("usdm_futures") EXCEPT !.accountMode = "margin"],
            [Buy("spot") EXCEPT !.symbol = away], [Buy("usdm_futures") EXCEPT !.symbol = away]}

Signatures ==
  {[Sign EXCEPT !.approves = a, !.calldata = n, !.metadata = m] :
     a \in BOOLEAN, n \in {1, 2, 3, Absent},
     m \in [kind : {"decimal"}, amount : 1..4] \cup [kind : {"unlimited", "alias", "garbage", "none"}, amount : {0}]}
  \cup {[Sign EXCEPT !.contract = away], [Sign EXCEPT !.resource = "onchain:ethereum:mainnet"], [Sign EXCEPT !.chainEnvironment = "devnet"],
        [Sign EXCEPT !.chainEnvironment = "mainnet"], SolanaSign,
        [SolanaSign EXCEPT !.program = away], [SolanaSign EXCEPT !.instruction = "setAuthority"],
        [SolanaSign EXCEPT !.instruction = "unknown"], [Buy("none") EXCEPT !.action = "cex.withdraw"]}

Verdict(v, r) == [verdict |-> v, risk |-> r, sameIntent |-> TRUE, issues |-> v = "reject"]

MCRequests ==
  [intent : Orders("spot") \cup Orders("usdm_futures") \cup Foreign \cup Signatures,
   verdict : {Verdict("approve", "low")}]
  \cup [intent : {Sign, SolanaSign},
         verdict : {Verdict(v, r) : v \in {"approve", "reject"}, r \in {"low", "high"}}
                   \cup {[Verdict("approve", "low") EXCEPT !.issues = TRUE]}]

Entry(name, action, resources) ==
  [name |-> name, principal |-> "*", action |-> action, resources |-> resources,
   environment |-> "canary_live", accountMode |-> Absent, maxNotional |-> Absent,
   maxLeverage |-> Absent, human |-> FALSE]

MCRules ==
  {[Entry("orders", "cex.place_order", {"cex:main:coin"})
      EXCEPT !.principal = "agent", !.maxNotional = 12, !.maxLeverage = 2],
   [Entry("sales", "cex.place_order", {"cex:main:coin"})
      EXCEPT !.accountMode = "usdm_futures", !.human = TRUE, !.maxLeverage = 1],
   [Entry("signatures", "onchain.request_signature",
          {"onchain:ethereum:sepolia", "onchain:solana:devnet"}) EXCEPT !.human = Absent]}

MCBounds ==
  [e \in {"canary_live"} |->
     [auto |-> 10, autoDaily |-> 18, futuresDaily |-> 12, autoLoss |-> 1,
      maxLeverage |-> 2, defaultLeverage |-> 1, approvalCap |-> 2]]

MCServiceCap == [e \in {"canary_live"} |-> 2]

SomeRules == {{}, {"orders"}, {"signatures"}}

MCGarbled ==
  [decision |-> {"allow", "needs_human", "deny"}, human |-> BOOLEAN, reasons |-> SomeRules,
   hardDeny |-> SomeRules, escalations |-> SomeRules, allowRules |-> SomeRules,
   denyRules |-> SomeRules]
===============================================================================
