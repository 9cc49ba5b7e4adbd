------------------------------ MODULE MCOnchain ------------------------------
(***************************************************************************)
(* A token transfer, an approval and calls that the connectors refuse, on   *)
(* blocks and slots where the same transaction does different things.      *)
(***************************************************************************)
EXTENDS OnchainConnector, TLC

CONSTANTS us, them, usd, stranger, usdc, payer, vault

MCStatePlace ==
  {<<"eth", a>> : a \in Account}
  \cup {<<"balance", usd, a>> : a \in Account}
  \cup {<<"allowance", usd, us, them>>, <<"supply", usd>>, <<"code", stranger>>}

\* The state before, and what a plain transfer of one leaves.
Start ==
  [p \in MCStatePlace |-> CASE p[1] = "eth" -> 3 [] p = <<"balance", usd, us>> -> 3 [] OTHER -> 0]
Moved(s, n) == [s EXCEPT ![<<"balance", usd, us>>] = @ - n, ![<<"balance", usd, them>>] = @ + n]
Richer == [Start EXCEPT ![<<"balance", usd, them>>] = 1]

MCFork ==
  {"transfer", "double", "richer", "fee", "code", "ether", "reverts", "elsewhere", "approve"}

MCpre == [f \in MCFork |-> IF f = "richer" THEN Richer ELSE Start]
MCpost ==
  [f \in MCFork |->
     CASE f \in {"transfer", "elsewhere"} -> Moved(Start, 1)
       [] f = "double" -> Moved(Start, 2)
       [] f = "richer" -> Moved(Richer, 1)
       [] f = "fee" -> [Moved(Start, 1) EXCEPT ![<<"balance", usd, us>>] = @ - 1,
                                               ![<<"balance", usd, stranger>>] = @ + 1]
       [] f = "code" -> [Moved(Start, 1) EXCEPT ![<<"code", stranger>>] = 1]
       [] f = "ether" -> [Moved(Start, 1) EXCEPT ![<<"eth", us>>] = @ - 1, ![<<"eth", stranger>>] = @ + 1]
       [] f = "reverts" -> Start
       [] f = "approve" -> [Start EXCEPT ![<<"allowance", usd, us, them>>] = 1]]
MCbalanceOfReads ==
  [f \in MCFork |-> [x \in Token \X Account |->
     IF f = "elsewhere" /\ x[2] = them THEN <<"supply", usd>>
     ELSE <<"balance", x[1], x[2]>>]]

Of(h, a, lo, hi) == [holder |-> h, asset |-> a, min |-> lo, max |-> hi]
Transfer ==
  [action |-> "sign", chain |-> "ethereum", chainEnvironment |-> "mainnet", live |-> TRUE,
   to |-> usd, fn |-> "transfer", recipient |-> them, spender |-> Null, amount |-> 1, cap |-> Null,
   expected |-> {Of(us, usd, -1, -1), Of(them, usd, 1, 1)}]
Approve ==
  [Transfer EXCEPT !.fn = "approve", !.recipient = Null, !.spender = them, !.cap = 1,
                   !.expected = {Of(us, usd, 0, 0)}]

EthereumRequests ==
  {Transfer, [Transfer EXCEPT !.expected = {Of(us, usd, -2, -1), Of(them, usd, 1, 2)}],
   [Transfer EXCEPT !.action = "simulate", !.fn = Null, !.expected = Null],
   Approve, [Approve EXCEPT !.amount = 2],
   [Approve EXCEPT !.amount = Unlimited, !.cap = Unlimited], [Transfer EXCEPT !.recipient = stranger],
   [Transfer EXCEPT !.live = FALSE], [Transfer EXCEPT !.fn = "malformed"]}

Pay ==
  [action |-> "sign", chain |-> "solana", chainEnvironment |-> "mainnet", live |-> TRUE,
   instructions |-> {[program |-> "token", type |-> "transferChecked", mint |-> usdc,
                      accounts |-> {payer, vault}]},
   expected |-> {Of(payer, "SOL", -1, -1), Of(payer, usdc, -1, -1), Of(vault, usdc, 1, 1)}]

SolanaRequests ==
  {Pay, [Pay EXCEPT !.action = "simulate", !.expected = Null], [Pay EXCEPT !.action = "simulate"],
   [Pay EXCEPT !.instructions = {[program |-> "token", type |-> "setAuthority", mint |-> None,
                                  accounts |-> {payer}]}],
   [Pay EXCEPT !.expected = Null]}

MCRequest == EthereumRequests \cup SolanaRequests

\* The vault is paid from elsewhere between slot 1 and slot 2, and pays out
\* twice what was asked from slot 3 on.
Held(l, n) == [lamports |-> l, mint |-> usdc, amount |-> n]
MCbefore ==
  <<[k \in Key |-> IF k = payer THEN Held(5, 4) ELSE Held(1, 1)],
    [k \in Key |-> IF k = payer THEN Held(5, 3) ELSE Held(1, 0)],
    [k \in Key |-> IF k = payer THEN Held(5, 4) ELSE Held(1, 1)],
    [k \in Key |-> IF k = payer THEN Held(5, 4) ELSE None]>>
MCafter ==
  <<[k \in Key |-> IF k = payer THEN Held(4, 3) ELSE Held(1, 2)],
    [k \in Key |-> IF k = payer THEN Held(4, 3) ELSE Held(1, 2)],
    [k \in Key |-> IF k = payer THEN Held(4, 2) ELSE Held(1, 3)],
    [k \in Key |-> IF k = payer THEN Held(4, 3) ELSE Held(0, 1)]>>
===============================================================================
