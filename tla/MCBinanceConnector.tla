-------------------------- MODULE MCBinanceConnector --------------------------
(***************************************************************************)
(* A purchase and a sale under one key, whose leverages differ where the   *)
(* process serves futures, and a cancellation or a status query of the     *)
(* purchase.                                                               *)
(***************************************************************************)
EXTENDS BinanceConnector
CONSTANTS buy, sell, manage, coin, retired

Buy ==
  [action |-> "place", symbol |-> coin, key |-> 1, otherMode |-> FALSE, side |-> "BUY",
   quantity |-> 2, price |-> 2, maxNotional |-> 4, slippageBps |-> 5000, leverage |-> 1,
   isolated |-> TRUE, target |-> buy]

MCIntent ==
  [c \in Call |->
     CASE c = buy -> {Buy}
       [] c = sell -> {[Buy EXCEPT !.side = "SELL", !.quantity = 1, !.leverage = 2]}
       [] c = manage -> {[Buy EXCEPT !.action = a, !.symbol = retired] : a \in {"cancel", "status"}}]

\* A tick of 0.35 and a lot of 3: 1.05 / 3 is 0.35000000000000003, 2.1 / 3 and
\* 4.2 / 6 are 0.7000000000000001.  Doubling an amount rounds alike.
MCRoundedUp == {<<1, 1>>, <<2, 2>>, <<2, 1>>, <<4, 2>>}

MCPermissions ==
  {{"reading", "ip", "spot", "usdm_futures"}, {"reading", "ip", "spot", "withdraw"}}
===============================================================================
