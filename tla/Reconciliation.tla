---------------------------- MODULE Reconciliation ----------------------------
(***************************************************************************)
(* packages/binance-connector/src/reconciliation.ts: how the order that    *)
(* Binance acknowledged is compared with what a later status query shows.  *)
(* An order is its status, the quantity filled so far and the quote amount *)
(* paid for it.  The average price the code compares is the double nearest *)
(* to quote / filled: of two different decimals it keeps the order, but a  *)
(* quotient that should equal the limit may lie above or below it.         *)
(***************************************************************************)
EXTENDS Integers

CONSTANTS
  RoundedUp,   \* <<quote, filled>> whose quotient in doubles exceeds the exact one
  RoundedDown  \* and those whose quotient falls below it

ASSUME RoundingAssumption == RoundedUp \cap RoundedDown = {}

\* ORDER_STATUSES of rest-client.ts: orderResult refuses every other status.
OrderStatus == {"PENDING_NEW", "NEW", "PARTIALLY_FILLED", "FILLED", "CANCELED",
                "PENDING_CANCEL", "REJECTED", "EXPIRED", "EXPIRED_IN_MATCH"}

Ended == {"FILLED", "CANCELED", "REJECTED", "EXPIRED", "EXPIRED_IN_MATCH"}

\* Mutant: a cancellation that is under way is not known.
TransitionsWithoutPending ==
  [s \in OrderStatus |->
     CASE s = "PENDING_NEW" -> OrderStatus
       [] s = "NEW" -> OrderStatus \ {"PENDING_NEW", "PENDING_CANCEL"}
       [] s \in {"PARTIALLY_FILLED", "PENDING_CANCEL"} ->
            OrderStatus \ {"PENDING_NEW", "NEW", "REJECTED"}
       [] OTHER -> {s}]

LegalTransitions ==
  [s \in OrderStatus |->
     CASE s = "PENDING_NEW" -> OrderStatus
       [] s = "NEW" -> OrderStatus \ {"PENDING_NEW"}
       [] s \in {"PARTIALLY_FILLED", "PENDING_CANCEL"} ->
            OrderStatus \ {"PENDING_NEW", "NEW", "REJECTED"}
       [] OTHER -> {s}]

isLegalTransition(from, to) == to \in LegalTransitions[from]

inconsistentFill(order, approvedQuantity) ==
  \/ order.filled = 0 /\ order.quote # 0
  \/ order.status = "FILLED" /\ order.filled # approvedQuantity
  \/ /\ order.status = "PARTIALLY_FILLED"
     /\ order.filled <= 0 \/ order.filled >= approvedQuantity
  \/ order.status \in {"NEW", "PENDING_NEW", "REJECTED"} /\ order.filled # 0

\* quote / filled, in doubles, is above or below the limit.
above(order, limit) ==
  \/ order.quote > limit * order.filled
  \/ order.quote = limit * order.filled /\ <<order.quote, order.filled>> \in RoundedUp

below(order, limit) ==
  \/ order.quote < limit * order.filled
  \/ order.quote = limit * order.filled /\ <<order.quote, order.filled>> \in RoundedDown

\* The average price is beyond the approved limit.
worseThanLimit(order, side, limit) ==
  /\ order.filled > 0
  /\ \/ order.quote <= 0
     \/ side = "BUY" /\ above(order, limit)
     \/ side = "SELL" /\ below(order, limit)

\* collectDiscrepancies, without its comparison of ids, symbols and sides: the
\* client has already refused an answer about another order (orderById).
collectDiscrepancies(expected, observed, side, quantity, limit) ==
  {d \in {"transition", "accepted_fill", "decreased", "observed_fill",
          "inconsistent_accepted", "inconsistent_observed", "price_changed", "price"} :
     \/ d = "transition" /\ ~isLegalTransition(expected.status, observed.status)
     \/ d = "accepted_fill" /\ expected.filled > quantity
     \/ d = "decreased" /\ observed.filled < expected.filled
     \/ d = "observed_fill" /\ observed.filled > quantity
     \/ d = "inconsistent_accepted" /\ inconsistentFill(expected, quantity)
     \/ d = "inconsistent_observed" /\ inconsistentFill(observed, quantity)
     \/ d = "price_changed" /\ observed.filled = expected.filled
                            /\ observed.quote # expected.quote
     \/ d = "price" /\ worseThanLimit(observed, side, limit)}

reconcileAcceptedOrder(expected, observed, side, quantity, limit) ==
  IF collectDiscrepancies(expected, observed, side, quantity, limit) = {}
  THEN "matched" ELSE "discrepancy"
===============================================================================
