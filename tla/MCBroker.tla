------------------------------ MODULE MCBroker ------------------------------
(***************************************************************************)
(* Constants for model checking Broker: an order that a human approves,    *)
(* a rival intent that may reuse its idempotency key, a cancellation.      *)
(***************************************************************************)
EXTENDS Broker, TLC

CONSTANTS order, rival, cancel, orderKey, otherKey, x, y, ask

Present(i, o, a, r) ==
  [intent |-> i, outcome |-> o, correlation |-> r, approvalId |-> a,
   wellFormed |-> TRUE, dryRun |-> FALSE, tokenMatches |-> TRUE,
   environmentMatches |-> TRUE, intentIdMatches |-> TRUE]

MCScopedKey == [i \in Intent |-> orderKey]
MCVerdict == Verdicts
MCEvent == TerminalEvent
MCApprovalIntent == [a \in Approval |-> order]
MCApprovalCorrelation == [a \in Approval |-> x]
\* Every intent is under the scopes of its account.
MCScopesOf == [i \in Intent |-> Scope]

MCTwoKeys == [i \in Intent |-> IF i = order THEN orderKey ELSE otherKey]

\* The decision the approval was asked for, and its approval carried by
\* another decision and by another intent.
MCHumanDecision ==
  {Present(order, "needs_human", ask, x), Present(order, "needs_human", ask, y),
   Present(order, "allow", Null, x), Present(rival, "allow", ask, x)}

\* The same intent decided twice, with different correlation ids, and the rival.
MCRetryDecision ==
  {Present(order, "allow", Null, x), Present(order, "allow", Null, y),
   Present(rival, "allow", Null, x)}

\* A canary order, a cancellation and a futures order on one account; the last two
\* share a key.
MCStopDecision == {Present(i, "allow", Null, x) : i \in Intent}

Identical == Permutations(Proc) \cup Permutations(Call)
=============================================================================
