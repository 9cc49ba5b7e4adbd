-------------------------- MODULE MCApprovalStore --------------------------
(***************************************************************************)
(* Constants for model checking ApprovalStore.                             *)
(***************************************************************************)
EXTENDS ApprovalStore, TLC

\* Bound: two of the requests are created, whichever they are.
AtMostTwoRequests == \E a \in Approval : approvals[a] = "absent"

Identical == Permutations(Proc) \cup Permutations(Approval \ OneTime)
=============================================================================
