------------------------- MODULE ApprovalDecisions -------------------------
(***************************************************************************)
(* ApprovalLifecycle, with the decision of a human in the two steps the    *)
(* store takes it in (approve and deny, packages/approval/src/store.ts):   *)
(* the time is compared with timeoutAt once, under the lock, and the state *)
(* is saved later, by then perhaps after timeoutAt.  The other services do *)
(* not see the first step: they rely on ApprovalLifecycle.                 *)
(***************************************************************************)
EXTENDS ApprovalLifecycle

VARIABLE taken  \* the decision taken and not yet saved, if any

decisionVars == <<approvals, clock, taken>>

DecisionInit == ApprovalInit /\ taken = {}

\* A decision on a pending request is taken before its timeoutAt, and under the
\* lock: none other is under way.
Take(a, d) ==
  /\ taken = {}
  /\ approvals[a] = "pending" /\ clock[a] = "before"
  /\ taken' = {[approval |-> a, decision |-> d]}
  /\ UNCHANGED approvalVars

SaveTaken ==
  \E t \in taken : Change(t.approval, "pending", t.decision) /\ taken' = {}

\* A write of the transaction failed, or its process died.
Abandon == taken # {} /\ taken' = {} /\ UNCHANGED approvalVars

DecisionNext ==
  \/ \E a \in Approval, d \in {"approved", "denied"} : Take(a, d)
  \/ SaveTaken \/ Abandon
  \/ /\ taken = {}
     /\ \E a \in Approval : Create(a) \/ TimeOut(a) \/ ConsumeOneTime(a) \/ Delete(a)
     /\ UNCHANGED taken
  \/ (\E a \in Approval : Tick(a)) /\ UNCHANGED taken

DecisionSpec == DecisionInit /\ [][DecisionNext]_decisionVars
=============================================================================
