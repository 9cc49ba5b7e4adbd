------------------------- MODULE ApprovalLifecycle -------------------------
(***************************************************************************)
(* What the approval store promises to the services that share it          *)
(* (packages/approval/src/store.ts): the life of an approval request, each *)
(* change of state being one IMMEDIATE transaction of the shared SQLite    *)
(* database.  ApprovalStore models the transactions in detail.             *)
(*                                                                         *)
(* Time is kept only as far as the code compares it with timeoutAt.        *)
(***************************************************************************)
CONSTANTS
  Approval,     \* approval ids
  OneTime       \* those of type one_time; the others are allowlist_onboarding

ASSUME ApprovalAssumption == OneTime \subseteq Approval

VARIABLES
  approvals,    \* the state of each approval request
  clock         \* now, relative to the request's timeoutAt

approvalVars == <<approvals, clock>>

ApprovalState == {"absent", "pending", "approved", "denied", "timeout", "consumed",
                  "deleted"}

ClockReading == {"before", "at", "after"}

ApprovalTypeOK ==
  /\ approvals \in [Approval -> ApprovalState]
  /\ clock \in [Approval -> ClockReading]

ApprovalInit ==
  /\ approvals = [a \in Approval |-> "absent"]
  /\ clock = [a \in Approval |-> "before"]

Stored(a) == approvals[a] \notin {"absent", "deleted"}

-----------------------------------------------------------------------------
Change(a, from, to) ==
  /\ approvals[a] = from
  /\ approvals' = [approvals EXCEPT ![a] = to]
  /\ UNCHANGED clock

\* The guardrail service asks for a decision of a human.
Create(a) == Change(a, "absent", "pending")

\* A decision is taken before timeoutAt and may be saved after it: ApprovalDecisions
\* has the two steps apart.
Approve(a) == Change(a, "pending", "approved")

Deny(a) == Change(a, "pending", "denied")

TimeOut(a) == clock[a] # "before" /\ Change(a, "pending", "timeout")

Consumable(a) ==
  approvals[a] = "approved" /\ a \in OneTime /\ clock[a] = "before"

ConsumeOneTime(a) == Consumable(a) /\ Change(a, "approved", "consumed")

\* The guardrail service takes back a request whose decision it did not issue.
Delete(a) == Stored(a) /\ Change(a, approvals[a], "deleted")

\* Time reaches timeoutAt, then passes it.
Tick(a) ==
  /\ Stored(a) /\ clock[a] # "after"
  /\ clock' = [clock EXCEPT ![a] = IF @ = "before" THEN "at" ELSE "after"]
  /\ UNCHANGED approvals

LifecycleNext ==
  \E a \in Approval :
    \/ Create(a) \/ Approve(a) \/ Deny(a) \/ TimeOut(a)
    \/ ConsumeOneTime(a) \/ Delete(a) \/ Tick(a)

LifecycleSpec == ApprovalInit /\ [][LifecycleNext]_approvalVars

\* The steps a broker observes: it never learns of a request that is deleted.
ApprovalServiceStep ==
  \E a \in Approval : Create(a) \/ Approve(a) \/ Deny(a) \/ TimeOut(a) \/ Tick(a)
=============================================================================
