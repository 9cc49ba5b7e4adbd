---------------------------- MODULE ApprovalStore ----------------------------
(***************************************************************************)
(* ApprovalStore (packages/approval/src/store.ts) as several processes use *)
(* it: the guardrail service creates and deletes requests, operators       *)
(* decide them, brokers consume them.                                      *)
(*                                                                         *)
(* A decision is one IMMEDIATE transaction of the approval database, but   *)
(* inside it the code writes two other stores that the transaction does    *)
(* not cover: the allowlist file and the operators' audit log.  Every such *)
(* write is a step here, and may fail or be the last one of its process.   *)
(***************************************************************************)
CONSTANTS
  Proc,         \* processes with a connection to the database
  Approval,     \* approval ids
  OneTime,      \* those of type one_time; the others are allowlist_onboarding
  Null,
  Fault         \* what may go wrong

ASSUME StoreAssumption ==
  /\ OneTime \subseteq Approval
  /\ Null \notin Proc

VARIABLES
  approvals,    \* the rows of approval_requests
  clock,        \* now, relative to each timeoutAt
  txn,          \* the transaction each process is in
  allowlist,    \* the approvals with an entry in the allowlist file
  log,          \* the operators' audit log
  stranded      \* onboardings cut short, never undone (history)

vars == <<approvals, clock, txn, allowlist, log, stranded>>

Lifecycle == INSTANCE ApprovalLifecycle

Onboarding(a) == a \notin OneTime

Decided == {"approved", "denied", "timeout"}

Event == [approval : Approval,
          type : Decided \cup {"allowlist.updated", "allowlist.rolledBack"}]

Entry(a) == [approval |-> a, type |-> "allowlist.updated"]
RolledBack(a) == [approval |-> a, type |-> "allowlist.rolledBack"]
Decision(a, d) == [approval |-> a, type |-> d]

\* A transaction: the decision it is about to save, and the entries of the
\* file that its rollback would restore.
Idle == [at |-> "idle", approval |-> Null, decision |-> Null, previous |-> {}]

Place == {"idle", "addEntry", "auditEntry", "auditDecision", "save", "commit", "rollBack"}

TypeOK ==
  /\ approvals \in [Approval -> Lifecycle!ApprovalState]
  /\ clock \in [Approval -> Lifecycle!ClockReading]
  /\ txn \in [Proc -> [at : Place, approval : Approval \cup {Null},
                       decision : Decided \cup {Null}, previous : SUBSET Approval]]
  /\ allowlist \subseteq Approval
  /\ log \subseteq Event
  /\ stranded \subseteq Approval

Init ==
  /\ Lifecycle!ApprovalInit
  /\ txn = [p \in Proc |-> Idle]
  /\ allowlist = {}
  /\ log = {}
  /\ stranded = {}

-----------------------------------------------------------------------------
At(p, place) == txn[p].at = place

\* Mutant: deferred transactions, which read before they lock.
AnyTime == TRUE

Unlocked == \A p \in Proc : At(p, "idle")

GoesTo(p, place) == txn' = [txn EXCEPT ![p].at = place]

\* The transaction ends, by commit or by an exception that SQLite rolls back.
Ends(p) == txn' = [txn EXCEPT ![p] = Idle]

Fails(f) == f \in Fault

\* A transaction ends without undoing what it wrote to the file.
Strands(p) == stranded' = stranded \cup ({txn[p].approval} \cap allowlist)

-----------------------------------------------------------------------------
(***************************************************************************)
(* Operations that touch the database alone are one step.                  *)
(***************************************************************************)
Create(a) == Unlocked /\ Lifecycle!Create(a) /\ UNCHANGED <<txn, allowlist, log, stranded>>

Delete(a) == Unlocked /\ Lifecycle!Delete(a) /\ UNCHANGED <<txn, allowlist, log, stranded>>

ConsumeOneTime(a) ==
  /\ Unlocked
  /\ Lifecycle!ConsumeOneTime(a)
  /\ UNCHANGED <<txn, allowlist, log, stranded>>

Tick(a) == Lifecycle!Tick(a) /\ UNCHANGED <<txn, allowlist, log, stranded>>

(***************************************************************************)
(* approve, deny, and expire (from checkTimeouts and waitForApproval): the *)
(* lock is taken before the state is read, and the time once thereafter.   *)
(***************************************************************************)
\* Mutant: the request is saved with the state it had.
StartsUndecided(p, a, d) ==
  txn' = [txn EXCEPT ![p] =
            [at |-> IF d = "approved" /\ Onboarding(a) THEN "addEntry" ELSE "auditDecision",
             approval |-> a, decision |-> approvals[a], previous |-> allowlist]]

Starts(p, a, d) ==
  txn' = [txn EXCEPT ![p] =
            [at |-> IF d = "approved" /\ Onboarding(a) THEN "addEntry" ELSE "auditDecision",
             approval |-> a, decision |-> d, previous |-> allowlist]]

\* Mutant: an overdue request may still be decided.
DecideLate(p, a, d) ==
  /\ Unlocked
  /\ approvals[a] = "pending"
  /\ Starts(p, a, d)
  /\ UNCHANGED <<approvals, clock, allowlist, log, stranded>>

Decide(p, a, d) ==
  /\ Unlocked
  /\ approvals[a] = "pending"
  /\ Starts(p, a, IF clock[a] = "before" THEN d ELSE "timeout")
  /\ UNCHANGED <<approvals, clock, allowlist, log, stranded>>

Approve(p, a) == Decide(p, a, "approved")

Deny(p, a) == Decide(p, a, "denied")

Expire(p, a) == clock[a] # "before" /\ Decide(p, a, "timeout")

\* applyAllowlistOnboarding: the file, or nothing when it cannot be written or
\* onboarding is not configured.
AddEntry(p) ==
  /\ At(p, "addEntry")
  /\ \/ allowlist' = allowlist \cup {txn[p].approval} /\ GoesTo(p, "auditEntry")
     \/ Fails("file") /\ UNCHANGED allowlist /\ Ends(p)
  /\ UNCHANGED <<approvals, clock, log, stranded>>

\* rollback writes the entries that add had read.
RestoreEntries(p) == allowlist' = txn[p].previous

\* AuditWriter.write; a failing one may have recorded the event all the same.
AuditEntry(p) ==
  /\ At(p, "auditEntry")
  /\ \/ log' = log \cup {Entry(txn[p].approval)}
        /\ GoesTo(p, "auditDecision")
        /\ UNCHANGED <<allowlist, stranded>>
     \/ /\ Fails("audit")
        /\ log' \in {log, log \cup {Entry(txn[p].approval)}}
        /\ \/ RestoreEntries(p) /\ UNCHANGED stranded
           \/ Fails("rollback") /\ Strands(p) /\ UNCHANGED allowlist
        /\ Ends(p)
  /\ UNCHANGED <<approvals, clock>>

\* Mutant: the catch clause of approve is missing.
UnwindsNothing(p) == Ends(p)

\* What the catch clause of approve does for an onboarding, before it rethrows.
Unwinds(p) ==
  IF txn[p].decision = "approved" /\ Onboarding(txn[p].approval)
  THEN GoesTo(p, "rollBack") ELSE Ends(p)

\* Mutant: a failing audit write is ignored.
AuditDecisionOrNot(p) ==
  /\ At(p, "auditDecision")
  /\ log' \in {log, log \cup {Decision(txn[p].approval, txn[p].decision)}}
  /\ GoesTo(p, "save")
  /\ UNCHANGED <<approvals, clock, allowlist, stranded>>

AuditDecision(p) ==
  LET event == Decision(txn[p].approval, txn[p].decision) IN
  /\ At(p, "auditDecision")
  /\ \/ log' = log \cup {event} /\ GoesTo(p, "save")
     \/ Fails("audit") /\ log' \in {log, log \cup {event}} /\ Unwinds(p)
  /\ UNCHANGED <<approvals, clock, allowlist, stranded>>

Save(p) ==
  /\ At(p, "save")
  /\ \/ GoesTo(p, "commit")
     \/ Fails("save") /\ Unwinds(p)
  /\ UNCHANGED <<approvals, clock, allowlist, log, stranded>>

\* The commit follows the catch clause: nobody rolls the file back when it fails.
Commit(p) ==
  /\ At(p, "commit")
  /\ \/ approvals' = [approvals EXCEPT ![txn[p].approval] = txn[p].decision]
        /\ UNCHANGED stranded
     \/ Fails("commit") /\ Strands(p) /\ UNCHANGED approvals
  /\ Ends(p)
  /\ UNCHANGED <<clock, allowlist, log>>

\* rollback, then writeAllowlistRollbackAudit; either may fail.
RollBack(p) ==
  /\ At(p, "rollBack")
  /\ \/ /\ RestoreEntries(p)
        /\ \/ log' = log \cup {RolledBack(txn[p].approval)}
           \/ Fails("audit") /\ UNCHANGED log
        /\ UNCHANGED stranded
     \/ Fails("rollback") /\ Strands(p) /\ UNCHANGED <<allowlist, log>>
  /\ Ends(p)
  /\ UNCHANGED <<approvals, clock>>

\* The process dies; SQLite forgets the transaction and nothing else.
Crash(p) ==
  /\ Fails("crash") /\ ~At(p, "idle")
  /\ Ends(p)
  /\ Strands(p)
  /\ UNCHANGED <<approvals, clock, allowlist, log>>

Next ==
  \/ \E a \in Approval : Create(a) \/ Delete(a) \/ ConsumeOneTime(a) \/ Tick(a)
  \/ \E p \in Proc, a \in Approval : Approve(p, a) \/ Deny(p, a) \/ Expire(p, a)
  \/ \E p \in Proc : \/ AddEntry(p) \/ AuditEntry(p) \/ AuditDecision(p) \/ Save(p)
                     \/ Commit(p) \/ RollBack(p) \/ Crash(p)

Spec == Init /\ [][Next]_vars

-----------------------------------------------------------------------------
(***************************************************************************)
(* The inductive invariant.                                                *)
(***************************************************************************)
\* An entry belongs to an approved request, or to one whose transaction was cut
\* short.
Earned(a) == approvals[a] \in {"approved", "consumed", "deleted"} \/ a \in stranded

\* What the transaction of p has done so far, and what it may rely on.
TransactionSound(p) ==
  LET a == txn[p].approval
      d == txn[p].decision
      onboards == d = "approved" /\ Onboarding(a)
  IN
  /\ a \in Approval /\ d \in Decided /\ approvals[a] = "pending"
  /\ d = "timeout" => clock[a] # "before"
  /\ At(p, "addEntry") \/ At(p, "auditEntry") \/ At(p, "rollBack") => onboards
  /\ allowlist = IF onboards /\ ~At(p, "addEntry") THEN txn[p].previous \cup {a}
                 ELSE txn[p].previous
  /\ \A b \in txn[p].previous : Earned(b)
  /\ onboards /\ ~At(p, "addEntry") /\ ~At(p, "auditEntry") => Entry(a) \in log
  /\ At(p, "save") \/ At(p, "commit") => Decision(a, d) \in log
  /\ \A b \in Approval \ OneTime : approvals[b] = "approved" => b \in txn[p].previous

TransactionAlone ==
  \A p, q \in Proc : ~At(p, "idle") /\ ~At(q, "idle") => p = q

Transactions == \A p \in Proc : IF At(p, "idle") THEN txn[p] = Idle ELSE TransactionSound(p)

-----------------------------------------------------------------------------
\* A request reads approved, denied or timed out only when the audit log says
\* so, and an approval was audited before it could be consumed: the event is
\* written before the state that it reports.
DecisionIsAudited ==
  \A a \in Approval :
    /\ approvals[a] \in Decided => Decision(a, approvals[a]) \in log
    /\ approvals[a] = "consumed" => Decision(a, "approved") \in log

\* An approved onboarding has its entry in the file, and its entry in the log,
\* whatever rollback of another decision has written in between.
OnboardedHasEntry ==
  \A a \in Approval \ OneTime :
    approvals[a] = "approved" => a \in allowlist /\ Entry(a) \in log

\* An entry outlives its transaction for an approved request alone, unless the
\* process died, or the commit or the rollback itself failed: every other way
\* out restores the file, and restores no more than that.
EntryOnlyIfApproved ==
  \A a \in allowlist : Earned(a) \/ \E p \in Proc : ~At(p, "idle") /\ txn[p].approval = a

\* The transactions exclude each other, and the one that runs decides a request
\* that is still pending, with everything it has written so far in place.
Inv ==
  /\ TypeOK
  /\ TransactionAlone
  /\ Transactions
  /\ DecisionIsAudited
  /\ OnboardedHasEntry
  /\ EntryOnlyIfApproved

\* What docs/threat-model.md says of the allowlist ("must be recorded as
\* auditable policy changes, not hidden runtime state"): the code writes the
\* file before the event, and a crash in between leaves an entry unrecorded.
EntryIsRecorded ==
  \A a \in allowlist : Entry(a) \in log \/ \E p \in Proc : txn[p].approval = a

\* The decisions of a human that a transaction has taken and not yet saved.
Taken ==
  {[approval |-> txn[p].approval, decision |-> txn[p].decision] :
     p \in {q \in Proc : ~At(q, "idle") /\ txn[q].decision # "timeout"}}

Promised == INSTANCE ApprovalDecisions WITH taken <- Taken

\* The transactions, with every crash and failing write, do to a request only
\* what the other services are promised: one decision, taken before timeoutAt
\* even if saved after it, one consumption, and neither during the other.
ImplementsLifecycle == Promised!DecisionSpec
=============================================================================
