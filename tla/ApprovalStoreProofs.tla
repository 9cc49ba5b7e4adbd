------------------------- MODULE ApprovalStoreProofs -------------------------
(***************************************************************************)
(* Proofs about ApprovalStore: its invariant, and that its transactions    *)
(* implement the life cycle the other services rely on.                    *)
(***************************************************************************)
EXTENDS ApprovalStore, TLAPS

Unchanged == UNCHANGED vars

\* Only the database changes, by a step that decides nothing, while no process
\* is in a transaction: Create, Delete and ConsumeOneTime.
DatabaseOnly ==
  /\ Unlocked
  /\ \E a \in Approval : Create(a) \/ Delete(a) \/ ConsumeOneTime(a)

USE DEF At

\* The store starts with no transaction, no entry and no event.
LEMMA InitInv == Init => Inv
<1>. SUFFICES ASSUME Init PROVE Inv
  OBVIOUS
<1>1. \A p \in Proc : txn[p] = Idle /\ At(p, "idle")
  BY DEF Init, Idle
<1>2. TypeOK
  BY StoreAssumption DEF Init, TypeOK, Idle, Place, Lifecycle!ApprovalInit,
     Lifecycle!ApprovalState, Lifecycle!ClockReading
<1>3. DecisionIsAudited /\ OnboardedHasEntry /\ EntryOnlyIfApproved
  BY DEF Init, Lifecycle!ApprovalInit, DecisionIsAudited, OnboardedHasEntry,
     EntryOnlyIfApproved, Decided
<1>4. TransactionAlone /\ Transactions
  BY <1>1 DEF TransactionAlone, Transactions
<1>. QED  BY <1>2, <1>3, <1>4 DEF Inv

\* A step on the database alone keeps the invariant: no transaction is open.
LEMMA DatabaseKeepsInv ==
  ASSUME Inv, DatabaseOnly PROVE Inv'
<1>. USE DEF Inv
<1>1. PICK a \in Approval : Create(a) \/ Delete(a) \/ ConsumeOneTime(a)
  BY DEF DatabaseOnly
<1>2. /\ UNCHANGED <<txn, allowlist, log, clock, stranded>>
      /\ \E s \in {"pending", "deleted", "consumed"} :
           /\ approvals' = [approvals EXCEPT ![a] = s]
           /\ s = "consumed" => approvals[a] = "approved"
           /\ s = "pending" => approvals[a] = "absent"
  BY <1>1 DEF Create, Delete, ConsumeOneTime, Lifecycle!Create, Lifecycle!Delete,
     Lifecycle!ConsumeOneTime, Lifecycle!Consumable, Lifecycle!Change
<1>3. \A p \in Proc : At(p, "idle") /\ txn[p] = Idle
  BY DEF DatabaseOnly, Unlocked, Transactions
<1>4. TypeOK'
  BY <1>2 DEF TypeOK, Lifecycle!ApprovalState
<1>5. TransactionAlone' /\ Transactions'
  BY <1>2, <1>3 DEF TransactionAlone, Transactions
<1>6. DecisionIsAudited' /\ OnboardedHasEntry'
  BY <1>2 DEF DecisionIsAudited, OnboardedHasEntry, Decided, TypeOK
<1>7. EntryOnlyIfApproved'
  <2>1. \A b \in allowlist : Earned(b)
    BY <1>3 DEF EntryOnlyIfApproved
  <2>. QED  BY <1>2, <2>1 DEF EntryOnlyIfApproved, Earned, TypeOK
<1>. QED  BY <1>4, <1>5, <1>6, <1>7

\* The start of a transaction: its process is the only one, and the file still
\* holds the entry of every approved onboarding.
LEMMA DecideKeepsInv ==
  ASSUME Inv, NEW p \in Proc, NEW a \in Approval, NEW d \in Decided, Decide(p, a, d),
         d = "timeout" => clock[a] # "before"
  PROVE  Inv'
<1>. USE DEF Inv
<1>. DEFINE e == IF clock[a] = "before" THEN d ELSE "timeout"
            onboards == e = "approved" /\ Onboarding(a)
<1>1. /\ UNCHANGED <<approvals, clock, allowlist, log, stranded>>
      /\ txn' = [txn EXCEPT ![p] =
                   [at |-> IF onboards THEN "addEntry" ELSE "auditDecision",
                    approval |-> a, decision |-> e, previous |-> allowlist]]
      /\ approvals[a] = "pending"
  BY DEF Decide, Starts
<1>2. \A q \in Proc : At(q, "idle") /\ txn[q] = Idle
  BY DEF Decide, Unlocked, Transactions
<1>3. e \in Decided /\ (e = "timeout" => clock[a] # "before")
  BY DEF Decided
<1>4. TypeOK'
  BY <1>1, <1>3 DEF TypeOK, Place
<1>5. /\ txn'[p].at \in {"addEntry", "auditDecision"}
      /\ txn'[p].at = "addEntry" <=> onboards
      /\ txn'[p].approval = a /\ txn'[p].decision = e /\ txn'[p].previous = allowlist
      /\ \A q \in Proc \ {p} : txn'[q] = txn[q]
  BY <1>1 DEF TypeOK
<1>6. TransactionAlone'
  BY <1>2, <1>5 DEF TransactionAlone
<1>a. \A b \in allowlist : Earned(b) /\ Earned(b)'
  BY <1>1, <1>2 DEF EntryOnlyIfApproved, Earned
<1>7. Transactions'
  BY <1>1, <1>2, <1>3, <1>5, <1>a DEF Transactions, TransactionSound, OnboardedHasEntry
<1>8. DecisionIsAudited' /\ OnboardedHasEntry' /\ EntryOnlyIfApproved'
  BY <1>1, <1>a DEF DecisionIsAudited, OnboardedHasEntry, EntryOnlyIfApproved
<1>. QED  BY <1>4, <1>6, <1>7, <1>8

\* A step inside the transaction of p that leaves the database alone, adds to the
\* log, and touches the file so that approved onboardings keep their entries and
\* none is left behind by the end of the transaction that was not earned.
LEMMA InsideKeepsInv ==
  ASSUME Inv, NEW p \in Proc, ~At(p, "idle"),
         UNCHANGED <<approvals, clock>>,
         NEW place \in Place,
         \/ Ends(p)
         \/ GoesTo(p, place) /\ place # "idle" /\ TransactionSound(p)',
         log \subseteq log', log' \subseteq Event, allowlist' \subseteq Approval,
         \A b \in Approval \ OneTime : approvals[b] = "approved" => b \in allowlist',
         stranded \subseteq stranded', stranded' \subseteq Approval,
         Ends(p) => \A b \in allowlist' : Earned(b)'
  PROVE  Inv'
<1>. USE DEF Inv
<1>1. \A q \in Proc \ {p} : txn'[q] = txn[q] /\ txn[q] = Idle /\ At(q, "idle")
  BY DEF Ends, GoesTo, TypeOK, TransactionAlone, Transactions
<1>2. \/ txn'[p] = Idle
      \/ txn'[p].at = place /\ place # "idle" /\ TransactionSound(p)'
  BY DEF Ends, GoesTo, TypeOK
<1>3. TypeOK'
  <2>1. Idle \in [at : Place, approval : Approval \cup {Null},
                  decision : Decided \cup {Null}, previous : SUBSET Approval]
    BY DEF Idle, Place
  <2>2. CASE Ends(p)
    BY <2>1, <2>2 DEF Ends, TypeOK
  <2>3. CASE GoesTo(p, place)
    BY <2>3 DEF GoesTo, TypeOK
  <2>. QED  BY <2>2, <2>3
<1>4. TransactionAlone'
  BY <1>1, <1>2 DEF TransactionAlone, Idle
<1>5. Transactions'
  BY <1>1, <1>2 DEF Transactions, Idle
<1>6. DecisionIsAudited' /\ OnboardedHasEntry'
  BY DEF DecisionIsAudited, OnboardedHasEntry
<1>7. EntryOnlyIfApproved'
  <2>1. CASE Ends(p)
    BY <2>1 DEF EntryOnlyIfApproved
  <2>2. CASE GoesTo(p, place) /\ place # "idle" /\ TransactionSound(p)'
    <3>1. txn'[p].at # "idle"
      BY <2>2 DEF GoesTo, TypeOK
    <3>. QED  BY <2>2, <3>1 DEF EntryOnlyIfApproved, TransactionSound
  <2>. QED  BY <2>1, <2>2
<1>. QED  BY <1>3, <1>4, <1>5, <1>6, <1>7

\* What the invariant says of the process that is in a transaction.
LEMMA RunningSound ==
  ASSUME Inv, NEW p \in Proc, ~At(p, "idle")
  PROVE  /\ TransactionSound(p)
         /\ txn[p].previous \subseteq Approval /\ txn[p].approval \in Approval
         /\ txn[p] \in [at : Place, approval : Approval \cup {Null},
                        decision : Decided \cup {Null}, previous : SUBSET Approval]
         /\ \A b \in Approval \ OneTime : approvals[b] = "approved" => b \in allowlist
BY DEF Inv, Transactions, TransactionSound, TypeOK, OnboardedHasEntry

\* Every step of a transaction keeps the invariant.
LEMMA TransactionKeepsInv ==
  ASSUME Inv, NEW p \in Proc,
         \/ AddEntry(p) \/ AuditEntry(p) \/ AuditDecision(p) \/ Save(p)
         \/ Commit(p) \/ RollBack(p) \/ Crash(p)
  PROVE  Inv'
<1>0. ~At(p, "idle")
  BY DEF AddEntry, AuditEntry, AuditDecision, Save, Commit, RollBack, Crash
<1>1. /\ TransactionSound(p)
      /\ txn[p].previous \subseteq Approval /\ txn[p].approval \in Approval
      /\ txn[p].decision \in Decided
      /\ \A b \in Approval \ OneTime : approvals[b] = "approved" => b \in allowlist
      /\ \A b \in Approval \ OneTime : approvals[b] = "approved" => b \in txn[p].previous
      /\ allowlist \subseteq Approval /\ log \subseteq Event /\ stranded \subseteq Approval
      /\ txn \in [Proc -> [at : Place, approval : Approval \cup {Null},
                           decision : Decided \cup {Null}, previous : SUBSET Approval]]
  BY <1>0, RunningSound DEF Inv, TypeOK, TransactionSound
<1>2. /\ Entry(txn[p].approval) \in Event /\ RolledBack(txn[p].approval) \in Event
      /\ Decision(txn[p].approval, txn[p].decision) \in Event
  BY <1>1 DEF Entry, RolledBack, Decision, Event
<1>3. \A place \in Place : GoesTo(p, place) =>
        /\ txn'[p].at = place /\ txn'[p].approval = txn[p].approval
        /\ txn'[p].decision = txn[p].decision /\ txn'[p].previous = txn[p].previous
  BY <1>1 DEF GoesTo
<1>. DEFINE onboards == txn[p].decision = "approved" /\ Onboarding(txn[p].approval)
<1>a. /\ \A b \in txn[p].previous : Earned(b)
      /\ allowlist = IF onboards /\ ~At(p, "addEntry")
                     THEN txn[p].previous \cup {txn[p].approval} ELSE txn[p].previous
  BY <1>1 DEF TransactionSound
\* A file that was restored, one that was never written, and one whose
\* transaction is recorded as stranded hold no entry that was not earned.
<1>b. ASSUME UNCHANGED approvals,
             \/ allowlist' = txn[p].previous /\ UNCHANGED stranded
             \/ UNCHANGED <<allowlist, stranded>> /\ (At(p, "addEntry") \/ ~onboards)
             \/ UNCHANGED allowlist /\ Strands(p)
      PROVE  /\ stranded \subseteq stranded' /\ stranded' \subseteq Approval
             /\ \A b \in allowlist' : Earned(b)'
  BY <1>1, <1>a, <1>b DEF Earned, Strands
<1>4. CASE AddEntry(p)
  <2>1. CASE GoesTo(p, "auditEntry")
    <3>1. /\ allowlist' = allowlist \cup {txn[p].approval}
          /\ UNCHANGED <<approvals, clock, log, stranded>>
          /\ ~Ends(p)
      BY <1>4, <2>1, <1>3, <1>1 DEF AddEntry, Ends, Idle, Place
    <3>2. TransactionSound(p)'
      BY <1>1, <1>3, <1>4, <2>1, <3>1 DEF AddEntry, TransactionSound, Place, Earned
    <3>. QED  BY <1>0, <1>1, <1>4, <2>1, <3>1, <3>2, InsideKeepsInv DEF Place
  <2>2. CASE Ends(p) /\ UNCHANGED allowlist
    <3>1. UNCHANGED <<approvals, clock, log, stranded>> /\ At(p, "addEntry")
      BY <1>4 DEF AddEntry
    <3>. QED  BY <1>0, <1>1, <1>b, <2>2, <3>1, InsideKeepsInv DEF Place
  <2>. QED  BY <1>4, <2>1, <2>2 DEF AddEntry
<1>5. CASE AuditEntry(p)
  <2>1. CASE log' = log \cup {Entry(txn[p].approval)} /\ GoesTo(p, "auditDecision")
             /\ UNCHANGED <<allowlist, stranded>>
    <3>1. TransactionSound(p)'
      BY <1>1, <1>3, <1>5, <2>1 DEF AuditEntry, TransactionSound, Place, Earned
    <3>2. ~Ends(p)
      BY <1>1, <1>3, <2>1 DEF Ends, Idle, Place
    <3>. QED  BY <1>0, <1>1, <1>2, <1>5, <2>1, <3>1, <3>2, InsideKeepsInv DEF AuditEntry, Place
  <2>2. CASE /\ log' \in {log, log \cup {Entry(txn[p].approval)}}
             /\ \/ allowlist' = txn[p].previous /\ UNCHANGED stranded
                \/ UNCHANGED allowlist /\ Strands(p)
             /\ Ends(p)
    <3>1. /\ log \subseteq log' /\ log' \subseteq Event /\ allowlist' \subseteq Approval
          /\ \A b \in Approval \ OneTime : approvals[b] = "approved" => b \in allowlist'
      BY <1>1, <1>2, <2>2
    <3>2. UNCHANGED <<approvals, clock>>
      BY <1>5 DEF AuditEntry
    <3>. QED  BY <1>0, <1>b, <2>2, <3>1, <3>2, InsideKeepsInv DEF Place
  <2>. QED  BY <1>5, <2>1, <2>2 DEF AuditEntry, RestoreEntries
<1>6. CASE AuditDecision(p)
  <2>. DEFINE event == Decision(txn[p].approval, txn[p].decision)
  <2>0. UNCHANGED <<approvals, clock, allowlist, stranded>> /\ At(p, "auditDecision")
    BY <1>6 DEF AuditDecision
  <2>1. CASE log' = log \cup {event} /\ GoesTo(p, "save")
    <3>1. TransactionSound(p)'
      BY <1>1, <1>3, <2>0, <2>1 DEF TransactionSound, Place, Earned
    <3>2. ~Ends(p)
      BY <1>1, <1>3, <2>1 DEF Ends, Idle, Place
    <3>. QED  BY <1>0, <1>1, <1>2, <2>0, <2>1, <3>1, <3>2, InsideKeepsInv DEF Place
  <2>2. CASE log' \in {log, log \cup {event}} /\ Unwinds(p)
    <3>0. log \subseteq log' /\ log' \subseteq Event
      BY <1>1, <1>2, <2>2
    <3>1. CASE ~onboards /\ Ends(p)
      BY <1>0, <1>1, <1>b, <2>0, <3>0, <3>1, InsideKeepsInv DEF Place
    <3>2. CASE onboards /\ GoesTo(p, "rollBack")
      <4>1. TransactionSound(p)'
        BY <1>1, <1>3, <2>0, <3>0, <3>2 DEF TransactionSound, Place, Earned
      <4>2. ~Ends(p)
        BY <1>1, <1>3, <3>2 DEF Ends, Idle, Place
      <4>. QED  BY <1>0, <1>1, <2>0, <3>0, <3>2, <4>1, <4>2, InsideKeepsInv DEF Place
    <3>. QED  BY <2>2, <3>1, <3>2 DEF Unwinds
  <2>. QED  BY <1>6, <2>1, <2>2 DEF AuditDecision
<1>7. CASE Save(p)
  <2>0. UNCHANGED <<approvals, clock, allowlist, log, stranded>> /\ At(p, "save")
    BY <1>7 DEF Save
  <2>1. CASE GoesTo(p, "commit")
    <3>1. TransactionSound(p)'
      BY <1>1, <1>3, <2>0, <2>1 DEF TransactionSound, Place, Earned
    <3>2. ~Ends(p)
      BY <1>1, <1>3, <2>1 DEF Ends, Idle, Place
    <3>. QED  BY <1>0, <1>1, <2>0, <2>1, <3>1, <3>2, InsideKeepsInv DEF Place
  <2>2. CASE ~onboards /\ Ends(p)
    BY <1>0, <1>1, <1>b, <2>0, <2>2, InsideKeepsInv DEF Place
  <2>3. CASE onboards /\ GoesTo(p, "rollBack")
    <3>1. TransactionSound(p)'
      BY <1>1, <1>3, <2>0, <2>3 DEF TransactionSound, Place, Earned
    <3>2. ~Ends(p)
      BY <1>1, <1>3, <2>3 DEF Ends, Idle, Place
    <3>. QED  BY <1>0, <1>1, <2>0, <2>3, <3>1, <3>2, InsideKeepsInv DEF Place
  <2>. QED  BY <1>7, <2>1, <2>2, <2>3 DEF Save, Unwinds
<1>8. CASE Commit(p)
  <2>1. CASE UNCHANGED approvals /\ Strands(p)
    <3>1. UNCHANGED <<clock, allowlist, log>> /\ Ends(p)
      BY <1>8 DEF Commit
    <3>. QED  BY <1>0, <1>1, <1>b, <2>1, <3>1, InsideKeepsInv DEF Place
  <2>2. CASE /\ approvals' = [approvals EXCEPT ![txn[p].approval] = txn[p].decision]
             /\ UNCHANGED stranded
    <3>. USE DEF Inv
    <3>0. UNCHANGED <<clock, allowlist, log>> /\ txn' = [txn EXCEPT ![p] = Idle]
      BY <1>8 DEF Commit, Ends
    <3>1. \A q \in Proc : txn'[q] = Idle
      BY <1>0, <1>1, <3>0 DEF TransactionAlone, Transactions
    <3>2. TypeOK'
      BY <1>1, <2>2, <3>0, StoreAssumption
         DEF TypeOK, Idle, Place, Decided, Lifecycle!ApprovalState
    <3>3. TransactionAlone' /\ Transactions'
      BY <3>1 DEF TransactionAlone, Transactions, Idle
    <3>4. DecisionIsAudited'
      BY <1>1, <1>8, <2>2, <3>0 DEF Commit, TransactionSound, DecisionIsAudited, TypeOK, Decided
    <3>5. OnboardedHasEntry'
      BY <1>1, <1>8, <2>2, <3>0
         DEF Commit, TransactionSound, OnboardedHasEntry, TypeOK, Onboarding
    <3>6. \A b \in allowlist : Earned(b)'
      BY <1>1, <1>a, <2>2 DEF Earned, TransactionSound, TypeOK
    <3>7. EntryOnlyIfApproved'
      BY <3>0, <3>6 DEF EntryOnlyIfApproved
    <3>. QED  BY <3>2, <3>3, <3>4, <3>5, <3>7
  <2>. QED  BY <1>8, <2>1, <2>2 DEF Commit
<1>9. CASE RollBack(p)
  <2>1. /\ log \subseteq log' /\ log' \subseteq Event /\ allowlist' \subseteq Approval
        /\ \A b \in Approval \ OneTime : approvals[b] = "approved" => b \in allowlist'
    BY <1>1, <1>2, <1>9 DEF RollBack, RestoreEntries
  <2>2. /\ UNCHANGED <<approvals, clock>> /\ Ends(p)
        /\ \/ allowlist' = txn[p].previous /\ UNCHANGED stranded
           \/ UNCHANGED allowlist /\ Strands(p)
    BY <1>9 DEF RollBack, RestoreEntries
  <2>. QED  BY <1>0, <1>b, <2>1, <2>2, InsideKeepsInv DEF Place
<1>10. CASE Crash(p)
  <2>1. UNCHANGED <<approvals, clock, allowlist, log>> /\ Ends(p) /\ Strands(p)
    BY <1>10 DEF Crash
  <2>. QED  BY <1>0, <1>1, <1>b, <2>1, InsideKeepsInv DEF Place
<1>. QED  BY <1>4, <1>5, <1>6, <1>7, <1>8, <1>9, <1>10

\* The clock only moves forward, so an overdue request stays overdue.
LEMMA TickKeepsInv ==
  ASSUME Inv, NEW a \in Approval, Tick(a) PROVE Inv'
<1>. USE DEF Inv
<1>1. /\ UNCHANGED <<approvals, txn, allowlist, log, stranded>>
      /\ clock' = [clock EXCEPT ![a] = IF @ = "before" THEN "at" ELSE "after"]
  BY DEF Tick, Lifecycle!Tick
<1>2. TypeOK' /\ \A b \in Approval : clock[b] # "before" => clock'[b] # "before"
  BY <1>1 DEF TypeOK, Lifecycle!ClockReading
<1>3. \A p \in Proc : TransactionSound(p) => TransactionSound(p)'
  BY <1>1, <1>2 DEF TransactionSound, Earned
<1>4. TransactionAlone' /\ Transactions'
  BY <1>1, <1>3 DEF TransactionAlone, Transactions
<1>5. DecisionIsAudited' /\ OnboardedHasEntry' /\ EntryOnlyIfApproved'
  BY <1>1 DEF DecisionIsAudited, OnboardedHasEntry, EntryOnlyIfApproved, Earned
<1>. QED  BY <1>2, <1>4, <1>5

\* Every step keeps the invariant.
LEMMA StepInv == Inv /\ [Next]_vars => Inv'
<1>. SUFFICES ASSUME Inv, [Next]_vars PROVE Inv'
  OBVIOUS
<1>1. CASE \E a \in Approval : Create(a) \/ Delete(a) \/ ConsumeOneTime(a)
  BY <1>1, DatabaseKeepsInv DEF DatabaseOnly, Create, Delete, ConsumeOneTime
<1>2. CASE \E a \in Approval : Tick(a)
  BY <1>2, TickKeepsInv
<1>3. CASE \E p \in Proc, a \in Approval : Approve(p, a) \/ Deny(p, a) \/ Expire(p, a)
  <2>1. PICK p \in Proc, a \in Approval : Approve(p, a) \/ Deny(p, a) \/ Expire(p, a)
    BY <1>3
  <2>2. \E d \in Decided : Decide(p, a, d) /\ (d = "timeout" => clock[a] # "before")
    BY <2>1 DEF Approve, Deny, Expire, Decided
  <2>. QED  BY <2>2, DecideKeepsInv
<1>4. CASE \E p \in Proc : \/ AddEntry(p) \/ AuditEntry(p) \/ AuditDecision(p) \/ Save(p)
                           \/ Commit(p) \/ RollBack(p) \/ Crash(p)
  BY <1>4, TransactionKeepsInv
<1>5. CASE Unchanged
  BY <1>5 DEF Unchanged, vars, Inv, TypeOK, TransactionAlone, Transactions, TransactionSound,
     DecisionIsAudited, OnboardedHasEntry, EntryOnlyIfApproved, Earned
<1>. QED  BY <1>1, <1>2, <1>3, <1>4, <1>5 DEF Next, Unchanged

\* The inductive invariant of the approval store holds always.
THEOREM StoreInvariance == Spec => []Inv
<1>. QED  BY InitInv, StepInv, PTL DEF Spec

\* The requests, the processes that decide them and the file are well typed.
THEOREM StoreTypeCorrect == Spec => []TypeOK
<1>1. Inv => TypeOK
  BY DEF Inv
<1>. QED  BY <1>1, StoreInvariance, PTL

\* No request reads decided, or consumed, without its event in the audit log
\* (approve, deny and timeout write the event before they save the state).
THEOREM DecisionsAreAudited == Spec => []DecisionIsAudited
<1>1. Inv => DecisionIsAudited
  BY DEF Inv
<1>. QED  BY <1>1, StoreInvariance, PTL

\* An approved onboarding has its entry in the allowlist file and in the log,
\* though rollback rewrites the whole file with what it had read.
THEOREM OnboardedHaveEntries == Spec => []OnboardedHasEntry
<1>1. Inv => OnboardedHasEntry
  BY DEF Inv
<1>. QED  BY <1>1, StoreInvariance, PTL

\* Every way out of an onboarding that does not save it takes the entry back,
\* except a dead process, a failed commit and a failed rollback.
THEOREM EntriesAreEarned == Spec => []EntryOnlyIfApproved
<1>1. Inv => EntryOnlyIfApproved
  BY DEF Inv
<1>. QED  BY <1>1, StoreInvariance, PTL

\* The decision that is under way is that of the transaction that runs.
LEMMA TakenIdle == ASSUME Unlocked PROVE Taken = {}
  BY DEF Taken, Unlocked, At

LEMMA TakenRunning ==
  ASSUME TransactionAlone, NEW p \in Proc, ~At(p, "idle")
  PROVE  Taken = IF txn[p].decision # "timeout"
                 THEN {[approval |-> txn[p].approval, decision |-> txn[p].decision]} ELSE {}
<1>1. \A q \in Proc : ~At(q, "idle") => q = p
  BY DEF TransactionAlone
<1>. QED  BY <1>1 DEF Taken

\* A step within a transaction keeps its decision, or ends it.
LEMMA TakenInside ==
  ASSUME TypeOK, TransactionAlone, TransactionAlone', NEW p \in Proc, ~At(p, "idle"),
         (\E place \in Place \ {"idle"} : GoesTo(p, place)) \/ Ends(p)
  PROVE  Taken' = IF Ends(p) THEN {} ELSE Taken
<1>1. CASE Ends(p)
  <2>1. Unlocked'
    BY <1>1 DEF Ends, Idle, Unlocked, At, TransactionAlone, TypeOK
  <2>. QED  BY <1>1, <2>1 DEF Taken, Unlocked, At
<1>2. CASE ~Ends(p)
  <2>1. PICK place \in Place \ {"idle"} : GoesTo(p, place)
    BY <1>2
  <2>2. /\ txn'[p].approval = txn[p].approval /\ txn'[p].decision = txn[p].decision
        /\ txn'[p].at = place
    BY <2>1 DEF GoesTo, TypeOK
  <2>3. \A q \in Proc : ~At(q, "idle")' => q = p
    BY <2>2 DEF TransactionAlone, At
  <2>4. Taken' = IF txn[p].decision # "timeout"
                 THEN {[approval |-> txn[p].approval, decision |-> txn[p].decision]} ELSE {}
    BY <2>2, <2>3 DEF Taken, At
  <2>. QED  BY <1>2, <2>4, TakenRunning
<1>. QED  BY <1>1, <1>2

\* The transactions of the store implement the promised life of a request: each
\* step of approve, deny, expire, consumeOneTime, create and delete is one step
\* of it or none, and a decision that is saved was taken before timeoutAt.
THEOREM StoreImplementsLifecycle == Spec => ImplementsLifecycle
<1>1. Init => Promised!DecisionInit
  BY DEF Init, Promised!DecisionInit, Lifecycle!ApprovalInit, Promised!ApprovalInit, Taken,
     Idle, At
<1>2. Inv /\ Inv' /\ [Next]_vars => [Promised!DecisionNext]_(Promised!decisionVars)
  <2>. SUFFICES ASSUME Inv, Inv', [Next]_vars
                PROVE  Promised!DecisionNext \/ UNCHANGED <<approvals, clock, Taken>>
    BY DEF Promised!decisionVars
  <2>0. TypeOK /\ TransactionAlone /\ TransactionAlone'
    BY DEF Inv
  <2>1. CASE \E a \in Approval : Create(a) \/ Delete(a) \/ ConsumeOneTime(a)
    <3>1. Unlocked /\ UNCHANGED txn
      BY <2>1 DEF Create, Delete, ConsumeOneTime
    <3>2. Taken = {} /\ Taken' = {}
      BY <3>1, TakenIdle DEF Taken, At, Unlocked
    <3>. QED  BY <2>1, <3>2 DEF Create, Delete, ConsumeOneTime, Lifecycle!Create, Lifecycle!Delete,
              Lifecycle!ConsumeOneTime, Lifecycle!Consumable, Lifecycle!Change, Lifecycle!Stored,
              Promised!Create, Promised!Delete, Promised!ConsumeOneTime, Promised!Consumable,
              Promised!Change, Promised!Stored, Promised!DecisionNext
  <2>2. CASE \E a \in Approval : Tick(a)
    <3>1. UNCHANGED Taken
      BY <2>2 DEF Tick, Taken, At
    <3>. QED  BY <2>2, <3>1 DEF Tick, Lifecycle!Tick, Lifecycle!Stored, Promised!Tick,
              Promised!Stored, Promised!DecisionNext
  <2>3. CASE \E p \in Proc, a \in Approval : Approve(p, a) \/ Deny(p, a) \/ Expire(p, a)
    <3>1. PICK p \in Proc, a \in Approval, d \in Decided : Decide(p, a, d)
      BY <2>3 DEF Approve, Deny, Expire, Decided
    <3>. DEFINE e == IF clock[a] = "before" THEN d ELSE "timeout"
    <3>2. /\ Unlocked /\ approvals[a] = "pending" /\ UNCHANGED <<approvals, clock>>
          /\ txn'[p].approval = a /\ txn'[p].decision = e /\ ~At(p, "idle")'
          /\ \A q \in Proc \ {p} : txn'[q] = txn[q]
      BY <2>0, <3>1 DEF Decide, Starts, TypeOK, At
    <3>3. Taken = {} /\ \A q \in Proc : ~At(q, "idle")' => q = p
      BY <3>2, TakenIdle DEF Unlocked, At
    <3>4. Taken' = IF e # "timeout" THEN {[approval |-> a, decision |-> e]} ELSE {}
      BY <3>2, <3>3 DEF Taken
    <3>5. CASE e = "timeout"
      BY <3>2, <3>3, <3>4, <3>5
    <3>6. CASE e # "timeout"
      BY <3>2, <3>3, <3>4, <3>6
         DEF Decided, Promised!DecisionNext, Promised!Take, Promised!approvalVars
    <3>. QED  BY <3>5, <3>6
  <2>4. CASE \E p \in Proc : Commit(p)
    <3>1. PICK p \in Proc : Commit(p)
      BY <2>4
    <3>2. TransactionSound(p) /\ ~At(p, "idle")
      BY <3>1, RunningSound DEF Commit, At
    <3>3. Taken' = {} /\ UNCHANGED clock
      BY <2>0, <3>1, <3>2, TakenInside DEF Commit
    <3>. DEFINE t == [approval |-> txn[p].approval, decision |-> txn[p].decision]
    <3>4. Taken = IF txn[p].decision # "timeout" THEN {t} ELSE {}
      BY <2>0, <3>2, TakenRunning
    <3>5. CASE UNCHANGED approvals
      BY <3>3, <3>4, <3>5 DEF Promised!DecisionNext, Promised!Abandon, Promised!approvalVars
    <3>6. CASE /\ approvals' = [approvals EXCEPT ![txn[p].approval] = txn[p].decision]
               /\ txn[p].decision = "timeout"
      BY <3>2, <3>3, <3>4, <3>6
         DEF TransactionSound, Promised!DecisionNext, Promised!TimeOut, Promised!Change
    <3>7. CASE /\ approvals' = [approvals EXCEPT ![txn[p].approval] = txn[p].decision]
               /\ txn[p].decision # "timeout"
      BY <3>2, <3>3, <3>4, <3>7
         DEF TransactionSound, Promised!DecisionNext, Promised!SaveTaken, Promised!Change
    <3>. QED  BY <3>1, <3>5, <3>6, <3>7 DEF Commit
  <2>5. CASE \E p \in Proc : \/ AddEntry(p) \/ AuditEntry(p) \/ AuditDecision(p)
                             \/ Save(p) \/ RollBack(p) \/ Crash(p)
    <3>1. PICK p \in Proc : \/ AddEntry(p) \/ AuditEntry(p) \/ AuditDecision(p)
                            \/ Save(p) \/ RollBack(p) \/ Crash(p)
      BY <2>5
    <3>2. /\ UNCHANGED <<approvals, clock>> /\ ~At(p, "idle")
          /\ (\E place \in Place \ {"idle"} : GoesTo(p, place)) \/ Ends(p)
      BY <3>1 DEF AddEntry, AuditEntry, AuditDecision, Save, RollBack, Crash, Unwinds, At, Place
    <3>3. Taken' = Taken \/ Taken' = {}
      BY <2>0, <3>2, TakenInside
    <3>. QED  BY <3>2, <3>3 DEF Promised!DecisionNext, Promised!Abandon, Promised!approvalVars
  <2>6. CASE UNCHANGED vars
    BY <2>6 DEF vars, Taken, At
  <2>. QED  BY <2>1, <2>2, <2>3, <2>4, <2>5, <2>6 DEF Next
<1>. QED BY <1>1, <1>2, StoreInvariance, PTL
         DEF Spec, ImplementsLifecycle, Promised!DecisionSpec
=============================================================================
