------------------------------ MODULE BrokerProofs ------------------------------
(***************************************************************************)
(* Lemmas about the broker and its idempotency store: the values, the      *)
(* operations of the store, and what one step can change.  Then: the       *)
(* invariant of BrokerInvariant is inductive, the safety properties of     *)
(* Broker follow from it, and Broker implements OnceOnly.                  *)
(***************************************************************************)
EXTENDS BrokerInvariant, TLAPS

-----------------------------------------------------------------------------
(***************************************************************************)
(* Facts about the values the broker handles.                              *)
(***************************************************************************)

\* The values FileBrokerIdempotencyStore writes are entries of its file.
LEMMA Entries ==
  /\ Free \in FileEntry
  /\ \A i \in Intent : InProgress(i) \in FileEntry
  /\ \A i \in Intent, v \in Verdict, e \in Event \cup {Null} : Cached(i, v, e) \in FileEntry
  /\ \A entry \in FileEntry : [entry EXCEPT !.pendingAudit = Null] \in FileEntry
BY DEF Free, InProgress, Cached, FileEntry

\* The fields of each shape.
LEMMA EntryFields ==
  /\ Free.status = "free" /\ Free.payload = Null /\ Free.result = Null
  /\ \A i : /\ InProgress(i).status = "in_progress" /\ InProgress(i).payload = i
            /\ InProgress(i).result = Null
  /\ \A i, v, e : /\ Cached(i, v, e).status = "cached" /\ Cached(i, v, e).payload = i
                  /\ Cached(i, v, e).result = v /\ Cached(i, v, e).pendingAudit = e
                  /\ [Cached(i, v, e) EXCEPT !.pendingAudit = Null] = Cached(i, v, Null)
BY DEF Free, InProgress, Cached

\* The three shapes of an entry, told apart by its status.
LEMMA EntryShapes ==
  ASSUME EntriesWellFormed, NEW k \in Key
  PROVE  /\ file[k].status \in {"free", "in_progress", "cached"}
         /\ file[k].status = "free" <=> file[k] = Free
         /\ file[k].status = "in_progress" =>
              \E i \in Intent : ScopedKey[i] = k /\ file[k] = InProgress(i)
         /\ file[k].status = "cached" =>
              \E i \in Intent, v \in Verdict, e \in Event \cup {Null} :
                ScopedKey[i] = k /\ file[k] = Cached(i, v, e)
         /\ file[k].status = "cached" <=> file[k].result # Null
<1>1. CASE file[k] = Free
  BY <1>1 DEF Free
<1>2. CASE \E i \in Intent : ScopedKey[i] = k /\ file[k] = InProgress(i)
  BY <1>2 DEF InProgress, Free
<1>3. CASE \E i \in Intent, v \in Verdict, e \in Event \cup {Null} :
             ScopedKey[i] = k /\ file[k] = Cached(i, v, e)
  <2>1. PICK i \in Intent, v \in Verdict, e \in Event \cup {Null} :
          ScopedKey[i] = k /\ file[k] = Cached(i, v, e)
    BY <1>3
  <2>2. /\ file[k].status = "cached" /\ file[k].result = v
        /\ file[k] # Free
    BY <2>1 DEF Cached, Free
  <2>. QED BY <2>1, <2>2, StoreAssumption
<1>. QED BY <1>1, <1>2, <1>3 DEF EntriesWellFormed

\* What a process remembers of a reservation: the owner and its payload.
LEMMA Reservations ==
  /\ \A c \in Call, i \in Intent : [owner |-> c, payload |-> i] \in Reservation
  /\ \A r \in Reservation : r.owner \in Call /\ r.payload \in Intent
BY DEF Reservation

\* Rejections and terminal results are recorded; the transient ones never are.
LEMMA Results ==
  /\ Rejection \subseteq Verdict /\ Terminal \subseteq Verdict
  /\ Unsent \subseteq Verdict
  /\ Transient \cap Verdict = {}
BY BrokerAssumption DEF Verdicts, Rejection, Terminal, Transient, Unsent

\* A call that is under way has a decision, a process, an intent and a key.
LEMMA Arguments ==
  ASSUME Called, NEW c \in Call, pc[c] # "idle"
  PROVE  /\ decision[c] \in Decision /\ proc[c] \in Proc
         /\ IntentOf(c) \in Intent /\ KeyOf(c) \in Key
         /\ decision[c].approvalId \in Approval \cup {Null}
         /\ \A v : EventOf(c, v) \in Event
<1>1. decision[c] \in DecisionRecord /\ proc[c] \in Proc
  BY BrokerAssumption DEF Called
<1>2. IntentOf(c) \in Intent /\ decision[c].correlation \in Correlation
  BY <1>1 DEF DecisionRecord, IntentOf
<1>3. KeyOf(c) \in Key
  BY <1>2, StoreAssumption DEF KeyOf
<1>4. \A v : EventOf(c, v) \in Event
  BY <1>2, BrokerAssumption DEF EventOf, TerminalEvent
<1>. QED BY <1>1, <1>2, <1>3, <1>4 DEF DecisionRecord, Called

-----------------------------------------------------------------------------
(***************************************************************************)
(* The operations of the store keep its types, whoever calls them.         *)
(***************************************************************************)

\* A reservation in the map of a process belongs to a call.
LEMMA ServedBySomeone ==
  ASSUME StoreTypeOK, NEW p \in Proc, NEW i \in Intent, JoinsPending(p, i)
  PROVE  Serving(p, i).owner \in Call /\ ScopedKey[i] \in Key
BY Reservations, StoreAssumption DEF StoreTypeOK, JoinsPending, Serving

\* Dropping a reservation keeps the type of the map.
LEMMA DropTypes ==
  ASSUME StoreTypeOK, NEW p \in Proc, NEW k \in Key, Drop(p, k)
  PROVE  pending' \in [Proc -> [Key -> Reservation \cup {Null}]]
BY DEF StoreTypeOK, Drop

\* withLockedState keeps the type of the file, however it ends.
LEMMA WriteTypes ==
  ASSUME StoreTypeOK, NEW k \in Key, NEW entry \in FileEntry, NEW o, WriteEntry(k, entry, o)
  PROVE  file' \in [Key -> FileEntry]
BY DEF StoreTypeOK, WriteEntry

\* complete keeps the types of the store.
LEMMA CompleteTypes ==
  ASSUME StoreTypeOK, NEW p \in Proc, NEW i \in Intent, NEW v \in Verdict,
         NEW e \in Event \cup {Null}, NEW o, Complete(p, i, v, e, o)
  PROVE  StoreTypeOK'
<1>1. CASE ~JoinsPending(p, i)
  BY <1>1 DEF Complete, storeVars, StoreTypeOK
<1>2. CASE JoinsPending(p, i)
  <2>1. file' \in [Key -> FileEntry]
    BY <1>2, ServedBySomeone, WriteTypes, Entries DEF Complete
  <2>2. CASE o = "ok" /\ e # Null
    BY <1>2, <2>1, <2>2 DEF Complete, StoreTypeOK
  <2>3. CASE ~(o = "ok" /\ e # Null)
    BY <1>2, <2>1, <2>3, ServedBySomeone, DropTypes DEF Complete, StoreTypeOK
  <2>. QED BY <2>2, <2>3
<1>. QED BY <1>1, <1>2

\* Clearing the audit debt of an entry keeps the type of the file.
LEMMA ClearPendingAuditTypes ==
  ASSUME StoreTypeOK, NEW i \in Intent, NEW o, ClearPendingAudit(i, o)
  PROVE  file' \in [Key -> FileEntry]
<1>1. ScopedKey[i] \in Key /\ file[ScopedKey[i]] \in FileEntry
  BY StoreAssumption DEF StoreTypeOK
<1>. QED BY <1>1, WriteTypes, Entries DEF ClearPendingAudit, StoreTypeOK

\* completeAudit keeps the types of the store when the entry it settles is typed.
LEMMA CompleteAuditTypes ==
  ASSUME StoreTypeOK, NEW p \in Proc, NEW i \in Intent, NEW o, CompleteAudit(p, i, o),
         file[ScopedKey[i]].status = "cached" => file[ScopedKey[i]].result \in Verdict
  PROVE  StoreTypeOK'
<1>1. file' \in [Key -> FileEntry]
  BY ClearPendingAuditTypes DEF CompleteAudit
<1>2. CASE ~JoinsPending(p, i)
  BY <1>1, <1>2 DEF CompleteAudit, StoreTypeOK
<1>3. CASE JoinsPending(p, i)
  <2>1. pending' \in [Proc -> [Key -> Reservation \cup {Null}]]
    BY <1>3, ServedBySomeone, DropTypes DEF CompleteAudit, StoreTypeOK
  <2>2. promise' \in [Call -> Verdict \cup {"open", "broken"}]
    BY <1>3, ServedBySomeone DEF CompleteAudit, StoreTypeOK
  <2>. QED BY <1>1, <2>1, <2>2 DEF StoreTypeOK
<1>. QED BY <1>2, <1>3

\* failAudit keeps the types of the store.
LEMMA FailAuditTypes ==
  ASSUME StoreTypeOK, NEW p \in Proc, NEW i \in Intent, FailAudit(p, i)
  PROVE  StoreTypeOK'
<1>1. CASE ~JoinsPending(p, i)
  BY <1>1 DEF FailAudit, storeVars, StoreTypeOK
<1>2. CASE JoinsPending(p, i)
  BY <1>2, ServedBySomeone, DropTypes DEF FailAudit, StoreTypeOK
<1>. QED BY <1>1, <1>2

\* abort keeps the types of the store.
LEMMA AbortTypes ==
  ASSUME StoreTypeOK, NEW p \in Proc, NEW i \in Intent, NEW o, Abort(p, i, o)
  PROVE  StoreTypeOK'
<1>1. CASE ~JoinsPending(p, i)
  BY <1>1 DEF Abort, storeVars, StoreTypeOK
<1>2. CASE JoinsPending(p, i)
  <2>1. file' \in [Key -> FileEntry]
    BY <1>2, ServedBySomeone, WriteTypes, Entries DEF Abort, StoreTypeOK
  <2>. QED BY <1>2, <2>1, ServedBySomeone, DropTypes DEF Abort, StoreTypeOK
<1>. QED BY <1>1, <1>2

\* Running to the next await, yielding and returning keep the types of a call.
LEMMA Steering ==
  ASSUME CallTypeOK, NEW c \in Call, proc[c] \in Proc
  PROVE  /\ \A q \in Place : Proceeds(c, q) \/ Awaits(c, q) =>
              /\ pc' \in [Call -> Place]
              /\ loop' \in [Proc -> Call \cup {Null}]
              /\ answer' \in [Call -> Verdict \cup Transient \cup {Null}]
         /\ \A a \in Verdict \cup Transient : Returns(c, a) =>
              /\ pc' \in [Call -> Place]
              /\ loop' \in [Proc -> Call \cup {Null}]
              /\ answer' \in [Call -> Verdict \cup Transient \cup {Null}]
         /\ \A q \in Place, v \in Verdict \cup Transient : Plans(c, q, v) =>
              /\ pc' \in [Call -> Place]
              /\ loop' \in [Proc -> Call \cup {Null}]
              /\ answer' \in [Call -> Verdict \cup Transient \cup {Null}]
              /\ verdict' \in [Call -> Verdict \cup Transient \cup {Null}]
<1>1. ASSUME NEW q \in Place, Proceeds(c, q) \/ Awaits(c, q)
      PROVE  /\ pc' \in [Call -> Place]
             /\ loop' \in [Proc -> Call \cup {Null}]
             /\ answer' \in [Call -> Verdict \cup Transient \cup {Null}]
  BY <1>1 DEF Proceeds, Awaits, CallTypeOK
<1>2. ASSUME NEW a \in Verdict \cup Transient, Returns(c, a)
      PROVE  /\ pc' \in [Call -> Place]
             /\ loop' \in [Proc -> Call \cup {Null}]
             /\ answer' \in [Call -> Verdict \cup Transient \cup {Null}]
  BY <1>2 DEF Returns, CallTypeOK, Place
<1>3. ASSUME NEW q \in Place, NEW v \in Verdict \cup Transient, Plans(c, q, v)
      PROVE  verdict' \in [Call -> Verdict \cup Transient \cup {Null}] /\ Proceeds(c, q)
  BY <1>3 DEF Plans, CallTypeOK
<1>. QED BY <1>1, <1>2, <1>3

-----------------------------------------------------------------------------
(***************************************************************************)
(* Frames: what a step means for one call.                                 *)
(***************************************************************************)

\* A step of one call leaves the others, and everybody's arguments, alone.
LEMMA CallFrame ==
  ASSUME CallTypeOK, NEW c \in Call, Step(c)
  PROVE  /\ decision' = decision /\ proc' = proc
         /\ \A d \in Call \ {c} :
              /\ pc'[d] = pc[d] /\ verdict'[d] = verdict[d] /\ answer'[d] = answer[d]
              /\ event'[d] = event[d] /\ owner'[d] = owner[d]
<1>. DEFINE Framed == /\ decision' = decision /\ proc' = proc
                      /\ \A d \in Call \ {c} :
                           /\ pc'[d] = pc[d] /\ verdict'[d] = verdict[d] /\ answer'[d] = answer[d]
                           /\ event'[d] = event[d] /\ owner'[d] = owner[d]
<1>1. CASE LookUpApproval(c) \/ BeginReserves(c) \/ BeginConflicts(c) \/ BeginFails(c)
  BY <1>1 DEF CallTypeOK, Running, Resuming, Proceeds, Awaits, Returns, Rejects, Plans,
     PlansAbort, PlansFinish, KeepCall, LookUpApproval, BeginReserves, BeginConflicts, BeginFails
<1>2. CASE BeginJoins(c) \/ BeginFindsCached(c)
  BY <1>2 DEF CallTypeOK, Running, Resuming, Proceeds, Awaits, Returns, Rejects, Plans,
     PlansAbort, PlansFinish, KeepCall, BeginJoins, BeginFindsCached
<1>3. CASE Wakes(c) \/ FlushAudit(c) \/ CloseFlush(c)
  BY <1>3 DEF CallTypeOK, Running, Resuming, Proceeds, Awaits, Returns, Rejects, Plans,
     PlansAbort, PlansFinish, KeepCall, Wakes, FlushAudit, CloseFlush
<1>4. CASE Precheck(c)
  BY <1>4 DEF CallTypeOK, Running, Resuming, Proceeds, Awaits, Returns, Rejects, Plans,
     PlansAbort, PlansFinish, KeepCall, Precheck, ApprovalFault, Guarded
<1>5. CASE Revalidated(c)
  BY <1>5 DEF CallTypeOK, Running, Resuming, Proceeds, Awaits, Returns, Rejects, Plans,
     PlansAbort, PlansFinish, KeepCall, Revalidated, Guarded
<1>6. CASE Consume(c)
  BY <1>6 DEF CallTypeOK, Running, Resuming, Proceeds, Awaits, Returns, Rejects, Plans,
     PlansAbort, PlansFinish, KeepCall, Consume
<1>7. CASE LastCheck(c) \/ Submit(c) \/ NeverSent(c) \/ NotSubmitted(c) \/ Settles(c)
  BY <1>7 DEF CallTypeOK, Running, Resuming, Proceeds, Awaits, Returns, Rejects, Plans,
     PlansAbort, PlansFinish, KeepCall, Submit, LastCheck, Prepares, NeverSent,
     NotSubmitted, Settles
<1>8. CASE CompleteResult(c) \/ WriteAudit(c) \/ CloseAudit(c)
  BY <1>8 DEF CallTypeOK, Running, Resuming, Proceeds, Awaits, Returns, Rejects, Plans,
     PlansAbort, PlansFinish, KeepCall, CompleteResult, WriteAudit, CloseAudit
<1>9. CASE Finish(c) \/ AbortReservation(c)
  BY <1>9 DEF CallTypeOK, Running, Resuming, Proceeds, Awaits, Returns, Rejects, Plans,
     PlansAbort, PlansFinish, KeepCall, Finish, AbortReservation
<1>. QED BY <1>1, <1>2, <1>3, <1>4, <1>5, <1>6, <1>7, <1>8, <1>9 DEF Step

\* A call that a step leaves as it was.
Unmoved(d) ==
  /\ decision'[d] = decision[d] /\ proc'[d] = proc[d] /\ pc'[d] = pc[d]
  /\ verdict'[d] = verdict[d] /\ answer'[d] = answer[d]
  /\ event'[d] = event[d] /\ owner'[d] = owner[d]

\* A call that a crash has ended.
Dies(d) ==
  /\ pc[d] # "done" /\ pc'[d] = "crashed"
  /\ decision'[d] = decision[d] /\ proc'[d] = proc[d]
  /\ verdict'[d] = verdict[d] /\ answer'[d] = answer[d]
  /\ event'[d] = event[d] /\ owner'[d] = owner[d]

\* What a step means for one call.
LEMMA CallSteps ==
  ASSUME CallTypeOK, [Next]_vars, NEW d \in Call
  PROVE  \/ Unmoved(d)
         \/ \E p \in Proc, x \in Decision : Receive(d, p, x)
         \/ Step(d)
         \/ \E p \in Proc : Crash(p) /\ proc[d] = p /\ Dies(d)
<1>1. ASSUME NEW c \in Call, Step(c) PROVE c = d \/ Unmoved(d)
  BY <1>1, CallFrame DEF Unmoved
<1>2. ASSUME NEW c \in Call, NEW p \in Proc, NEW x \in Decision, Receive(c, p, x)
      PROVE  c = d \/ Unmoved(d)
  BY <1>2 DEF Receive, Unmoved, CallTypeOK
<1>3. ASSUME NEW p \in Proc, Crash(p) PROVE Unmoved(d) \/ (proc[d] = p /\ Dies(d))
  BY <1>3 DEF Crash, Unmoved, Dies
<1>4. CASE UNCHANGED callVars
  BY <1>4 DEF callVars, Unmoved
<1>5. UNCHANGED vars => UNCHANGED callVars
  BY DEF vars, callVars
<1>6. ApprovalServiceActs => UNCHANGED callVars
  BY DEF ApprovalServiceActs
<1>7. ASSUME NEW p \in Proc, NEW s \in Scope,
             Activate(p, s) \/ Deactivate(p, s) \/ FallsSilent(p, s) \/ Recovers(p, s)
      PROVE  UNCHANGED callVars
  BY <1>7 DEF Activate, Deactivate, FallsSilent, Recovers
<1>. QED BY <1>1, <1>2, <1>3, <1>4, <1>5, <1>6, <1>7 DEF Next, EnvironmentStep

\* Once it is called, a call keeps its arguments and does not become idle.
LEMMA ArgumentsKept ==
  ASSUME CallTypeOK, [Next]_vars, NEW d \in Call, pc[d] # "idle"
  PROVE  /\ decision'[d] = decision[d] /\ proc'[d] = proc[d] /\ pc'[d] # "idle"
         /\ IntentOf(d)' = IntentOf(d) /\ KeyOf(d)' = KeyOf(d)
<1>1. decision'[d] = decision[d] /\ proc'[d] = proc[d] /\ pc'[d] # "idle"
  <2>1. CASE Step(d)
    <3>1. decision'[d] = decision[d] /\ proc'[d] = proc[d]
      BY <2>1, CallFrame
    <3>2. pc'[d] # "idle"
      BY <2>1 DEF Step, CallTypeOK, LookUpApproval, BeginReserves, BeginJoins, BeginConflicts,
         BeginFails,
         BeginFindsCached, Wakes, FlushAudit, CloseFlush, Precheck, Revalidated, Consume,
         Submit, LastCheck, Prepares, NeverSent,
         NotSubmitted,
         Settles, CompleteResult, WriteAudit, CloseAudit, Finish, AbortReservation,
         Proceeds, Awaits, Returns, Rejects, Plans, PlansAbort, PlansFinish, ApprovalFault,
         Guarded
    <3>. QED BY <3>1, <3>2
  <2>2. ~ \E p \in Proc, x \in Decision : Receive(d, p, x)
    BY DEF Receive
  <2>. QED BY <2>1, <2>2, CallSteps DEF Unmoved, Dies
<1>. QED BY <1>1 DEF IntentOf, KeyOf

\* A call gives its answer when it ends, and never another.
LEMMA AnswersWhenDone ==
  ASSUME TypeOK, Called, [Next]_vars, NEW c \in Call, pc'[c] # "done" \/ answer'[c] # answer[c]
  PROVE  /\ answer[c] = Null
         /\ pc'[c] # "done" => answer'[c] = Null
<1>. USE DEF TypeOK
<1>1. CASE Step(c)
  <2>1. pc[c] # "done"
    BY <1>1 DEF Step, LookUpApproval, BeginReserves, BeginJoins, BeginConflicts, BeginFails,
       BeginFindsCached, Wakes, FlushAudit, CloseFlush, Precheck, Revalidated, Consume, Submit,
       LastCheck, Prepares, NeverSent,
       NotSubmitted, Settles, CompleteResult, WriteAudit, CloseAudit, Finish, AbortReservation,
       Running, Resuming
  <2>2. pc'[c] # "done" => answer'[c] = answer[c]
    BY <1>1 DEF Step, CallTypeOK, LookUpApproval, BeginReserves, BeginJoins, BeginConflicts,
       BeginFails, BeginFindsCached, Wakes, FlushAudit, CloseFlush, Precheck, Revalidated,
       Consume,
       Submit, LastCheck, Prepares, NeverSent,
       NotSubmitted, Settles, CompleteResult, WriteAudit, CloseAudit, Finish,
       AbortReservation, Proceeds, Awaits, Returns, Rejects, Plans, PlansAbort, PlansFinish,
       ApprovalFault, Guarded
  <2>. QED BY <2>1, <2>2 DEF Called
<1>2. CASE Unmoved(c) \/ Dies(c)
  BY <1>2 DEF Unmoved, Dies, Called
<1>3. CASE \E p \in Proc, x \in Decision : Receive(c, p, x)
  BY <1>3 DEF Receive, CallTypeOK, Called
<1>. QED BY <1>1, <1>2, <1>3, CallSteps

\* A reservation is gained by BeginReserves only.
LEMMA NewHolder ==
  ASSUME CallTypeOK, [Next]_vars, NEW d \in Call, Holds(d)'
  PROVE  /\ Holds(d) \/ BeginReserves(d)
         /\ pc[d] # "idle"
         /\ decision'[d] = decision[d] /\ proc'[d] = proc[d]
         /\ IntentOf(d)' = IntentOf(d) /\ KeyOf(d)' = KeyOf(d)
<1>1. Holds(d) \/ BeginReserves(d)
  <2>1. CASE Step(d)
    BY <2>1 DEF Step, CallTypeOK, LookUpApproval, BeginJoins, BeginConflicts, BeginFails,
       BeginFindsCached, Wakes, FlushAudit, CloseFlush, Precheck, Revalidated, Consume, Submit,
       LastCheck, Prepares, NeverSent,
       NotSubmitted,
       Settles, CompleteResult, WriteAudit, CloseAudit, Finish, AbortReservation, Running,
       Resuming,
       Proceeds, Awaits, Returns, Rejects, Plans, PlansAbort, PlansFinish, ApprovalFault, Guarded,
       Holds, Holding
  <2>2. CASE Unmoved(d) \/ Dies(d)
    BY <2>2 DEF Unmoved, Dies, Holds, Holding
  <2>3. ~ \E p \in Proc, x \in Decision : Receive(d, p, x)
    BY DEF Receive, Holds, Holding, CallTypeOK
  <2>. QED BY <2>1, <2>2, <2>3, CallSteps
<1>2. pc[d] # "idle"
  BY <1>1 DEF Holds, Holding, BeginReserves, Running
<1>. QED BY <1>1, <1>2, ArgumentsKept

LEMMA StaysBeyond ==
  ASSUME CallTypeOK, [Next]_vars, NEW d \in Call, pc[d] \in Beyond
  PROVE  pc'[d] \in Beyond
<1>1. CASE Step(d)
  BY <1>1
     DEF Step, CallTypeOK, LookUpApproval, BeginReserves, BeginJoins, BeginConflicts, BeginFails,
     BeginFindsCached, Wakes, FlushAudit, CloseFlush, Precheck, Revalidated, Consume, Submit,
     LastCheck, Prepares, NeverSent,
     NotSubmitted,
     Settles, CompleteResult, WriteAudit, CloseAudit, Finish, AbortReservation, Running, Resuming,
     Proceeds, Awaits, Returns, Plans, Beyond
<1>2. CASE Unmoved(d) \/ Dies(d)
  BY <1>2 DEF Unmoved, Dies, Beyond
<1>3. ~ \E p \in Proc, x \in Decision : Receive(d, p, x)
  BY DEF Receive, Beyond
<1>. QED BY <1>1, <1>2, <1>3, CallSteps

\* Where the acting call is when it owes an event.
LEMMA OwingPlaces ==
  ASSUME TypeOK, [Next]_vars, NEW c \in Call
  PROVE  /\ pc'[c] \in {"audit", "auditUnstored"} =>
              CompleteResult(c) \/ (pc[c] = pc'[c] /\ verdict'[c] = verdict[c])
         /\ pc'[c] = "closeAudit" =>
              \/ /\ WriteAudit(c) /\ pc[c] = "audit" /\ verdict'[c] = verdict[c]
                 /\ EventOf(c, verdict[c]) \in trail'
              \/ pc[c] = "closeAudit" /\ verdict'[c] = verdict[c]
         /\ pc'[c] = "flush" =>
              \/ BeginFindsCached(c)
              \/ pc[c] = "flush" /\ verdict'[c] = verdict[c] /\ event'[c] = event[c]
         /\ pc'[c] = "closeFlush" =>
              /\ verdict'[c] = verdict[c] /\ event'[c] = event[c]
              /\ pc[c] = "closeFlush" \/ (pc[c] = "flush" /\ FlushAudit(c) /\ event[c] \in trail')
<1>. USE DEF TypeOK
<1>1. CASE Step(c)
  <2>1. CASE WriteAudit(c)
    <3>1. verdict'[c] = verdict[c]
      BY <2>1 DEF WriteAudit
    <3>2. \/ pc'[c] = "done"
          \/ pc[c] = "audit" /\ pc'[c] = "closeAudit" /\ EventOf(c, verdict[c]) \in trail'
      BY <2>1 DEF WriteAudit, Running, Proceeds, Returns, CallTypeOK
    <3>. QED BY <2>1, <3>1, <3>2
  <2>2. CASE CompleteResult(c)
    BY <2>2 DEF CompleteResult, Proceeds, CallTypeOK
  <2>3. CASE FlushAudit(c)
    BY <2>3 DEF FlushAudit, Running, Proceeds, Returns, CallTypeOK, KeepCall
  <2>5. CASE BeginFindsCached(c)
    <3>1. pc'[c] = "done" \/ pc'[c] = "flush"
      BY <2>5 DEF BeginFindsCached, Proceeds, Returns, CallTypeOK
    <3>. QED BY <2>5, <3>1
  <2>4. ASSUME ~ WriteAudit(c), ~ CompleteResult(c), ~ FlushAudit(c), ~ BeginFindsCached(c)
        PROVE  pc'[c] \notin {"audit", "auditUnstored", "closeAudit", "flush", "closeFlush"}
    BY <1>1, <2>4 DEF Step, CallTypeOK, LookUpApproval, BeginReserves, BeginJoins, BeginConflicts,
       BeginFails, Wakes, CloseFlush, Precheck, Revalidated, Consume, Submit, LastCheck, Prepares, NeverSent,
       NotSubmitted,
       Settles, CloseAudit, Finish, AbortReservation, Proceeds, Awaits, Returns,
       Rejects, Plans, PlansAbort, PlansFinish, ApprovalFault, Guarded
  <2>. QED BY <2>1, <2>2, <2>3, <2>4, <2>5
<1>2. CASE Unmoved(c) \/ Dies(c)
  BY <1>2 DEF Unmoved, Dies
<1>3. CASE \E p \in Proc, x \in Decision : Receive(c, p, x)
  BY <1>3 DEF Receive, CallTypeOK
<1>. QED BY <1>1, <1>2, <1>3, CallSteps

-----------------------------------------------------------------------------
(***************************************************************************)
(* Frames: what a step means for the store, the effects and the audit log. *)
(***************************************************************************)

\* Only the steps of a reservation, the flush of a debt and a crash touch the
\* store.
LEMMA StoreFrame ==
  ASSUME [Next]_vars
  PROVE  \/ UNCHANGED storeVars
         \/ \E c \in Call :
              \/ BeginReserves(c) \/ CloseFlush(c) \/ CompleteResult(c) \/ WriteAudit(c)
              \/ CloseAudit(c) \/ Finish(c) \/ AbortReservation(c)
         \/ \E p \in Proc : Crash(p)
BY DEF Next, Step, EnvironmentStep, vars, storeVars, KeepShared,
   Receive, LookUpApproval, BeginJoins, BeginConflicts, BeginFails, BeginFindsCached, Wakes,
   FlushAudit, Precheck, Revalidated, Consume, Submit, LastCheck, Prepares, NeverSent,
   NotSubmitted, Settles, Activate,
   Deactivate, FallsSilent, Recovers, ApprovalServiceActs

\* withLockedState changes one entry, or none.
LEMMA WriteStep ==
  ASSUME StoreTypeOK, NEW k \in Key, NEW entry, NEW o, WriteEntry(k, entry, o), NEW j \in Key
  PROVE  file'[j] = file[j] \/ (j = k /\ file'[j] = entry)
BY DEF StoreTypeOK, WriteEntry

\* A call that holds a reservation finds it in the map, as its own.
LEMMA HolderServed ==
  ASSUME Called, HolderKnown, NEW c \in Call, Holds(c)
  PROVE  /\ pc[c] # "idle"
         /\ JoinsPending(proc[c], IntentOf(c))
         /\ Serving(proc[c], IntentOf(c)) = [owner |-> c, payload |-> IntentOf(c)]
         /\ Serving(proc[c], IntentOf(c)).owner = c
         /\ file[KeyOf(c)] = InProgress(IntentOf(c))
<1>1. pc[c] # "idle"
  BY DEF Holds, Holding
<1>2. /\ Serving(proc[c], IntentOf(c)) = [owner |-> c, payload |-> IntentOf(c)]
      /\ file[KeyOf(c)] = InProgress(IntentOf(c))
  BY DEF HolderKnown, Serving, KeyOf
<1>3. [owner |-> c, payload |-> IntentOf(c)] \in [owner : Call, payload : Intent]
  BY <1>1, Arguments
<1>. QED BY <1>1, <1>2, <1>3, StoreAssumption DEF JoinsPending

\* The entry of a holder reads in_progress.
LEMMA HolderEntry ==
  ASSUME Called, HolderKnown, NEW c \in Call, Holds(c)
  PROVE  /\ pc[c] # "idle" /\ file[KeyOf(c)].status = "in_progress"
         /\ file[KeyOf(c)].payload = IntentOf(c) /\ file[KeyOf(c)].result = Null
<1>1. pc[c] # "idle" /\ file[KeyOf(c)] = InProgress(IntentOf(c))
  BY HolderServed
<1>. QED BY <1>1, EntryFields

\* The ways an entry of the file changes.
LEMMA FileStep ==
  ASSUME TypeOK, Called, HolderKnown, [Next]_vars, NEW k \in Key, file'[k] # file[k]
  PROVE  \E c \in Call :
           /\ pc[c] # "idle" /\ KeyOf(c) = k
           /\ \/ /\ BeginReserves(c)
                 /\ file[k] = Free /\ file'[k] = InProgress(IntentOf(c))
              \/ /\ CompleteResult(c) /\ Holds(c) /\ file[k] = InProgress(IntentOf(c))
                 /\ file'[k] = Cached(IntentOf(c), verdict[c], EventOf(c, verdict[c]))
              \/ /\ Finish(c) /\ Holds(c) /\ file[k] = InProgress(IntentOf(c))
                 /\ file'[k] = Cached(IntentOf(c), verdict[c], Null)
              \/ /\ AbortReservation(c) /\ Holds(c) /\ file[k] = InProgress(IntentOf(c))
                 /\ file'[k] = Free
              \/ /\ CloseFlush(c) \/ CloseAudit(c)
                 /\ file[k].status = "cached" /\ file[k].payload = IntentOf(c)
                 /\ file'[k] = [file[k] EXCEPT !.pendingAudit = Null]
<1>. USE Arguments DEF TypeOK
<1>0. ASSUME NEW c \in Call, pc[c] # "idle" PROVE ScopedKey[IntentOf(c)] = KeyOf(c)
  BY DEF KeyOf
<1>1. ~ UNCHANGED storeVars
  BY DEF storeVars
<1>2. ~ \E p \in Proc : Crash(p)
  BY DEF Crash, ForgetReservations
<1>3. ASSUME NEW c \in Call, BeginReserves(c)
      PROVE  /\ pc[c] # "idle" /\ KeyOf(c) = k
             /\ file[k] = Free /\ file'[k] = InProgress(IntentOf(c))
  <2>1. pc[c] # "idle"
    BY <1>3 DEF BeginReserves, Running
  <2>. QED BY <1>0, <1>3, <2>1, WriteStep DEF BeginReserves, Reserve
<1>4. ASSUME NEW c \in Call, CompleteResult(c)
      PROVE  /\ pc[c] # "idle" /\ KeyOf(c) = k /\ Holds(c) /\ file[k] = InProgress(IntentOf(c))
             /\ file'[k] = Cached(IntentOf(c), verdict[c], EventOf(c, verdict[c]))
  <2>1. pc[c] # "idle" /\ Holds(c)
    BY <1>4 DEF CompleteResult, Running, Holds, Holding
  <2>2. PICK o : Complete(proc[c], IntentOf(c), verdict[c], EventOf(c, verdict[c]), o)
    BY <1>4 DEF CompleteResult
  <2>3. WriteEntry(KeyOf(c), Cached(IntentOf(c), verdict[c], EventOf(c, verdict[c])), o)
    BY <1>0, <2>1, <2>2, HolderServed DEF Complete
  <2>4. file[KeyOf(c)] = InProgress(IntentOf(c))
    BY <2>1, HolderServed
  <2>5. KeyOf(c) = k
    BY <2>1, <2>3 DEF WriteEntry, StoreTypeOK
  <2>. QED BY <2>1, <2>3, <2>4, <2>5 DEF WriteEntry, StoreTypeOK
<1>5. ASSUME NEW c \in Call, Finish(c)
      PROVE  /\ pc[c] # "idle" /\ KeyOf(c) = k /\ Holds(c) /\ file[k] = InProgress(IntentOf(c))
             /\ file'[k] = Cached(IntentOf(c), verdict[c], Null)
  <2>1. pc[c] # "idle" /\ Holds(c)
    BY <1>5 DEF Finish, Running, Holds, Holding
  <2>2. PICK o : Complete(proc[c], IntentOf(c), verdict[c], Null, o)
    BY <1>5 DEF Finish
  <2>3. WriteEntry(KeyOf(c), Cached(IntentOf(c), verdict[c], Null), o)
    BY <1>0, <2>1, <2>2, HolderServed DEF Complete
  <2>4. file[KeyOf(c)] = InProgress(IntentOf(c))
    BY <2>1, HolderServed
  <2>5. KeyOf(c) = k
    BY <2>1, <2>3 DEF WriteEntry, StoreTypeOK
  <2>. QED BY <2>1, <2>3, <2>4, <2>5 DEF WriteEntry, StoreTypeOK
<1>6. ASSUME NEW c \in Call, AbortReservation(c)
      PROVE  /\ pc[c] # "idle" /\ KeyOf(c) = k /\ Holds(c) /\ file[k] = InProgress(IntentOf(c))
             /\ file'[k] = Free
  <2>1. pc[c] # "idle" /\ Holds(c)
    BY <1>6 DEF AbortReservation, Running, Holds, Holding
  <2>. QED BY <1>0, <1>6, <2>1, WriteStep, HolderServed DEF AbortReservation, Abort
<1>7. ASSUME NEW c \in Call, CloseFlush(c) \/ CloseAudit(c)
      PROVE  /\ pc[c] # "idle" /\ KeyOf(c) = k
             /\ file[k].status = "cached" /\ file[k].payload = IntentOf(c)
             /\ file'[k] = [file[k] EXCEPT !.pendingAudit = Null]
  <2>1. pc[c] # "idle"
    BY <1>7 DEF CloseFlush, CloseAudit, Running
  <2>. QED BY <1>0, <1>7, <2>1, WriteStep
           DEF CloseFlush, CloseAudit, FlushedAudit, CompleteAudit, ClearPendingAudit
<1>8. ~ \E c \in Call : WriteAudit(c)
  BY DEF WriteAudit, FailAudit, storeVars
<1>. QED BY <1>1, <1>2, <1>3, <1>4, <1>5, <1>6, <1>7, <1>8, StoreFrame

\* The ways a process forgets a reservation or learns of one.
LEMMA MapStep ==
  ASSUME TypeOK, Called, HolderKnown, [Next]_vars, NEW p \in Proc, NEW k \in Key,
         pending'[p][k] # pending[p][k]
  PROVE  \/ Crash(p) /\ pending'[p][k] = Null
         \/ \E c \in Call :
              /\ pc[c] # "idle" /\ KeyOf(c) = k /\ proc[c] = p
              /\ \/ /\ BeginReserves(c) /\ file[k] = Free /\ pc'[c] = "precheck"
                    /\ pending'[p][k] = [owner |-> c, payload |-> IntentOf(c)]
                 \/ /\ CompleteResult(c) \/ Finish(c) \/ AbortReservation(c)
                    /\ Holds(c) /\ pending'[p][k] = Null
                 \/ /\ WriteAudit(c) \/ CloseAudit(c)
                    /\ pending[p][k] # Null /\ pending[p][k].payload = IntentOf(c)
                    /\ pending'[p][k] = Null
<1>. USE Arguments DEF TypeOK
<1>0. ASSUME NEW c \in Call, pc[c] # "idle" PROVE ScopedKey[IntentOf(c)] = KeyOf(c)
  BY DEF KeyOf
<1>1. ~ UNCHANGED storeVars
  BY DEF storeVars
<1>2. ASSUME NEW q \in Proc, NEW j \in Key, Drop(q, j)
      PROVE  p = q /\ k = j /\ pending'[p][k] = Null
  BY <1>2 DEF Drop, StoreTypeOK
<1>3. ASSUME NEW q \in Proc, Crash(q) PROVE p = q /\ pending'[p][k] = Null
  BY <1>3 DEF Crash, ForgetReservations, StoreTypeOK
<1>4. ASSUME NEW c \in Call, BeginReserves(c)
      PROVE  /\ pc[c] # "idle" /\ KeyOf(c) = k /\ proc[c] = p
             /\ file[k] = Free /\ pc'[c] = "precheck"
             /\ pending'[p][k] = [owner |-> c, payload |-> IntentOf(c)]
  <2>1. pc[c] # "idle"
    BY <1>4 DEF BeginReserves, Running
  <2>. QED BY <1>0, <1>4, <2>1 DEF BeginReserves, Reserve, StoreTypeOK, CallTypeOK, Proceeds
<1>5. ASSUME NEW c \in Call, CompleteResult(c) \/ Finish(c) \/ AbortReservation(c)
      PROVE  /\ pc[c] # "idle" /\ KeyOf(c) = k /\ proc[c] = p /\ Holds(c)
             /\ pending'[p][k] = Null
  <2>1. pc[c] # "idle" /\ Holds(c)
    BY <1>5 DEF CompleteResult, Finish, AbortReservation, Running, Holds, Holding
  <2>. QED BY <1>0, <1>2, <1>5, <2>1, HolderServed
           DEF CompleteResult, Finish, AbortReservation, Complete, Abort
<1>6. ASSUME NEW c \in Call, WriteAudit(c) \/ CloseAudit(c)
      PROVE  /\ pc[c] # "idle" /\ KeyOf(c) = k /\ proc[c] = p
             /\ pending[p][k] # Null /\ pending[p][k].payload = IntentOf(c)
             /\ pending'[p][k] = Null
  <2>1. pc[c] # "idle"
    BY <1>6 DEF WriteAudit, CloseAudit, Running
  <2>. QED BY <1>0, <1>1, <1>2, <1>6, <2>1
           DEF WriteAudit, CloseAudit, FailAudit, CompleteAudit, JoinsPending, Serving, storeVars
<1>7. ~ \E c \in Call : CloseFlush(c)
  BY DEF CloseFlush, FlushedAudit
<1>. QED BY <1>1, <1>3, <1>4, <1>5, <1>6, <1>7, StoreFrame

\* The ways a promise settles.
LEMMA PromiseStep ==
  ASSUME TypeOK, Called, HolderKnown, MapSound, [Next]_vars, NEW o \in Call,
         promise'[o] # promise[o]
  PROVE  /\ pc[o] # "idle"
         /\ \/ promise'[o] = "broken"
            \/ /\ Finish(o) /\ Holds(o) /\ promise'[o] = verdict[o]
               /\ file'[KeyOf(o)] = Cached(IntentOf(o), verdict[o], Null)
            \/ \E c \in Call :
                 /\ CloseAudit(c) /\ IntentOf(o) = IntentOf(c) /\ KeyOf(o) = KeyOf(c)
                 /\ file[KeyOf(o)].status = "cached" /\ file[KeyOf(o)].payload = IntentOf(o)
                 /\ file'[KeyOf(o)] = [file[KeyOf(o)] EXCEPT !.pendingAudit = Null]
                 /\ promise'[o] = file[KeyOf(o)].result
<1>. USE Arguments DEF TypeOK
<1>0. ASSUME NEW c \in Call, pc[c] # "idle" PROVE ScopedKey[IntentOf(c)] = KeyOf(c)
  BY DEF KeyOf
<1>1. ~ UNCHANGED storeVars
  BY DEF storeVars
<1>2. ASSUME NEW c \in Call, CompleteResult(c) \/ AbortReservation(c)
      PROVE  pc[o] # "idle" /\ promise'[o] = "broken"
  <2>1. pc[c] # "idle" /\ Holds(c)
    BY <1>2 DEF CompleteResult, AbortReservation, Running, Holds, Holding
  <2>2. EventOf(c, verdict[c]) # Null
    BY <2>1, StoreAssumption
  <2>. QED BY <1>0, <1>2, <2>1, <2>2, HolderServed
           DEF CompleteResult, AbortReservation, Complete, Abort, StoreTypeOK
<1>3. ASSUME NEW c \in Call, Finish(c)
      PROVE  /\ pc[o] # "idle" /\ o = c /\ Holds(o)
             /\ \/ promise'[o] = "broken"
                \/ promise'[o] = verdict[o] /\ file'[KeyOf(o)] = Cached(IntentOf(o), verdict[o], Null)
  <2>1. pc[c] # "idle" /\ Holds(c)
    BY <1>3 DEF Finish, Running, Holds, Holding
  <2>2. PICK r : Complete(proc[c], IntentOf(c), verdict[c], Null, r)
    BY <1>3 DEF Finish
  <2>3. /\ WriteEntry(KeyOf(c), Cached(IntentOf(c), verdict[c], Null), r)
        /\ promise' = [promise EXCEPT ![c] = IF r = "ok" THEN verdict[c] ELSE "broken"]
    BY <1>0, <2>1, <2>2, HolderServed DEF Complete
  <2>4. o = c
    BY <2>3 DEF StoreTypeOK
  <2>. QED BY <2>1, <2>3, <2>4 DEF StoreTypeOK, WriteEntry
<1>4. ASSUME NEW c \in Call, pc[c] # "idle", JoinsPending(proc[c], IntentOf(c))
      PROVE  LET w == Serving(proc[c], IntentOf(c)).owner IN
             w \in Call /\ pc[w] # "idle" /\ IntentOf(w) = IntentOf(c) /\ KeyOf(w) = KeyOf(c)
  BY <1>0, <1>4, ServedBySomeone DEF JoinsPending, Serving, MapSound
<1>5. ASSUME NEW c \in Call, WriteAudit(c)
      PROVE  pc[o] # "idle" /\ promise'[o] = "broken"
  <2>1. pc[c] # "idle"
    BY <1>5 DEF WriteAudit, Running
  <2>. QED BY <1>1, <1>4, <1>5, <2>1 DEF WriteAudit, FailAudit, storeVars, StoreTypeOK
<1>6. ASSUME NEW c \in Call, CloseAudit(c)
      PROVE  /\ pc[o] # "idle"
             /\ \/ promise'[o] = "broken"
                \/ /\ CloseAudit(c) /\ IntentOf(o) = IntentOf(c) /\ KeyOf(o) = KeyOf(c)
                   /\ file[KeyOf(o)].status = "cached" /\ file[KeyOf(o)].payload = IntentOf(o)
                   /\ file'[KeyOf(o)] = [file[KeyOf(o)] EXCEPT !.pendingAudit = Null]
                   /\ promise'[o] = file[KeyOf(o)].result
  <2>1. pc[c] # "idle"
    BY <1>6 DEF CloseAudit, Running
  <2>2. PICK r : CompleteAudit(proc[c], IntentOf(c), r)
    BY <1>6 DEF CloseAudit
  <2>3. /\ JoinsPending(proc[c], IntentOf(c))
        /\ o = Serving(proc[c], IntentOf(c)).owner
    BY <2>1, <2>2 DEF CompleteAudit, StoreTypeOK
  <2>4. pc[o] # "idle" /\ IntentOf(o) = IntentOf(c) /\ KeyOf(o) = KeyOf(c)
    BY <1>4, <2>1, <2>3
  <2>5. CASE r = "ok" /\ file[KeyOf(c)].status = "cached" /\ file[KeyOf(c)].payload = IntentOf(c)
    <3>1. promise'[o] = file[KeyOf(c)].result
      BY <1>0, <2>1, <2>2, <2>3, <2>5 DEF CompleteAudit, StoreTypeOK
    <3>2. file'[KeyOf(c)] = [file[KeyOf(c)] EXCEPT !.pendingAudit = Null]
      BY <1>0, <2>1, <2>2, <2>5 DEF CompleteAudit, ClearPendingAudit, WriteEntry, StoreTypeOK
    <3>. QED BY <1>6, <2>4, <2>5, <3>1, <3>2
  <2>6. CASE ~(r = "ok" /\ file[KeyOf(c)].status = "cached" /\ file[KeyOf(c)].payload = IntentOf(c))
    <3>1. promise'[o] = "broken"
      BY <1>0, <2>1, <2>2, <2>3, <2>6 DEF CompleteAudit, StoreTypeOK
    <3>. QED BY <2>4, <3>1
  <2>. QED BY <2>5, <2>6
<1>7. ~ \E c \in Call : BeginReserves(c) \/ CloseFlush(c)
  BY DEF CloseFlush, FlushedAudit, BeginReserves, Reserve
<1>8. ~ \E p \in Proc : Crash(p)
  BY DEF Crash, ForgetReservations
<1>. QED BY <1>1, <1>2, <1>3, <1>5, <1>6, <1>7, <1>8, StoreFrame

\* A key that has an entry loses it only when its holder aborts.
LEMMA OpenedByAbort ==
  ASSUME TypeOK, Called, EntriesWellFormed, HolderKnown, [Next]_vars, NEW k \in Key,
         file[k].status # "free", file'[k].status = "free"
  PROVE  \E d \in Call : AbortReservation(d) /\ Holds(d) /\ KeyOf(d) = k
<1>1. PICK c \in Call :
         /\ KeyOf(c) = k
         /\ \/ file[k] = Free
            \/ file'[k] = Cached(IntentOf(c), verdict[c], EventOf(c, verdict[c]))
            \/ file'[k] = Cached(IntentOf(c), verdict[c], Null)
            \/ AbortReservation(c) /\ Holds(c)
            \/ file[k].status = "cached" /\ file'[k] = [file[k] EXCEPT !.pendingAudit = Null]
  BY FileStep
<1>2. ASSUME file[k].status = "cached", file'[k] = [file[k] EXCEPT !.pendingAudit = Null]
      PROVE  file'[k].status = "cached"
  BY <1>2, EntryShapes, EntryFields
<1>. QED BY <1>1, <1>2, EntryFields

\* A new reservation is for a key that had no entry.
LEMMA ReservedWasFree ==
  ASSUME TypeOK, NEW d \in Call, BeginReserves(d)
  PROVE  file[KeyOf(d)].status = "free"
BY EntryFields DEF BeginReserves, Reserve, KeyOf

\* A recorded result stays as it is.
LEMMA RecordKept ==
  ASSUME TypeOK, Called, EntriesWellFormed, HolderKnown, [Next]_vars, NEW k \in Key,
         file[k].status = "cached"
  PROVE  /\ file'[k].status = "cached" /\ file'[k].payload = file[k].payload
         /\ file'[k].result = file[k].result
         /\ file'[k].pendingAudit # file[k].pendingAudit =>
              /\ file'[k].pendingAudit = Null
              /\ \E c \in Call : pc[c] # "idle" /\ (CloseFlush(c) \/ CloseAudit(c)) /\ KeyOf(c) = k
                                 /\ IntentOf(c) = file[k].payload
<1>1. SUFFICES ASSUME file'[k] # file[k]
      PROVE  /\ file'[k].status = "cached" /\ file'[k].payload = file[k].payload
             /\ file'[k].result = file[k].result
             /\ file'[k].pendingAudit # file[k].pendingAudit =>
                  /\ file'[k].pendingAudit = Null
                  /\ \E c \in Call : pc[c] # "idle" /\ (CloseFlush(c) \/ CloseAudit(c))
                                     /\ KeyOf(c) = k /\ IntentOf(c) = file[k].payload
  OBVIOUS
<1>2. file[k] # Free /\ \A i : file[k] # InProgress(i)
  BY EntryFields
<1>3. PICK c \in Call : /\ pc[c] # "idle" /\ (CloseFlush(c) \/ CloseAudit(c)) /\ KeyOf(c) = k
                        /\ file[k].payload = IntentOf(c)
                        /\ file'[k] = [file[k] EXCEPT !.pendingAudit = Null]
  BY <1>1, <1>2, FileStep
<1>4. PICK i, v, e : file[k] = Cached(i, v, e)
  BY EntryShapes
<1>5. file'[k] = Cached(i, v, Null)
  BY <1>3, <1>4, EntryFields
<1>6. /\ file'[k].status = "cached" /\ file'[k].payload = file[k].payload
      /\ file'[k].result = file[k].result /\ file'[k].pendingAudit = Null
  BY <1>4, <1>5, EntryFields
<1>. QED BY <1>3, <1>6

\* A recorded result stays the recorded result.
LEMMA RecordedStays ==
  ASSUME TypeOK, Called, EntriesWellFormed, HolderKnown, [Next]_vars, NEW c \in Call, NEW v,
         pc[c] # "idle", RecordedFor(c, v)
  PROVE  /\ file'[KeyOf(c)].status = "cached" /\ file'[KeyOf(c)].payload = IntentOf(c)
         /\ file'[KeyOf(c)].result = v
BY Arguments, RecordKept DEF RecordedFor

\* Only Submit causes a side effect.
LEMMA EffectsStep ==
  ASSUME [Next]_vars
  PROVE  UNCHANGED effects \/ \E c \in Call : Submit(c) /\ effects' = effects \cup {c}
BY DEF Next, Step, EnvironmentStep, vars, KeepShared, Receive, LookUpApproval, BeginReserves,
   BeginJoins, BeginConflicts, BeginFails, BeginFindsCached, Wakes, FlushAudit, CloseFlush,
   Precheck, Revalidated, Consume, Submit, LastCheck, Prepares, NeverSent,
   NotSubmitted, Settles, CompleteResult, WriteAudit,
   CloseAudit, Finish, AbortReservation, Activate, Deactivate, FallsSilent, Recovers, Crash,
   ApprovalServiceActs

\* Only the two audit writes append a terminal event.
LEMMA TrailStep ==
  ASSUME [Next]_vars
  PROVE  \/ UNCHANGED trail
         \/ \E c \in Call : FlushAudit(c) /\ trail' = trail \cup {event[c]}
         \/ \E c \in Call : WriteAudit(c) /\ trail' = trail \cup {EventOf(c, verdict[c])}
BY DEF Next, Step, EnvironmentStep, vars, KeepShared, Receive, LookUpApproval, BeginReserves,
   BeginJoins, BeginConflicts, BeginFails, BeginFindsCached, Wakes, FlushAudit, CloseFlush,
   Precheck, Revalidated, Consume, Submit, LastCheck, Prepares, NeverSent,
   NotSubmitted, Settles, CompleteResult, WriteAudit,
   CloseAudit, Finish, AbortReservation, Activate, Deactivate, FallsSilent, Recovers, Crash,
   ApprovalServiceActs

\* A consumed approval stays consumed; only consumeOneTime and the approval
\* service change approvals.
LEMMA ApprovalsStep ==
  ASSUME TypeOK, [Next]_vars
  PROVE  /\ \A a \in Approval : approvals[a] = "consumed" => approvals'[a] = "consumed"
         /\ \/ approvals' = approvals \/ ApprovalServiceActs
            \/ \E c \in Call : Consume(c)
<1>1. \/ approvals' = approvals \/ ApprovalServiceActs \/ \E c \in Call : Consume(c)
  BY DEF Next, Step, EnvironmentStep, vars, KeepShared, Receive, LookUpApproval, BeginReserves,
     BeginJoins, BeginConflicts, BeginFails, BeginFindsCached, Wakes, FlushAudit, CloseFlush,
     Precheck, Revalidated, Submit, LastCheck, Prepares, NeverSent,
     NotSubmitted, Settles, CompleteResult, WriteAudit,
     CloseAudit, Finish, AbortReservation, Activate, Deactivate, FallsSilent, Recovers, Crash
<1>2. ASSUME NEW a \in Approval, approvals[a] = "consumed", ApprovalServiceActs
      PROVE  approvals'[a] = "consumed"
  BY <1>2 DEF ApprovalServiceActs, ApprovalServiceStep, Create, Approve, Deny, TimeOut, Tick, Stored, Change,
     TypeOK, ApprovalTypeOK
<1>3. ASSUME NEW a \in Approval, approvals[a] = "consumed", NEW c \in Call, Consume(c)
      PROVE  approvals'[a] = "consumed"
  BY <1>3 DEF Consume, ConsumeOneTime, Change, approvalVars, TypeOK, ApprovalTypeOK
<1>. QED BY <1>1, <1>2, <1>3

\* The log after a step has the event.
AuditedAfter(i, v) ==
  \E e \in trail' : e.intent = i /\ (e.type = "broker.executed" <=> v = "executed")

\* The audit log is append-only.
LEMMA AuditedStays ==
  ASSUME [Next]_vars, NEW i, NEW v, Audited(i, v)
  PROVE  AuditedAfter(i, v)
BY TrailStep DEF Audited, AuditedAfter

\* The event of a call and result describes them.
LEMMA OwnEvent ==
  ASSUME Called, NEW c \in Call, pc[c] # "idle", NEW v
  PROVE  /\ Describes(EventOf(c, v), IntentOf(c), v)
         /\ EventOf(c, v).intent = IntentOf(c)
BY Arguments DEF Describes, EventOf

\* An event of the log that describes a result audits it.
LEMMA DescribedIsAudited ==
  ASSUME NEW e \in trail, NEW i, NEW v, Describes(e, i, v)
  PROVE  Audited(i, v)
BY DEF Describes, Audited

-----------------------------------------------------------------------------
(***************************************************************************)
(* Type correctness.                                                       *)
(***************************************************************************)

\* Every step keeps the types of the store.
LEMMA StoreTypeStep ==
  ASSUME TypeOK, Called, EntriesWellFormed, PlanTruthful, [Next]_vars
  PROVE  StoreTypeOK'
<1>. USE Arguments, Results DEF TypeOK
<1>1. CASE UNCHANGED storeVars
  BY <1>1 DEF storeVars, StoreTypeOK
<1>2. ASSUME NEW c \in Call, BeginReserves(c) PROVE StoreTypeOK'
  BY <1>2, Entries, Reservations
     DEF BeginReserves, Running, Reserve, WriteEntry, KeyOf, StoreTypeOK
<1>3. ASSUME NEW c \in Call, CloseFlush(c) PROVE StoreTypeOK'
  BY <1>3, ClearPendingAuditTypes DEF CloseFlush, Running, FlushedAudit, StoreTypeOK
<1>4. ASSUME NEW c \in Call, CompleteResult(c) PROVE StoreTypeOK'
  BY <1>4, CompleteTypes DEF CompleteResult, Running, PlanTruthful
<1>5. ASSUME NEW c \in Call, WriteAudit(c) PROVE StoreTypeOK'
  BY <1>5, FailAuditTypes DEF WriteAudit, Running, storeVars, StoreTypeOK
<1>6. ASSUME NEW c \in Call, CloseAudit(c) PROVE StoreTypeOK'
  <2>1. file[KeyOf(c)].status = "cached" => file[KeyOf(c)].result \in Verdict
    BY <1>6, EntryShapes, EntryFields DEF CloseAudit, Running
  <2>. QED BY <1>6, <2>1, CompleteAuditTypes DEF CloseAudit, Running, KeyOf
<1>7. ASSUME NEW c \in Call, Finish(c) PROVE StoreTypeOK'
  BY <1>7, CompleteTypes DEF Finish, Running, PlanTruthful
<1>8. ASSUME NEW c \in Call, AbortReservation(c) PROVE StoreTypeOK'
  BY <1>8, AbortTypes DEF AbortReservation, Running
<1>9. ASSUME NEW p \in Proc, Crash(p) PROVE StoreTypeOK'
  BY <1>9 DEF Crash, ForgetReservations, StoreTypeOK
<1>. QED BY <1>1, <1>2, <1>3, <1>4, <1>5, <1>6, <1>7, <1>8, <1>9, StoreFrame

\* Every step of execute keeps the types of its calls.
LEMMA CallTypeStep ==
  ASSUME TypeOK, Called, EntriesWellFormed, PlanTruthful, AnswersRecorded, [Next]_vars
  PROVE  CallTypeOK'
<1>. USE Arguments, Steering, Results
<1>. USE DEF TypeOK, Transient
<1>1. ASSUME NEW c \in Call, NEW p \in Proc, NEW d \in Decision, Receive(c, p, d)
      PROVE  CallTypeOK'
  BY <1>1 DEF CallTypeOK, Receive, Place, KeepCall
<1>2. ASSUME NEW c \in Call, LookUpApproval(c) PROVE CallTypeOK'
  BY <1>2 DEF CallTypeOK, LookUpApproval, Place, KeepCall, Running, Rejects
<1>3. ASSUME NEW c \in Call, BeginReserves(c) PROVE CallTypeOK'
  BY <1>3 DEF CallTypeOK, BeginReserves, Place, KeepCall, Running
<1>4. ASSUME NEW c \in Call, BeginJoins(c) PROVE CallTypeOK'
  <2>1. Serving(proc[c], IntentOf(c)).owner \in Call
    BY <1>4, ServedBySomeone DEF BeginJoins, Running
  <2>. QED BY <1>4, <2>1 DEF CallTypeOK, BeginJoins, Place, KeepCall, Running
<1>5. ASSUME NEW c \in Call, BeginConflicts(c) PROVE CallTypeOK'
  BY <1>5 DEF CallTypeOK, BeginConflicts, Place, KeepCall, Running, Rejects
<1>6. ASSUME NEW c \in Call, BeginFails(c) PROVE CallTypeOK'
  BY <1>6 DEF CallTypeOK, BeginFails, Place, KeepCall, Running
<1>7. ASSUME NEW c \in Call, BeginFindsCached(c) PROVE CallTypeOK'
  <2>1. file[KeyOf(c)].result \in Verdict /\ file[KeyOf(c)].pendingAudit \in Event \cup {Null}
    BY <1>7, EntryShapes, EntryFields DEF BeginFindsCached, Running, FindsCached, KeyOf
  <2>. QED BY <1>7, <2>1 DEF CallTypeOK, BeginFindsCached, Place, KeepCall, Running
<1>8. ASSUME NEW c \in Call, Wakes(c) PROVE CallTypeOK'
  <2>1. promise[owner[c]] \in Verdict \cup {"open", "broken"}
    BY <1>8 DEF Wakes, Resuming, AnswersRecorded, StoreTypeOK
  <2>. QED BY <1>8, <2>1 DEF CallTypeOK, Wakes, Place, KeepCall, Resuming
<1>9. ASSUME NEW c \in Call, FlushAudit(c) PROVE CallTypeOK'
  BY <1>9 DEF CallTypeOK, FlushAudit, Place, KeepCall, Running
<1>10. ASSUME NEW c \in Call, CloseFlush(c) PROVE CallTypeOK'
  <2>1. verdict[c] \in Verdict
    BY <1>10, EntryShapes, EntryFields DEF CloseFlush, Running, AnswersRecorded, RecordedFor
  <2>. QED BY <1>10, <2>1 DEF CallTypeOK, CloseFlush, Place, KeepCall, Running
<1>11. ASSUME NEW c \in Call, Precheck(c) PROVE CallTypeOK'
  BY <1>11 DEF CallTypeOK, Precheck, Place, KeepCall, Running, PlansAbort, PlansFinish,
     Rejection, ApprovalFault, Guarded
<1>12. ASSUME NEW c \in Call, Revalidated(c) PROVE CallTypeOK'
  BY <1>12 DEF CallTypeOK, Revalidated, Place, KeepCall, Resuming, PlansAbort, PlansFinish,
     Rejection, Guarded
<1>13. ASSUME NEW c \in Call, Consume(c) PROVE CallTypeOK'
  BY <1>13 DEF CallTypeOK, Consume, Place, KeepCall, Running, PlansAbort, PlansFinish, Rejection
<1>14. ASSUME NEW c \in Call, Submit(c) PROVE CallTypeOK'
  BY <1>14 DEF CallTypeOK, Submit, Place, KeepCall, Running, Resuming
<1>29. ASSUME NEW c \in Call, LastCheck(c) PROVE CallTypeOK'
  BY <1>29 DEF CallTypeOK, LastCheck, Prepares, Place, KeepCall, Resuming
<1>30. ASSUME NEW c \in Call, NeverSent(c) PROVE CallTypeOK'
  BY <1>30 DEF CallTypeOK, NeverSent, Place, KeepCall, Running, Resuming, Terminal
<1>15. ASSUME NEW c \in Call, NotSubmitted(c) PROVE CallTypeOK'
  BY <1>15 DEF CallTypeOK, NotSubmitted, Place, KeepCall, Resuming, Terminal
<1>16. ASSUME NEW c \in Call, Settles(c) PROVE CallTypeOK'
  BY <1>16 DEF CallTypeOK, Settles, Place, KeepCall, Resuming, Terminal
<1>17. ASSUME NEW c \in Call, CompleteResult(c) PROVE CallTypeOK'
  BY <1>17 DEF CallTypeOK, CompleteResult, Place, KeepCall, Running
<1>18. ASSUME NEW c \in Call, WriteAudit(c) PROVE CallTypeOK'
  BY <1>18 DEF CallTypeOK, WriteAudit, Place, KeepCall, Running
<1>19. ASSUME NEW c \in Call, CloseAudit(c) PROVE CallTypeOK'
  <2>1. verdict[c] \in Verdict
    BY <1>19, EntryShapes, EntryFields DEF CloseAudit, Running, AnswersRecorded, RecordedFor
  <2>. QED BY <1>19, <2>1 DEF CallTypeOK, CloseAudit, Place, KeepCall, Running
<1>20. ASSUME NEW c \in Call, Finish(c) PROVE CallTypeOK'
  <2>1. verdict[c] \in Verdict \cup Transient
    BY <1>20 DEF Finish, Running, PlanTruthful
  <2>. QED BY <1>20, <2>1 DEF CallTypeOK, Finish, Place, KeepCall, Running
<1>21. ASSUME NEW c \in Call, AbortReservation(c) PROVE CallTypeOK'
  <2>1. verdict[c] \in Verdict \cup Transient
    BY <1>21 DEF AbortReservation, Running, PlanTruthful
  <2>. QED BY <1>21, <2>1 DEF CallTypeOK, AbortReservation, Place, KeepCall, Running
<1>22. ASSUME NEW p \in Proc, NEW s \in Scope, Activate(p, s) PROVE CallTypeOK'
  BY <1>22 DEF Activate, callVars, CallTypeOK
<1>23. ASSUME NEW p \in Proc, NEW s \in Scope, Deactivate(p, s) PROVE CallTypeOK'
  BY <1>23 DEF Deactivate, callVars, CallTypeOK
<1>24. ASSUME NEW p \in Proc, NEW s \in Scope, FallsSilent(p, s) PROVE CallTypeOK'
  BY <1>24 DEF FallsSilent, callVars, CallTypeOK
<1>25. ASSUME NEW p \in Proc, NEW s \in Scope, Recovers(p, s) PROVE CallTypeOK'
  BY <1>25 DEF Recovers, callVars, CallTypeOK
<1>26. ASSUME NEW p \in Proc, Crash(p) PROVE CallTypeOK'
  BY <1>26 DEF CallTypeOK, Crash, Place, KeepCall
<1>27. CASE ApprovalServiceActs
  BY <1>27 DEF ApprovalServiceActs, callVars, CallTypeOK
<1>28. CASE UNCHANGED vars
  BY <1>28 DEF vars, CallTypeOK
<1>. QED BY <1>1, <1>2, <1>3, <1>4, <1>5, <1>6, <1>7, <1>8, <1>9, <1>10, <1>11, <1>12, <1>13,
   <1>14, <1>15, <1>16, <1>17, <1>18, <1>19, <1>20, <1>21, <1>22, <1>23, <1>24, <1>25, <1>26,
   <1>27, <1>28, <1>29, <1>30
  DEF Next, Step, EnvironmentStep

\* Every step keeps TypeOK, given what the other parts of Inv say of entries,
\* plans and debts.
LEMMA TypeStep ==
  ASSUME TypeOK, Called, EntriesWellFormed, PlanTruthful, AnswersRecorded, AuditOwed, [Next]_vars
  PROVE  TypeOK'
<1>1. ApprovalTypeOK'
  BY DEF TypeOK, ApprovalTypeOK, ApprovalState, ClockReading, Next, Step, EnvironmentStep, vars,
         KeepShared, ConsumeOneTime, Change, approvalVars, ApprovalServiceActs,
         ApprovalServiceStep, Create, Approve, Deny, TimeOut, Tick, Stored,
         Receive, LookUpApproval, BeginReserves, BeginJoins, BeginConflicts, BeginFails,
         BeginFindsCached, Wakes, FlushAudit, CloseFlush, Precheck, Revalidated, Consume,
         Submit, LastCheck, Prepares, NeverSent,
         NotSubmitted, Settles, CompleteResult, WriteAudit, CloseAudit, Finish,
         AbortReservation, Activate, Deactivate, FallsSilent, Recovers, Crash
<1>2. stopped' \in [Proc -> SUBSET Scope] /\ silent' \in [Proc -> SUBSET Scope]
  <2>1. CASE UNCHANGED switchVars
    BY <2>1 DEF TypeOK, switchVars
  <2>2. ASSUME NEW p \in Proc, NEW s \in Scope,
               Activate(p, s) \/ Deactivate(p, s) \/ FallsSilent(p, s) \/ Recovers(p, s)
        PROVE  stopped' \in [Proc -> SUBSET Scope] /\ silent' \in [Proc -> SUBSET Scope]
    BY <2>2 DEF TypeOK, Activate, Deactivate, FallsSilent, Recovers
  <2>3. ASSUME NEW p \in Proc, Crash(p)
        PROVE  stopped' \in [Proc -> SUBSET Scope] /\ silent' \in [Proc -> SUBSET Scope]
    BY <2>3 DEF TypeOK, Crash
  <2>. QED BY <2>1, <2>2, <2>3
           DEF Next, Step, EnvironmentStep, vars, switchVars, KeepShared,
           Receive, LookUpApproval, BeginReserves, BeginJoins, BeginConflicts, BeginFails,
           BeginFindsCached, Wakes, FlushAudit, CloseFlush, Precheck, Revalidated, Consume,
           Submit, LastCheck, Prepares, NeverSent,
           NotSubmitted, Settles, CompleteResult, WriteAudit, CloseAudit, Finish,
           AbortReservation, ApprovalServiceActs
<1>3. effects' \subseteq Call
  BY DEF TypeOK, Next, Step, EnvironmentStep, vars, KeepShared,
         Receive, LookUpApproval, BeginReserves, BeginJoins, BeginConflicts, BeginFails,
         BeginFindsCached, Wakes, FlushAudit, CloseFlush, Precheck, Revalidated, Consume,
         Submit, LastCheck, Prepares, NeverSent,
         NotSubmitted, Settles, CompleteResult, WriteAudit, CloseAudit, Finish,
         AbortReservation, Activate, Deactivate, FallsSilent, Recovers, Crash, ApprovalServiceActs
<1>4. trail' \subseteq Event
  <2>1. CASE UNCHANGED trail
    BY <2>1 DEF TypeOK
  <2>2. ASSUME NEW c \in Call, FlushAudit(c) PROVE trail' \subseteq Event
    BY <2>2, Arguments DEF TypeOK, CallTypeOK, FlushAudit, Running, AuditOwed, Describes
  <2>3. ASSUME NEW c \in Call, WriteAudit(c) PROVE trail' \subseteq Event
    BY <2>3, Arguments DEF TypeOK, WriteAudit, Running
  <2>. QED BY <2>1, <2>2, <2>3
           DEF Next, Step, EnvironmentStep, vars, KeepShared,
           Receive, LookUpApproval, BeginReserves, BeginJoins, BeginConflicts, BeginFails,
           BeginFindsCached, Wakes, CloseFlush, Precheck, Revalidated, Consume, Submit,
           LastCheck, Prepares, NeverSent,
           NotSubmitted, Settles, CompleteResult, CloseAudit, Finish, AbortReservation,
           Activate, Deactivate, FallsSilent, Recovers, Crash, ApprovalServiceActs
<1>. QED BY <1>1, <1>2, <1>3, <1>4, StoreTypeStep, CallTypeStep DEF TypeOK

-----------------------------------------------------------------------------
(***************************************************************************)
(* Reservations: one holder per key, known to the file and to its process. *)
(***************************************************************************)

\* A call gets its arguments when it is received, and keeps them.
LEMMA CalledStep ==
  ASSUME TypeOK, Called, HolderKnown, MapSound, [Next]_vars
  PROVE  Called'
<1>. USE DEF TypeOK
<1>1. SUFFICES ASSUME NEW c \in Call
               PROVE  IF pc'[c] = "idle"
                      THEN /\ decision'[c] = Null /\ proc'[c] = Null
                           /\ c \notin effects' /\ promise'[c] = "open"
                      ELSE decision'[c] \in Decision /\ proc'[c] \in Proc
  BY AnswersWhenDone DEF Called
<1>2. CASE pc[c] # "idle"
  BY <1>2, ArgumentsKept DEF Called
<1>3. CASE pc[c] = "idle"
  <2>1. /\ promise'[c] = promise[c]
    BY <1>3, PromiseStep
  <2>2. c \in effects' => c \in effects
    BY <1>3, EffectsStep DEF Submit, Running, Resuming
  <2>3. CASE Unmoved(c)
    BY <1>3, <2>1, <2>2, <2>3 DEF Unmoved, Called
  <2>4. ASSUME NEW p \in Proc, NEW x \in Decision, Receive(c, p, x)
        PROVE  pc'[c] # "idle" /\ decision'[c] \in Decision /\ proc'[c] \in Proc
    BY <2>4 DEF Receive, CallTypeOK
  <2>5. ~ Step(c)
    BY <1>3 DEF Step, LookUpApproval, BeginReserves, BeginJoins, BeginConflicts, BeginFails,
       BeginFindsCached, Wakes, FlushAudit, CloseFlush, Precheck, Revalidated, Consume, Submit,
       LastCheck, Prepares, NeverSent,
       NotSubmitted,
       Settles, CompleteResult, WriteAudit, CloseAudit, Finish, AbortReservation, Running,
       Resuming
  <2>6. ~ \E p \in Proc : proc[c] = p
    BY <1>3, BrokerAssumption DEF Called
  <2>. QED BY <2>3, <2>4, <2>5, <2>6, CallSteps
<1>. QED BY <1>2, <1>3

\* Entries keep one of their three shapes.
LEMMA EntriesStep ==
  ASSUME TypeOK, Called, EntriesWellFormed, HolderKnown, PlanTruthful, [Next]_vars
  PROVE  EntriesWellFormed'
<1>1. SUFFICES ASSUME NEW k \in Key, file'[k] # file[k]
               PROVE  \/ file'[k] = Free
                      \/ \E i \in Intent : ScopedKey[i] = k /\ file'[k] = InProgress(i)
                      \/ \E i \in Intent, v \in Verdict, e \in Event \cup {Null} :
                           ScopedKey[i] = k /\ file'[k] = Cached(i, v, e)
  BY DEF EntriesWellFormed
<1>2. PICK c \in Call :
           /\ pc[c] # "idle" /\ KeyOf(c) = k
           /\ \/ file'[k] = InProgress(IntentOf(c))
              \/ /\ CompleteResult(c)
                 /\ file'[k] = Cached(IntentOf(c), verdict[c], EventOf(c, verdict[c]))
              \/ /\ Finish(c)
                 /\ file'[k] = Cached(IntentOf(c), verdict[c], Null)
              \/ file'[k] = Free
              \/ /\ file[k].status = "cached"
                 /\ file'[k] = [file[k] EXCEPT !.pendingAudit = Null]
  BY <1>1, FileStep
<1>3. IntentOf(c) \in Intent /\ ScopedKey[IntentOf(c)] = k /\ \A v : EventOf(c, v) \in Event
  BY <1>2, Arguments DEF KeyOf
<1>4. CompleteResult(c) \/ Finish(c) => verdict[c] \in Verdict
  BY Results DEF CompleteResult, Finish, Running, PlanTruthful
<1>5. ASSUME file[k].status = "cached", file'[k] = [file[k] EXCEPT !.pendingAudit = Null]
      PROVE  \E i \in Intent, v \in Verdict : ScopedKey[i] = k /\ file'[k] = Cached(i, v, Null)
  BY <1>5, EntryShapes, EntryFields
<1>. QED BY <1>2, <1>3, <1>4, <1>5

\* No key gets a second holder: begin reserves only a key without an entry.
LEMMA HolderAloneStep ==
  ASSUME TypeOK, Called, HolderKnown, HolderAlone, [Next]_vars
  PROVE  HolderAlone'
<1>. USE DEF TypeOK
<1>1. SUFFICES ASSUME NEW c \in Call, NEW d \in Call, Holds(c)', Holds(d)', KeyOf(c)' = KeyOf(d)',
                      c # d
               PROVE  FALSE
  BY DEF HolderAlone
<1>2. ASSUME NEW x \in Call, NEW y \in Call, x # y, Holds(x)', Holds(y)', KeyOf(x) = KeyOf(y),
             BeginReserves(x)
      PROVE  FALSE
  <2>1. file[KeyOf(x)] = Free
    BY <1>2 DEF BeginReserves, Reserve, KeyOf
  <2>2. Holds(y)
    <3>1. Unmoved(y)
      BY <1>2, CallFrame DEF Step, Unmoved
    <3>. QED BY <1>2, <3>1 DEF Unmoved, Holds
  <2>3. file[KeyOf(y)] = InProgress(IntentOf(y))
    BY <2>2, HolderServed
  <2>4. Free # InProgress(IntentOf(y))
    BY EntryFields
  <2>. QED BY <1>2, <2>1, <2>3, <2>4
<1>3. KeyOf(c) = KeyOf(d)
  BY <1>1, NewHolder
<1>. QED BY <1>1, <1>2, <1>3, NewHolder DEF HolderAlone

\* A holder keeps its entry and its place in the map until it leaves.
LEMMA HolderKnownStep ==
  ASSUME TypeOK, Called, EntriesWellFormed, HolderKnown, HolderAlone, UnstoredKeyClosed,
         AnswersRecorded, [Next]_vars
  PROVE  HolderKnown'
<1>. USE Arguments DEF TypeOK
<1>1. SUFFICES ASSUME NEW c \in Call, Holds(c)'
               PROVE  /\ file'[KeyOf(c)] = InProgress(IntentOf(c))
                      /\ pending'[proc[c]][KeyOf(c)] = [owner |-> c, payload |-> IntentOf(c)]
  BY NewHolder DEF HolderKnown
<1>2. CASE BeginReserves(c)
  <2>1. PICK o : /\ Reserve(proc[c], c, IntentOf(c), o)
                 /\ IF o = "ok" THEN Proceeds(c, "precheck") ELSE Returns(c, "threw")
    BY <1>2 DEF BeginReserves
  <2>2. o = "ok"
    BY <1>1, <2>1 DEF Returns, CallTypeOK, Holds, Holding
  <2>3. KeyOf(c) \in Key /\ proc[c] \in Proc /\ pc[c] # "idle"
    BY <1>1, NewHolder
  <2>. QED BY <2>1, <2>2, <2>3 DEF Reserve, WriteEntry, StoreTypeOK, KeyOf
<1>3. CASE Holds(c)
  <2>1. /\ file[KeyOf(c)] = InProgress(IntentOf(c)) /\ KeyOf(c) \in Key /\ proc[c] \in Proc
        /\ pending[proc[c]][KeyOf(c)] = [owner |-> c, payload |-> IntentOf(c)]
        /\ file[KeyOf(c)].status = "in_progress" /\ file[KeyOf(c)] # Free
    BY <1>3, HolderServed, EntryFields DEF HolderKnown
  <2>2. ~ (CompleteResult(c) \/ Finish(c) \/ AbortReservation(c))
    BY <1>1
       DEF CompleteResult, Finish, AbortReservation, Proceeds, Returns, CallTypeOK, Holds, Holding
  <2>3. file'[KeyOf(c)] = file[KeyOf(c)]
    BY <1>3, <2>1, <2>2, FileStep DEF HolderAlone
  <2>4. ~ Crash(proc[c])
    BY <1>1, <1>3 DEF Crash, Holds, Holding
  <2>5. ASSUME NEW d \in Call, WriteAudit(d) \/ CloseAudit(d), KeyOf(d) = KeyOf(c)
        PROVE  FALSE
    <3>1. pc[d] = "auditUnstored" \/ RecordedFor(d, verdict[d])
      BY <2>5 DEF WriteAudit, CloseAudit, Running, AnswersRecorded
    <3>. QED BY <1>3, <2>1, <2>5, <3>1 DEF UnstoredKeyClosed, RecordedFor
  <2>6. pending'[proc[c]][KeyOf(c)] = pending[proc[c]][KeyOf(c)]
    <3>1. ASSUME NEW d \in Call, KeyOf(d) = KeyOf(c), Holds(d) PROVE d = c
      BY <1>3, <3>1 DEF HolderAlone
    <3>2. SUFFICES ASSUME pending'[proc[c]][KeyOf(c)] # pending[proc[c]][KeyOf(c)] PROVE FALSE
      OBVIOUS
    <3>3. PICK d \in Call :
            /\ KeyOf(d) = KeyOf(c)
            /\ \/ file[KeyOf(c)] = Free
               \/ (CompleteResult(d) \/ Finish(d) \/ AbortReservation(d)) /\ Holds(d)
               \/ WriteAudit(d) \/ CloseAudit(d)
      BY <2>1, <2>4, <3>2, MapStep
    <3>. QED BY <2>1, <2>2, <2>5, <3>1, <3>3
  <2>. QED BY <2>1, <2>3, <2>6
<1>. QED BY <1>1, <1>2, <1>3, NewHolder

\* The map of a process names calls that reserved their key.
LEMMA MapSoundStep ==
  ASSUME TypeOK, Called, HolderKnown, MapSound, [Next]_vars
  PROVE  MapSound'
<1>. USE DEF TypeOK
<1>1. SUFFICES ASSUME NEW p \in Proc, NEW k \in Key, NEW o \in Call,
                      pending'[p][k] # Null, pending'[p][k].owner = o
               PROVE  pc'[o] # "idle" /\ IntentOf(o)' = pending'[p][k].payload /\ KeyOf(o)' = k
  BY DEF MapSound
<1>2. CASE pending'[p][k] = pending[p][k]
  BY <1>1, <1>2, ArgumentsKept DEF MapSound
<1>3. CASE pending'[p][k] # pending[p][k]
  <2>1. PICK c \in Call : /\ pc[c] # "idle" /\ KeyOf(c) = k
                          /\ pending'[p][k] = [owner |-> c, payload |-> IntentOf(c)]
    BY <1>1, <1>3, MapStep
  <2>. QED BY <1>1, <2>1, ArgumentsKept
<1>. QED BY <1>2, <1>3

-----------------------------------------------------------------------------
(***************************************************************************)
(* Side effects and what is recorded about them.                           *)
(***************************************************************************)

\* A key stays closed once its side effect is submitted.
LEMMA SubmittedStep ==
  ASSUME TypeOK, Called, EntriesWellFormed, HolderKnown, HolderAlone, SubmittedKeyClosed,
         [Next]_vars
  PROVE  SubmittedKeyClosed'
<1>. USE DEF TypeOK
<1>1. SUFFICES ASSUME NEW c \in effects'
               PROVE  /\ pc'[c] \in Beyond
                      /\ file'[KeyOf(c)'].status # "free"
                      /\ \A d \in Call : Holds(d)' /\ KeyOf(d)' = KeyOf(c)' => d = c
  BY DEF SubmittedKeyClosed
<1>2. /\ c \in Call /\ pc[c] # "idle" /\ KeyOf(c)' = KeyOf(c) /\ KeyOf(c) \in Key
      /\ file[KeyOf(c)].status # "free"
      /\ \A d \in Call : Holds(d) /\ KeyOf(d) = KeyOf(c) => d = c
      /\ pc'[c] \in Beyond /\ ~ AbortReservation(c)
  <2>1. CASE c \in effects
    <3>1. c \in Call /\ pc[c] # "idle" /\ ~ AbortReservation(c)
      BY <2>1 DEF SubmittedKeyClosed, Beyond, AbortReservation, Running
    <3>. QED BY <2>1, <3>1, ArgumentsKept, Arguments, StaysBeyond DEF SubmittedKeyClosed
  <2>2. CASE c \notin effects
    <3>1. c \in Call /\ Submit(c) /\ Holds(c)
      BY <1>1, <2>2, EffectsStep DEF Submit, Running, Resuming, Holds, Holding
    <3>2. pc[c] # "idle" /\ file[KeyOf(c)].status # "free"
      BY <3>1, HolderEntry
    <3>3. pc'[c] \in Beyond /\ ~ AbortReservation(c)
      BY <3>1 DEF Submit, Awaits, Beyond, CallTypeOK, AbortReservation, Running, Resuming
    <3>. QED BY <3>1, <3>2, <3>3, ArgumentsKept, Arguments DEF HolderAlone
  <2>. QED BY <2>1, <2>2
<1>3. file'[KeyOf(c)].status # "free"
  BY <1>2, OpenedByAbort
<1>4. ASSUME NEW d \in Call, Holds(d)', KeyOf(d)' = KeyOf(c)' PROVE d = c
  BY <1>2, <1>4, NewHolder, ReservedWasFree
<1>. QED BY <1>2, <1>3, <1>4

\* A call that submits finds no submission of its key before it.
LEMMA AtMostOneStep ==
  ASSUME TypeOK, Called, SubmittedKeyClosed, AtMostOneSubmission, [Next]_vars
  PROVE  AtMostOneSubmission'
<1>. USE DEF TypeOK
<1>1. SUFFICES ASSUME NEW c \in effects', NEW d \in effects', KeyOf(c)' = KeyOf(d)'
               PROVE  c = d
  BY DEF AtMostOneSubmission
<1>2. \A e \in effects' : e \in Call /\ pc[e] # "idle" /\ (e \in effects \/ Submit(e))
  BY EffectsStep DEF SubmittedKeyClosed, Beyond, Submit, Running, Resuming
<1>3. KeyOf(c) = KeyOf(d)
  BY <1>1, <1>2, ArgumentsKept
<1>4. ASSUME NEW e \in Call, Submit(e) PROVE Holds(e) /\ e \notin effects
  BY <1>4 DEF Submit, Running, Resuming, Holds, Holding, SubmittedKeyClosed, Beyond
<1>5. CASE c \in effects /\ d \in effects
  BY <1>3, <1>5 DEF AtMostOneSubmission
<1>6. CASE c \notin effects /\ d \notin effects
  BY <1>6, EffectsStep
<1>. QED BY <1>2, <1>3, <1>4, <1>5, <1>6 DEF SubmittedKeyClosed

\* A key stays closed while a call audits a result it could not store.
LEMMA UnstoredStep ==
  ASSUME TypeOK, Called, EntriesWellFormed, HolderKnown, HolderAlone, UnstoredKeyClosed,
         [Next]_vars
  PROVE  UnstoredKeyClosed'
<1>. USE DEF TypeOK
<1>1. SUFFICES ASSUME NEW c \in Call, pc'[c] = "auditUnstored"
               PROVE  /\ file'[KeyOf(c)'].status # "free"
                      /\ \A d \in Call : Holds(d)' => KeyOf(d)' # KeyOf(c)'
  BY DEF UnstoredKeyClosed
<1>2. pc[c] = "auditUnstored" \/ CompleteResult(c)
  <2>1. CASE Step(c)
    BY <1>1, <2>1 DEF Step, CallTypeOK, LookUpApproval, BeginReserves, BeginJoins, BeginConflicts,
       BeginFails, BeginFindsCached, Wakes, FlushAudit, CloseFlush, Precheck, Revalidated,
       Consume,
       Submit, LastCheck, Prepares, NeverSent,
       NotSubmitted, Settles, WriteAudit, CloseAudit, Finish, AbortReservation, Proceeds,
       Awaits, Returns, Rejects, Plans, PlansAbort, PlansFinish, ApprovalFault, Guarded
  <2>2. CASE Unmoved(c) \/ Dies(c)
    BY <1>1, <2>2 DEF Unmoved, Dies
  <2>3. ~ \E p \in Proc, x \in Decision : Receive(c, p, x)
    BY <1>1 DEF Receive, CallTypeOK
  <2>. QED BY <2>1, <2>2, <2>3, CallSteps
<1>3. /\ pc[c] # "idle" /\ KeyOf(c)' = KeyOf(c) /\ KeyOf(c) \in Key
      /\ file[KeyOf(c)].status # "free" /\ ~ AbortReservation(c)
      /\ \A d \in Call : Holds(d) /\ KeyOf(d) = KeyOf(c) => d = c
  <2>1. CASE pc[c] = "auditUnstored"
    BY <2>1, ArgumentsKept, Arguments DEF UnstoredKeyClosed, AbortReservation, Running
  <2>2. CASE CompleteResult(c)
    <3>1. Holds(c) /\ ~ AbortReservation(c)
      BY <2>2 DEF CompleteResult, Running, Holds, Holding, AbortReservation
    <3>2. pc[c] # "idle" /\ file[KeyOf(c)].status # "free"
      BY <3>1, HolderEntry
    <3>. QED BY <3>1, <3>2, ArgumentsKept, Arguments DEF HolderAlone
  <2>. QED BY <1>2, <2>1, <2>2
<1>4. file'[KeyOf(c)].status # "free"
  BY <1>3, OpenedByAbort
<1>5. ASSUME NEW d \in Call, Holds(d)', KeyOf(d)' = KeyOf(c)' PROVE FALSE
  <2>1. d = c
    BY <1>3, <1>5, NewHolder, ReservedWasFree
  <2>. QED BY <1>1, <1>5, <2>1 DEF Holds, Holding
<1>. QED BY <1>3, <1>4, <1>5

\* What a call is about to record is true about its side effect.
LEMMA PlanStep ==
  ASSUME TypeOK, Called, PlanTruthful, SubmittedKeyClosed, [Next]_vars
  PROVE  PlanTruthful'
<1>. USE DEF TypeOK
<1>1. SUFFICES ASSUME NEW c \in Call
               PROVE  /\ pc'[c] = "submitted" => c \in effects'
                      /\ pc'[c] = "finish" => verdict'[c] \in Rejection
                      /\ pc'[c] = "abort" => verdict'[c] \in Transient
                      /\ pc'[c] = "complete" =>
                           /\ verdict'[c] \in Terminal
                           /\ verdict'[c] = "executed" => c \in effects'
                           /\ verdict'[c] = "not_submitted" => c \notin effects'
  BY DEF PlanTruthful
<1>2. effects' = effects \/ (c \in effects' /\ Submit(c)) \/ (c \in effects' <=> c \in effects)
  BY EffectsStep
<1>3. CASE Unmoved(c) \/ Dies(c)
  <2>1. ~ Submit(c) \/ pc'[c] = "submitted"
    BY DEF Submit, Awaits, CallTypeOK
  <2>2. Submit(c) => pc[c] = "sending"
    BY DEF Submit, Running, Resuming
  <2>. QED BY <1>2, <1>3, <2>1, <2>2 DEF Unmoved, Dies, PlanTruthful
<1>4. CASE \E p \in Proc, x \in Decision : Receive(c, p, x)
  BY <1>4 DEF Receive, CallTypeOK
<1>5. CASE Submit(c)
  BY <1>5 DEF Submit, Awaits, CallTypeOK
<1>6. CASE NotSubmitted(c)
  <2>1. effects' = effects /\ c \notin effects
    BY <1>6 DEF NotSubmitted, Resuming, KeepShared, SubmittedKeyClosed, Beyond
  <2>. QED BY <1>6, <2>1 DEF NotSubmitted, Plans, Proceeds, CallTypeOK, Terminal
<1>7. CASE Settles(c)
  <2>1. effects' = effects /\ c \in effects
    BY <1>7 DEF Settles, Resuming, KeepShared, PlanTruthful
  <2>. QED BY <1>7, <2>1 DEF Settles, Plans, Proceeds, CallTypeOK, Terminal
<1>8. CASE Precheck(c)
  BY <1>8 DEF Precheck, ApprovalFault, Guarded, PlansAbort, PlansFinish, Plans, Proceeds, Awaits,
     CallTypeOK, Rejection, Transient
<1>9. CASE Revalidated(c)
  BY <1>9 DEF Revalidated, Guarded, PlansAbort, PlansFinish, Plans, Proceeds, Awaits,
     CallTypeOK, Rejection, Transient
<1>10. CASE Consume(c)
  BY <1>10 DEF Consume, PlansAbort, PlansFinish, Plans, Proceeds, Awaits,
     CallTypeOK, Rejection, Transient
<1>12. CASE NeverSent(c)
  <2>1. effects' = effects
    BY <1>12 DEF NeverSent, KeepShared
  <2>. QED BY <1>12, <2>1 DEF NeverSent, Plans, Proceeds, CallTypeOK, Terminal
<1>11. ASSUME Step(c), ~ Submit(c), ~ NeverSent(c), ~ NotSubmitted(c), ~ Settles(c),
              ~ Precheck(c), ~ Revalidated(c), ~ Consume(c)
       PROVE  pc'[c] \notin {"submitted", "finish", "abort", "complete"}
  BY <1>11 DEF Step, CallTypeOK, LookUpApproval, BeginReserves, BeginJoins, BeginConflicts,
     BeginFails, BeginFindsCached, Wakes, FlushAudit, CloseFlush, LastCheck, Prepares,
     CompleteResult, WriteAudit, CloseAudit, Finish, AbortReservation, Proceeds, Awaits, Returns,
     Rejects
<1>. QED BY <1>3, <1>4, <1>5, <1>6, <1>7, <1>8, <1>9, <1>10, <1>11, <1>12, CallSteps

\* What is recorded is true about the side effect.
LEMMA RecordStep ==
  ASSUME TypeOK, Called, EntriesWellFormed, HolderKnown, SubmittedKeyClosed, PlanTruthful,
         RecordTruthful, [Next]_vars
  PROVE  RecordTruthful'
<1>. USE DEF TypeOK
<1>1. SUFFICES ASSUME NEW k \in Key
               PROVE  /\ file'[k].result \in Unsent => \A c \in effects' : KeyOf(c)' # k
                      /\ file'[k].result = "executed" =>
                           \E c \in effects' : IntentOf(c)' = file'[k].payload
  BY DEF RecordTruthful
<1>2. effects \subseteq effects'
  BY EffectsStep
<1>3. \A c \in effects : c \in Call /\ IntentOf(c)' = IntentOf(c) /\ KeyOf(c)' = KeyOf(c)
  BY ArgumentsKept DEF SubmittedKeyClosed, Beyond
<1>4. CASE file'[k].result = file[k].result /\ file'[k].payload = file[k].payload
  <2>1. ASSUME NEW c \in effects', c \notin effects, KeyOf(c)' = k PROVE file[k].result \notin Unsent
    <3>1. c \in Call /\ Submit(c) /\ Holds(c)
      BY <2>1, EffectsStep DEF Submit, Running, Resuming, Holds, Holding
    <3>2. pc[c] # "idle" /\ KeyOf(c) = k
      BY <2>1, <3>1, ArgumentsKept DEF Holds, Holding
    <3>3. file[k].result = Null
      BY <3>1, <3>2, HolderEntry
    <3>. QED BY <3>3, Results, StoreAssumption
  <2>. QED BY <1>2, <1>3, <1>4, <2>1 DEF RecordTruthful
<1>5. CASE file'[k] # file[k]
  <2>1. UNCHANGED effects
    <3>1. ~ \E c \in Call : Submit(c)
      BY <1>5 DEF Submit
    <3>. QED BY <3>1, EffectsStep
  <2>2. PICK c \in Call :
         /\ pc[c] # "idle" /\ KeyOf(c) = k
         /\ \/ file'[k] = InProgress(IntentOf(c))
            \/ /\ CompleteResult(c) /\ Holds(c)
               /\ file'[k] = Cached(IntentOf(c), verdict[c], EventOf(c, verdict[c]))
            \/ Finish(c) /\ Holds(c) /\ file'[k] = Cached(IntentOf(c), verdict[c], Null)
            \/ file'[k] = Free
            \/ file[k].status = "cached" /\ file'[k] = [file[k] EXCEPT !.pendingAudit = Null]
    BY <1>5, FileStep
  <2>3. CASE file'[k] = InProgress(IntentOf(c)) \/ file'[k] = Free
    BY <2>3, EntryFields, Results, StoreAssumption, BrokerAssumption DEF Terminal, Verdicts
  <2>4. CASE file[k].status = "cached" /\ file'[k] = [file[k] EXCEPT !.pendingAudit = Null]
    <3>1. file'[k].result = file[k].result /\ file'[k].payload = file[k].payload
      BY <2>4, EntryShapes, EntryFields
    <3>. QED BY <1>4, <3>1
  <2>5. CASE CompleteResult(c) /\ Holds(c)
               /\ file'[k] = Cached(IntentOf(c), verdict[c], EventOf(c, verdict[c]))
    <3>1. /\ verdict[c] \in Terminal
          /\ verdict[c] = "executed" => c \in effects
          /\ verdict[c] = "not_submitted" => c \notin effects
      BY <2>5 DEF CompleteResult, Running, PlanTruthful
    <3>2. file'[k].result = verdict[c] /\ file'[k].payload = IntentOf(c)
      BY <2>5, EntryFields
    <3>3. verdict[c] \in Unsent => verdict[c] = "not_submitted"
      BY <3>1 DEF Terminal, Unsent, Rejection
    <3>4. c \notin effects => \A d \in effects : KeyOf(d) # k
      BY <2>2, <2>5 DEF SubmittedKeyClosed
    <3>. QED BY <1>3, <2>1, <3>1, <3>2, <3>3, <3>4
  <2>6. CASE Finish(c) /\ Holds(c) /\ file'[k] = Cached(IntentOf(c), verdict[c], Null)
    <3>1. verdict[c] \in Rejection /\ c \notin effects
      BY <2>6 DEF Finish, Running, PlanTruthful, SubmittedKeyClosed, Beyond
    <3>2. file'[k].result = verdict[c]
      BY <2>6, EntryFields
    <3>3. \A d \in effects : KeyOf(d) # k
      BY <2>2, <2>6, <3>1 DEF SubmittedKeyClosed
    <3>4. "executed" \notin Rejection
      BY DEF Rejection
    <3>. QED BY <1>3, <2>1, <3>1, <3>2, <3>3, <3>4
  <2>. QED BY <2>2, <2>3, <2>4, <2>5, <2>6
<1>. QED BY <1>4, <1>5

-----------------------------------------------------------------------------
(***************************************************************************)
(* Answers are records.                                                    *)
(***************************************************************************)

\* A call arrives at these places with its record.
LEMMA RecordedPlaces ==
  ASSUME TypeOK, Called, EntriesWellFormed, HolderKnown, AnswersRecorded, [Next]_vars,
         NEW c \in Call, pc'[c] \in {"audit", "closeAudit", "flush", "closeFlush"}
  PROVE  RecordedFor(c, verdict[c])'
<1>. USE DEF TypeOK
<1>1. \/ CompleteResult(c)
      \/ BeginFindsCached(c)
      \/ pc[c] \in {"audit", "closeAudit", "flush", "closeFlush"} /\ verdict'[c] = verdict[c]
  <2>1. CASE Step(c)
    BY <2>1 DEF Step, CallTypeOK, LookUpApproval, BeginReserves, BeginJoins, BeginConflicts,
       BeginFails, Wakes, FlushAudit, CloseFlush, Precheck, Revalidated, Consume,
       Submit, LastCheck, Prepares, NeverSent,
       NotSubmitted, Settles, WriteAudit, CloseAudit, Finish, AbortReservation,
       Running, Resuming, Proceeds, Awaits, Returns, Rejects, Plans, PlansAbort, PlansFinish,
       ApprovalFault, Guarded
  <2>2. CASE Unmoved(c) \/ Dies(c)
    BY <2>2 DEF Unmoved, Dies
  <2>3. ~ \E p \in Proc, x \in Decision : Receive(c, p, x)
    BY DEF Receive, CallTypeOK
  <2>. QED BY <2>1, <2>2, <2>3, CallSteps
<1>2. CASE CompleteResult(c)
  <2>1. Holds(c) /\ verdict' = verdict
    BY <1>2 DEF CompleteResult, Running, Holds, Holding
  <2>2. pc[c] # "idle" /\ JoinsPending(proc[c], IntentOf(c))
    BY <2>1, HolderServed
  <2>3. PICK o : /\ Complete(proc[c], IntentOf(c), verdict[c], EventOf(c, verdict[c]), o)
                 /\ Proceeds(c, IF o = "ok" THEN "audit" ELSE "auditUnstored")
    BY <1>2 DEF CompleteResult
  <2>4. o = "ok"
    BY <2>3 DEF Proceeds, CallTypeOK
  <2>5. KeyOf(c) \in Key /\ ScopedKey[IntentOf(c)] = KeyOf(c)
    BY <2>2, Arguments DEF KeyOf
  <2>6. file'[KeyOf(c)] = Cached(IntentOf(c), verdict[c], EventOf(c, verdict[c]))
    BY <2>2, <2>3, <2>4, <2>5 DEF Complete, WriteEntry, StoreTypeOK
  <2>. QED BY <2>1, <2>2, <2>6, ArgumentsKept, EntryFields DEF RecordedFor
<1>3. CASE BeginFindsCached(c)
  <2>1. pc[c] # "idle"
    BY <1>3 DEF BeginFindsCached, Running
  <2>2. file' = file /\ verdict'[c] = file[KeyOf(c)].result
    BY <1>3 DEF BeginFindsCached, KeepShared, CallTypeOK
  <2>3. file[KeyOf(c)].status = "cached" /\ file[KeyOf(c)].payload = IntentOf(c)
    BY <1>3 DEF BeginFindsCached, FindsCached, KeyOf
  <2>. QED BY <2>1, <2>2, <2>3, ArgumentsKept DEF RecordedFor
<1>4. CASE pc[c] \in {"audit", "closeAudit", "flush", "closeFlush"} /\ verdict'[c] = verdict[c]
  <2>1. pc[c] # "idle" /\ RecordedFor(c, verdict[c])
    BY <1>4 DEF AnswersRecorded
  <2>. QED BY <1>4, <2>1, RecordedStays, ArgumentsKept DEF RecordedFor
<1>. QED BY <1>1, <1>2, <1>3, <1>4

\* What a call answers anew.
LEMMA NewAnswer ==
  ASSUME TypeOK, Called, EntriesWellFormed, HolderKnown, PlanTruthful, AnswersRecorded,
         [Next]_vars, NEW c \in Call, answer'[c] # answer[c], answer'[c] \in Verdict
  PROVE  /\ pc[c] # "idle" /\ file'[KeyOf(c)].status = "cached"
         /\ file'[KeyOf(c)].payload = IntentOf(c) /\ file'[KeyOf(c)].result = answer'[c]
         /\ \/ BeginFindsCached(c) /\ file[KeyOf(c)].pendingAudit = Null
               /\ file' = file
            \/ Wakes(c) /\ answer'[c] = promise[owner[c]]
            \/ (CloseFlush(c) \/ CloseAudit(c)) /\ answer'[c] = verdict[c]
            \/ Finish(c) /\ answer'[c] \in Rejection
<1>. USE DEF TypeOK
<1>1. answer'[c] \notin Transient
  BY Results
<1>2. /\ Step(c)
      /\ \/ BeginFindsCached(c) \/ Wakes(c) \/ CloseFlush(c) \/ CloseAudit(c) \/ Finish(c)
         \/ AbortReservation(c)
  <2>1. CASE Step(c)
    BY <1>1, <2>1 DEF Step, CallTypeOK, LookUpApproval, BeginReserves, BeginJoins, BeginConflicts,
       BeginFails, FlushAudit, Precheck, Revalidated, Consume, CompleteResult,
       Submit, LastCheck, Prepares, NeverSent,
       NotSubmitted, Settles, WriteAudit,
       Proceeds, Awaits, Returns, Rejects, Plans, PlansAbort, PlansFinish,
       ApprovalFault, Guarded, Transient
  <2>2. ~ Unmoved(c) /\ ~ Dies(c)
    BY DEF Unmoved, Dies
  <2>3. ~ \E p \in Proc, x \in Decision : Receive(c, p, x)
    BY <1>1 DEF Receive, CallTypeOK
  <2>. QED BY <2>1, <2>2, <2>3, CallSteps
<1>3. pc[c] # "idle"
  BY <1>2 DEF BeginFindsCached, Wakes, CloseFlush, CloseAudit, Finish, AbortReservation,
     Running, Resuming
<1>4. CASE BeginFindsCached(c)
  <2>1. file' = file /\ answer'[c] = file[KeyOf(c)].result /\ file[KeyOf(c)].pendingAudit = Null
    BY <1>4 DEF BeginFindsCached, KeepShared, CallTypeOK, Returns, Proceeds
  <2>2. file[KeyOf(c)].status = "cached" /\ file[KeyOf(c)].payload = IntentOf(c)
    BY <1>4 DEF BeginFindsCached, FindsCached, KeyOf
  <2>. QED BY <1>3, <1>4, <2>1, <2>2
<1>5. CASE Wakes(c)
  <2>1. /\ answer'[c] = promise[owner[c]] /\ file' = file
        /\ owner[c] \in Call /\ IntentOf(owner[c]) = IntentOf(c)
    BY <1>1, <1>5 DEF Wakes, Resuming, Returns, CallTypeOK, AnswersRecorded, KeepShared, Transient
  <2>2. RecordedFor(owner[c], answer'[c])
    BY <2>1 DEF AnswersRecorded
  <2>. QED BY <1>3, <1>5, <2>1, <2>2 DEF RecordedFor, KeyOf
<1>6. CASE CloseFlush(c) \/ CloseAudit(c)
  <2>1. RecordedFor(c, verdict[c])
    BY <1>6 DEF CloseFlush, CloseAudit, Running, AnswersRecorded
  <2>2. answer'[c] = verdict[c]
    BY <1>1, <1>6 DEF CloseFlush, CloseAudit, Returns, CallTypeOK, Transient
  <2>. QED BY <1>3, <1>6, <2>1, <2>2, RecordedStays
<1>7. CASE Finish(c)
  <2>1. Holds(c) /\ verdict[c] \in Rejection
    BY <1>7 DEF Finish, Running, Holds, Holding, PlanTruthful
  <2>2. PICK o : /\ Complete(proc[c], IntentOf(c), verdict[c], Null, o)
                 /\ Returns(c, IF o = "ok" THEN verdict[c] ELSE "threw")
    BY <1>7 DEF Finish
  <2>3. o = "ok" /\ answer'[c] = verdict[c]
    BY <1>1, <2>2 DEF Returns, CallTypeOK, Transient
  <2>4. KeyOf(c) \in Key /\ ScopedKey[IntentOf(c)] = KeyOf(c) /\ JoinsPending(proc[c], IntentOf(c))
    BY <1>3, <2>1, Arguments, HolderServed DEF KeyOf
  <2>5. file'[KeyOf(c)] = Cached(IntentOf(c), verdict[c], Null)
    BY <2>2, <2>3, <2>4 DEF Complete, WriteEntry, StoreTypeOK
  <2>. QED BY <1>3, <1>7, <2>1, <2>3, <2>5, EntryFields
<1>8. CASE AbortReservation(c)
  <2>1. verdict[c] \in Transient
    BY <1>8 DEF AbortReservation, Running, PlanTruthful
  <2>2. answer'[c] \in Transient
    BY <1>8, <2>1 DEF AbortReservation, Returns, CallTypeOK, Transient
  <2>. QED BY <1>1, <2>2
<1>. QED BY <1>2, <1>4, <1>5, <1>6, <1>7, <1>8

\* Answers, promises and results about to be returned are the recorded ones.
LEMMA AnswersStep ==
  ASSUME TypeOK, Called, EntriesWellFormed, HolderKnown, MapSound, PlanTruthful, AnswersRecorded,
         [Next]_vars
  PROVE  AnswersRecorded'
<1>. USE DEF TypeOK
<1>1. SUFFICES ASSUME NEW c \in Call
               PROVE  /\ answer'[c] \in Verdict => RecordedFor(c, answer[c])'
                      /\ promise'[c] \in Verdict => RecordedFor(c, promise[c])'
                      /\ pc'[c] = "waiting" =>
                           /\ owner'[c] \in Call /\ pc'[owner'[c]] # "idle"
                           /\ decision'[owner'[c]].intent = decision'[c].intent
  BY RecordedPlaces DEF AnswersRecorded, IntentOf
<1>2. ASSUME answer'[c] \in Verdict PROVE RecordedFor(c, answer[c])'
  <2>1. CASE answer'[c] = answer[c]
    <3>1. pc[c] # "idle"
      BY <1>2, <2>1, StoreAssumption DEF Called
    <3>2. RecordedFor(c, answer[c])
      BY <1>2, <2>1 DEF AnswersRecorded
    <3>. QED BY <2>1, <3>1, <3>2, RecordedStays, ArgumentsKept DEF RecordedFor
  <2>2. CASE answer'[c] # answer[c]
    BY <1>2, <2>2, NewAnswer, ArgumentsKept DEF RecordedFor
  <2>. QED BY <2>1, <2>2
<1>3. ASSUME promise'[c] \in Verdict PROVE RecordedFor(c, promise[c])'
  <2>1. promise'[c] # "open" /\ promise'[c] # "broken"
    BY <1>3, StoreAssumption
  <2>2. CASE promise'[c] = promise[c]
    <3>1. pc[c] # "idle"
      BY <2>1, <2>2 DEF Called
    <3>2. RecordedFor(c, promise[c])
      BY <1>3, <2>2 DEF AnswersRecorded
    <3>. QED BY <2>2, <3>1, <3>2, RecordedStays, ArgumentsKept DEF RecordedFor
  <2>3. CASE promise'[c] # promise[c]
    <3>1. pc[c] # "idle"
      BY <2>3, PromiseStep
    <3>2. CASE /\ Finish(c) /\ promise'[c] = verdict[c]
               /\ file'[KeyOf(c)] = Cached(IntentOf(c), verdict[c], Null)
      BY <3>1, <3>2, ArgumentsKept, EntryFields DEF RecordedFor
    <3>3. CASE /\ file[KeyOf(c)].status = "cached" /\ file[KeyOf(c)].payload = IntentOf(c)
               /\ promise'[c] = file[KeyOf(c)].result
      <4>1. RecordedFor(c, promise'[c])
        BY <3>3 DEF RecordedFor
      <4>. QED BY <3>1, <4>1, RecordedStays, ArgumentsKept DEF RecordedFor
    <3>. QED BY <2>1, <2>3, <3>2, <3>3, PromiseStep
  <2>. QED BY <2>2, <2>3
<1>4. ASSUME pc'[c] = "waiting"
      PROVE  /\ owner'[c] \in Call /\ pc'[owner'[c]] # "idle"
             /\ decision'[owner'[c]].intent = decision'[c].intent
  <2>1. \/ BeginJoins(c)
        \/ pc[c] = "waiting" /\ owner'[c] = owner[c]
    <3>1. CASE Step(c)
      BY <1>4, <3>1
         DEF Step, CallTypeOK, LookUpApproval, BeginReserves, BeginConflicts, BeginFindsCached,
         BeginFails, Wakes, FlushAudit, CloseFlush, Precheck, Revalidated, Consume,
         CompleteResult,
         Submit, LastCheck, Prepares, NeverSent,
         NotSubmitted, Settles, WriteAudit, CloseAudit, Finish, AbortReservation,
         Running, Resuming, Proceeds, Awaits, Returns, Rejects, Plans, PlansAbort, PlansFinish,
         ApprovalFault, Guarded
    <3>2. CASE Unmoved(c) \/ Dies(c)
      BY <1>4, <3>2 DEF Unmoved, Dies
    <3>3. ~ \E p \in Proc, x \in Decision : Receive(c, p, x)
      BY <1>4 DEF Receive, CallTypeOK
    <3>. QED BY <3>1, <3>2, <3>3, CallSteps
  <2>2. /\ pc[c] # "idle" /\ owner'[c] \in Call /\ pc[owner'[c]] # "idle"
        /\ IntentOf(owner'[c]) = IntentOf(c)
    <3>1. CASE BeginJoins(c)
      <4>1. pc[c] # "idle" /\ JoinsPending(proc[c], IntentOf(c))
        BY <3>1 DEF BeginJoins, Running
      <4>2. owner'[c] = Serving(proc[c], IntentOf(c)).owner
        BY <3>1 DEF BeginJoins, CallTypeOK
      <4>. QED BY <4>1, <4>2, Arguments, ServedBySomeone DEF JoinsPending, Serving, MapSound
    <3>2. CASE pc[c] = "waiting" /\ owner'[c] = owner[c]
      BY <3>2 DEF AnswersRecorded
    <3>. QED BY <2>1, <3>1, <3>2
  <2>3. decision'[c] = decision[c]
    BY <2>2, ArgumentsKept
  <2>4. pc'[owner'[c]] # "idle" /\ decision'[owner'[c]] = decision[owner'[c]]
    BY <2>2, ArgumentsKept
  <2>. QED BY <2>2, <2>3, <2>4 DEF IntentOf
<1>. QED BY <1>2, <1>3, <1>4

-----------------------------------------------------------------------------
(***************************************************************************)
(* Approvals.                                                              *)
(***************************************************************************)

\* A call past the consumption holds a spent approval of its own.
LEMMA ApprovalHeldStep ==
  ASSUME TypeOK, Called, SubmittedKeyClosed, ApprovalHeld, [Next]_vars
  PROVE  ApprovalHeld'
<1>. USE DEF TypeOK
<1>1. SUFFICES ASSUME NEW c \in Call
               PROVE  LET a == decision'[c].approvalId IN
                      /\ pc'[c] \in {"revalidating", "consume"} /\ a # Null => ApprovalMatches(c)'
                      /\ pc'[c] = "consume" => a # Null
                      /\ (pc'[c] \in {"executing", "sending"} \/ c \in effects') /\ a # Null
                           => approvals'[a] = "consumed" /\ ApprovalMatches(c)'
                      /\ (Holds(c)' \/ pc'[c] = "begin" \/ c \in effects')
                             /\ decision'[c].outcome = "needs_human" => a # Null
  BY DEF ApprovalHeld
<1>2. CASE \E p \in Proc, x \in Decision : Receive(c, p, x)
  <2>1. c \notin effects' /\ ~ Holds(c)'
        /\ pc'[c] \notin {"revalidating", "consume", "executing", "sending", "begin"}
    BY <1>2 DEF Receive, CallTypeOK, KeepShared, Called, Holds, Holding
  <2>. QED BY <2>1
<1>3. CASE pc[c] = "idle" /\ ~ \E p \in Proc, x \in Decision : Receive(c, p, x)
  <2>1. ~ Step(c)
    BY <1>3 DEF Step, LookUpApproval, BeginReserves, BeginJoins, BeginConflicts, BeginFails,
       BeginFindsCached, Wakes, FlushAudit, CloseFlush, Precheck, Revalidated, Consume, Submit,
       LastCheck, Prepares, NeverSent,
       NotSubmitted, Settles, CompleteResult, WriteAudit, CloseAudit, Finish, AbortReservation,
       Running, Resuming
  <2>2. pc'[c] \in {"idle", "crashed"}
    BY <1>3, <2>1, CallSteps DEF Unmoved, Dies
  <2>3. c \notin effects'
    BY <1>3, EffectsStep DEF Called, Submit, Running, Resuming
  <2>. QED BY <2>2, <2>3 DEF Holds, Holding
<1>4. CASE pc[c] # "idle"
  <2>. DEFINE a == decision[c].approvalId
  <2>1. /\ decision'[c] = decision[c] /\ a \in Approval \cup {Null}
        /\ ApprovalMatches(c)' <=> ApprovalMatches(c)
    BY <1>4, ArgumentsKept, Arguments DEF ApprovalMatches, IntentOf
  <2>2. a # Null /\ approvals[a] = "consumed" => approvals'[a] = "consumed"
    BY <2>1, ApprovalsStep
  <2>3. \/ /\ pc'[c] \in {"revalidating", "consume", "executing", "sending", "begin"}
           /\ pc[c] = pc'[c]
        \/ pc'[c] \in Holding \ {"revalidating", "consume", "executing", "sending"}
             /\ (Holds(c) \/ BeginReserves(c))
        \/ pc'[c] \notin Holding \cup {"begin"}
        \/ LookUpApproval(c)
        \/ Precheck(c)
        \/ Revalidated(c)
        \/ Consume(c)
        \/ LastCheck(c)
    <3>1. CASE Step(c)
      BY <3>1 DEF Step, CallTypeOK, BeginReserves, BeginJoins, BeginConflicts,
         BeginFails, BeginFindsCached, Wakes, FlushAudit, CloseFlush, CompleteResult,
         Submit, NeverSent, NotSubmitted, Settles, WriteAudit, CloseAudit, Finish,
         AbortReservation, Running, Resuming, Proceeds, Awaits, Returns, Rejects, Plans, Holding,
         Holds
    <3>2. CASE Unmoved(c) \/ Dies(c)
      BY <3>2 DEF Unmoved, Dies, Holding, Holds
    <3>. QED BY <1>4, <3>1, <3>2, CallSteps DEF Receive
  <2>4. ASSUME LookUpApproval(c) PROVE /\ pc'[c] \notin Holding
                                       /\ pc'[c] = "begin" /\ decision[c].outcome = "needs_human"
                                            => a # Null
    BY <2>4 DEF LookUpApproval, Proceeds, Returns, Rejects, CallTypeOK, Holding
  <2>5. ASSUME Precheck(c) PROVE /\ pc'[c] \in {"revalidating", "finish", "abort"}
                                 /\ pc'[c] = "revalidating" /\ a # Null => ApprovalMatches(c)
                                 /\ Holds(c)
    BY <2>5 DEF Precheck, ApprovalFault, ApprovalStands, Guarded, PlansAbort, PlansFinish, Plans,
       Proceeds, Awaits, CallTypeOK, Running, Holding, Holds
  <2>6. ASSUME Revalidated(c) PROVE /\ pc'[c] \in {"consume", "executing", "finish", "abort"}
                                    /\ pc'[c] = "consume" => a # Null
                                    /\ pc'[c] = "executing" => a = Null
                                    /\ Holds(c) /\ pc[c] = "revalidating"
    BY <2>6 DEF Revalidated, Guarded, PlansAbort, PlansFinish, Plans,
       Proceeds, Awaits, CallTypeOK, Resuming, Holding, Holds
  <2>7. ASSUME Consume(c) PROVE /\ pc'[c] \in {"executing", "finish", "abort"}
                                /\ pc'[c] = "executing" => approvals'[a] = "consumed"
                                /\ Holds(c) /\ pc[c] = "consume" /\ a # Null
    <3>1. pc[c] = "consume" /\ a # Null /\ a \in Approval
      BY <2>1, <2>7 DEF Consume, Running, ApprovalHeld
    <3>. QED BY <2>7, <3>1
       DEF Consume, ConsumeOneTime, Consumable, Change, PlansAbort, PlansFinish,
       Plans, Proceeds, Awaits, CallTypeOK, ApprovalTypeOK, Holding, Holds
  <2>13. ASSUME LastCheck(c) PROVE pc'[c] = "sending" /\ pc[c] = "executing" /\ Holds(c)
    BY <2>13 DEF LastCheck, Prepares, Proceeds, Awaits, Resuming, CallTypeOK, Holds, Holding
  <2>8. c \in effects' => c \in effects \/ pc[c] = "sending"
    BY EffectsStep DEF Submit, Running, Resuming
  <2>9. pc'[c] \in {"revalidating", "consume"} /\ a # Null => ApprovalMatches(c)
    BY <2>3, <2>4, <2>5, <2>6, <2>7, <2>13 DEF ApprovalHeld, Holding
  <2>10. pc'[c] = "consume" => a # Null
    BY <2>3, <2>4, <2>5, <2>6, <2>7, <2>13 DEF ApprovalHeld, Holding
  <2>11. (pc'[c] \in {"executing", "sending"} \/ c \in effects') /\ a # Null
            => approvals'[a] = "consumed" /\ ApprovalMatches(c)
    <3>1. ASSUME pc[c] \in {"executing", "sending"} \/ c \in effects, a # Null
          PROVE  approvals'[a] = "consumed" /\ ApprovalMatches(c)
      BY <2>2, <3>1 DEF ApprovalHeld
    <3>2. ASSUME pc'[c] \in {"executing", "sending"}, pc[c] \notin {"executing", "sending"},
                 a # Null
          PROVE  approvals'[a] = "consumed" /\ ApprovalMatches(c)
      <4>1. Consume(c)
        BY <2>3, <2>4, <2>5, <2>6, <2>13, <3>2 DEF Holding
      <4>. QED BY <2>7, <3>2, <4>1 DEF ApprovalHeld
    <3>. QED BY <2>8, <3>1, <3>2
  <2>12. ASSUME Holds(c)' \/ pc'[c] = "begin" \/ c \in effects', decision[c].outcome = "needs_human"
         PROVE  a # Null
    <3>1. CASE Holds(c) \/ pc[c] = "begin" \/ c \in effects
      BY <2>12, <3>1 DEF ApprovalHeld
    <3>2. CASE pc'[c] = "begin" /\ pc[c] # "begin"
      BY <2>3, <2>4, <2>5, <2>6, <2>7, <2>12, <2>13, <3>2 DEF Holding
    <3>3. CASE Holds(c)'
      BY <3>1, <3>3, NewHolder DEF BeginReserves, Running
    <3>4. pc[c] = "sending" => Holds(c)
      BY DEF Holds, Holding
    <3>. QED BY <2>8, <2>12, <3>1, <3>2, <3>3, <3>4
  <2>. QED BY <2>1, <2>9, <2>10, <2>11, <2>12
<1>. QED BY <1>2, <1>3, <1>4

-----------------------------------------------------------------------------
(***************************************************************************)
(* The terminal events of the audit log.                                   *)
(***************************************************************************)

\* A terminal result that is stored, promised or returned is audited or owed.
LEMMA AuditOwedStep ==
  ASSUME TypeOK, Called, EntriesWellFormed, HolderKnown, MapSound, PlanTruthful, AnswersRecorded,
         AuditOwed, [Next]_vars
  PROVE  AuditOwed'
<1>. USE DEF TypeOK
<1>0. ASSUME NEW c \in Call, CloseFlush(c) \/ CloseAudit(c)
      PROVE  /\ pc[c] # "idle" /\ RecordedFor(c, verdict[c])
             /\ Audited(IntentOf(c), verdict[c])
  <2>1. pc[c] # "idle" /\ RecordedFor(c, verdict[c])
    BY <1>0 DEF CloseFlush, CloseAudit, Running, AnswersRecorded
  <2>2. Describes(EventOf(c, verdict[c]), IntentOf(c), verdict[c])
    BY <2>1, OwnEvent
  <2>. QED BY <1>0, <2>1, <2>2, DescribedIsAudited DEF CloseFlush, CloseAudit, Running, AuditOwed
<1>1. ASSUME NEW c \in Call
      PROVE  /\ pc'[c] \in {"audit", "auditUnstored", "closeAudit"} => verdict'[c] \in Terminal
             /\ pc'[c] = "closeAudit" => EventOf(c, verdict[c])' \in trail'
             /\ pc'[c] \in {"flush", "closeFlush"} => Describes(event[c], IntentOf(c), verdict[c])'
             /\ pc'[c] = "closeFlush" => event'[c] \in trail'
  <2>1. CASE pc[c] = "idle"
    BY <2>1, OwingPlaces DEF CompleteResult, BeginFindsCached, Running
  <2>2. CASE pc[c] # "idle"
    <3>1. decision'[c] = decision[c] /\ IntentOf(c)' = IntentOf(c)
      BY <2>2, ArgumentsKept
    <3>2. verdict'[c] = verdict[c] => EventOf(c, verdict[c])' = EventOf(c, verdict[c])
      BY <3>1 DEF EventOf, IntentOf
    <3>3. CompleteResult(c) => verdict[c] \in Terminal /\ verdict'[c] = verdict[c]
      BY DEF CompleteResult, Running, PlanTruthful
    <3>4. BeginFindsCached(c) /\ pc'[c] = "flush"
            => Describes(event'[c], IntentOf(c), verdict'[c])
      <4>1. SUFFICES ASSUME BeginFindsCached(c), pc'[c] = "flush"
                     PROVE  Describes(event'[c], IntentOf(c), verdict'[c])
        OBVIOUS
      <4>2. /\ event'[c] = file[KeyOf(c)].pendingAudit /\ event'[c] # Null
            /\ verdict'[c] = file[KeyOf(c)].result /\ file[KeyOf(c)].payload = IntentOf(c)
        BY <4>1 DEF BeginFindsCached, FindsCached, Returns, CallTypeOK, KeyOf
      <4>. QED BY <2>2, <4>2, Arguments DEF AuditOwed
    <3>5. event[c] \in trail => event[c] \in trail'
      BY TrailStep
    <3>6. EventOf(c, verdict[c]) \in trail => EventOf(c, verdict[c]) \in trail'
      BY TrailStep
    <3>7. pc'[c] \in {"audit", "auditUnstored", "closeAudit"} => verdict'[c] \in Terminal
      BY <3>3, OwingPlaces DEF AuditOwed
    <3>8. pc'[c] = "closeAudit" => EventOf(c, verdict[c])' \in trail'
      BY <3>2, <3>6, OwingPlaces DEF AuditOwed
    <3>9. pc'[c] \in {"flush", "closeFlush"} => Describes(event'[c], IntentOf(c), verdict'[c])
      BY <3>4, OwingPlaces DEF AuditOwed
    <3>10. pc'[c] = "closeFlush" => event'[c] \in trail'
      BY <3>5, OwingPlaces DEF AuditOwed
    <3>. QED BY <3>1, <3>7, <3>8, <3>9, <3>10 DEF Describes
  <2>. QED BY <2>1, <2>2
<1>2. ASSUME NEW c \in Call, answer'[c] \in Terminal PROVE AuditedAfter(IntentOf(c)', answer'[c])
  <2>1. pc[c] # "idle" /\ Audited(IntentOf(c), answer'[c])
    <3>1. CASE answer'[c] = answer[c]
      BY <1>2, <3>1, Results, StoreAssumption DEF AuditOwed, Called
    <3>2. CASE answer'[c] # answer[c]
      <4>1. pc[c] # "idle" /\ answer'[c] \notin Rejection
        BY <1>2, <3>2, NewAnswer, Results DEF Terminal, Rejection
      <4>2. CASE BeginFindsCached(c) /\ file[KeyOf(c)].pendingAudit = Null /\ file' = file
        <5>1. file[KeyOf(c)].payload = IntentOf(c) /\ file[KeyOf(c)].result = answer'[c]
          BY <1>2, <3>2, <4>2, NewAnswer, Results
        <5>. QED BY <1>2, <4>1, <4>2, <5>1, Arguments DEF AuditOwed
      <4>3. CASE Wakes(c) /\ answer'[c] = promise[owner[c]]
        <5>1. owner[c] \in Call /\ IntentOf(owner[c]) = IntentOf(c)
          BY <4>3 DEF Wakes, Resuming, AnswersRecorded
        <5>. QED BY <1>2, <4>1, <4>3, <5>1 DEF AuditOwed
      <4>4. CASE (CloseFlush(c) \/ CloseAudit(c)) /\ answer'[c] = verdict[c]
        BY <1>0, <4>1, <4>4
      <4>. QED BY <1>2, <3>2, <4>1, <4>2, <4>3, <4>4, NewAnswer, Results
    <3>. QED BY <3>1, <3>2
  <2>. QED BY <2>1, ArgumentsKept, AuditedStays
<1>3. ASSUME NEW c \in Call, promise'[c] \in Terminal
      PROVE  AuditedAfter(IntentOf(c)', promise'[c])
  <2>1. pc[c] # "idle" /\ Audited(IntentOf(c), promise'[c])
    <3>1. CASE promise'[c] = promise[c]
      <4>1. promise[c] # "open"
        BY <1>3, <3>1, Results, StoreAssumption
      <4>. QED BY <1>3, <3>1, <4>1 DEF AuditOwed, Called
    <3>2. CASE promise'[c] # promise[c]
      <4>1. pc[c] # "idle" /\ promise'[c] # "broken"
        BY <1>3, <3>2, PromiseStep DEF Terminal
      <4>2. ~ (Finish(c) /\ promise'[c] = verdict[c])
        BY <1>3 DEF Finish, Running, PlanTruthful, Terminal, Rejection
      <4>3. PICK d \in Call : /\ CloseAudit(d) /\ IntentOf(c) = IntentOf(d) /\ KeyOf(c) = KeyOf(d)
                              /\ promise'[c] = file[KeyOf(c)].result
        BY <3>2, <4>1, <4>2, PromiseStep
      <4>. QED BY <1>0, <4>1, <4>3 DEF RecordedFor
    <3>. QED BY <3>1, <3>2
  <2>. QED BY <2>1, ArgumentsKept, AuditedStays
<1>4. ASSUME NEW k \in Key
      PROVE  /\ file'[k].pendingAudit # Null =>
                  Describes(file'[k].pendingAudit, file'[k].payload, file'[k].result)
             /\ file'[k].pendingAudit = Null /\ file'[k].result \in Terminal
                  => AuditedAfter(file'[k].payload, file'[k].result)
  <2>1. CASE file'[k] = file[k]
    BY <2>1, AuditedStays DEF AuditOwed
  <2>2. CASE file'[k] # file[k] /\ file[k].status # "cached"
    <3>1. PICK c \in Call :
         /\ pc[c] # "idle" /\ KeyOf(c) = k
         /\ \/ file'[k] = InProgress(IntentOf(c))
            \/ CompleteResult(c) /\ file'[k] = Cached(IntentOf(c), verdict[c], EventOf(c, verdict[c]))
            \/ Finish(c) /\ file'[k] = Cached(IntentOf(c), verdict[c], Null)
            \/ file'[k] = Free
      BY <2>2, FileStep
    <3>2. CASE file'[k] = InProgress(IntentOf(c)) \/ file'[k] = Free
      <4>1. file'[k].pendingAudit = Null /\ file'[k].result = Null
        BY <3>2 DEF InProgress, Free
      <4>. QED BY <4>1, Results, StoreAssumption
    <3>3. CASE file'[k] = Cached(IntentOf(c), verdict[c], EventOf(c, verdict[c]))
      BY <3>1, <3>3, EntryFields, OwnEvent, Arguments, StoreAssumption
    <3>4. CASE Finish(c) /\ file'[k] = Cached(IntentOf(c), verdict[c], Null)
      <4>1. verdict[c] \notin Terminal
        BY <3>4 DEF Finish, Running, PlanTruthful, Terminal, Rejection
      <4>. QED BY <3>4, <4>1, EntryFields
    <3>. QED BY <3>1, <3>2, <3>3, <3>4
  <2>3. CASE file'[k] # file[k] /\ file[k].status = "cached"
    <3>1. PICK c \in Call :
            /\ CloseFlush(c) \/ CloseAudit(c)
            /\ KeyOf(c) = k /\ file[k].payload = IntentOf(c)
            /\ file'[k] = [file[k] EXCEPT !.pendingAudit = Null]
      BY <2>3, FileStep, EntryFields
    <3>2. Audited(file[k].payload, file[k].result)
      BY <1>0, <3>1 DEF RecordedFor
    <3>3. /\ file'[k].pendingAudit = Null
          /\ file'[k].payload = file[k].payload /\ file'[k].result = file[k].result
      BY <2>3, <3>1, EntryShapes, EntryFields
    <3>. QED BY <3>2, <3>3, AuditedStays
  <2>. QED BY <2>1, <2>2, <2>3
<1>. QED BY <1>1, <1>2, <1>3, <1>4 DEF AuditOwed, Describes, Audited, AuditedAfter

\* EventFor, after a step.
EventForAfter(k, e) ==
  \/ e \in trail' /\ ScopedKey[e.intent] = k
  \/ \E c \in Call : /\ pc'[c] \in {"audit", "auditUnstored", "closeAudit"}
                     /\ KeyOf(c)' = k /\ e = EventOf(c, verdict[c])'
  \/ \E c \in Call : pc'[c] \in {"flush", "closeFlush"} /\ KeyOf(c)' = k /\ e = event'[c]
  \/ e = file'[k].pendingAudit

\* A step brings up a terminal event for a key only when a holder completes.
LEMMA EventsStep ==
  ASSUME TypeOK, Called, EntriesWellFormed, HolderKnown, AuditOwed, [Next]_vars,
         NEW k \in Key, NEW e \in Event, EventForAfter(k, e)
  PROVE  \/ EventFor(k, e)
         \/ \E c \in Call : /\ CompleteResult(c) /\ Holds(c) /\ KeyOf(c) = k
                            /\ e = EventOf(c, verdict[c])
<1>. USE DEF TypeOK
<1>. DEFINE New == \E c \in Call : /\ CompleteResult(c) /\ Holds(c) /\ KeyOf(c) = k
                                   /\ e = EventOf(c, verdict[c])
<1>1. CASE e \in trail' /\ ScopedKey[e.intent] = k
  <2>1. ASSUME NEW c \in Call, FlushAudit(c), e = event[c] PROVE EventFor(k, e)
    <3>1. pc[c] = "flush" /\ e.intent = IntentOf(c)
      BY <2>1 DEF FlushAudit, Running, AuditOwed, Describes
    <3>. QED BY <1>1, <2>1, <3>1 DEF EventFor, KeyOf
  <2>2. ASSUME NEW c \in Call, WriteAudit(c), e = EventOf(c, verdict[c]) PROVE EventFor(k, e)
    <3>1. pc[c] \in {"audit", "auditUnstored"} /\ e.intent = IntentOf(c)
      BY <2>2, OwnEvent DEF WriteAudit, Running
    <3>. QED BY <1>1, <2>2, <3>1 DEF EventFor, KeyOf
  <2>. QED BY <1>1, <2>1, <2>2, TrailStep DEF EventFor
<1>2. ASSUME NEW c \in Call, pc'[c] \in {"audit", "auditUnstored", "closeAudit"},
             KeyOf(c)' = k, e = EventOf(c, verdict[c])'
      PROVE  EventFor(k, e) \/ New
  <2>1. \/ CompleteResult(c) /\ verdict'[c] = verdict[c]
        \/ pc[c] \in {"audit", "auditUnstored", "closeAudit"} /\ verdict'[c] = verdict[c]
    BY <1>2, OwingPlaces DEF CompleteResult
  <2>2. pc[c] # "idle" /\ (CompleteResult(c) => Holds(c))
    BY <2>1 DEF CompleteResult, Running, Holds, Holding
  <2>3. decision'[c] = decision[c] /\ KeyOf(c) = k
    BY <1>2, <2>2, ArgumentsKept
  <2>4. e = EventOf(c, verdict[c])
    BY <1>2, <2>1, <2>3 DEF EventOf, IntentOf
  <2>. QED BY <2>1, <2>2, <2>3, <2>4 DEF EventFor
<1>3. ASSUME NEW c \in Call, pc'[c] \in {"flush", "closeFlush"}, KeyOf(c)' = k, e = event'[c]
      PROVE  EventFor(k, e)
  <2>1. \/ BeginFindsCached(c)
        \/ pc[c] \in {"flush", "closeFlush"} /\ event'[c] = event[c]
    BY <1>3, OwingPlaces
  <2>2. pc[c] # "idle"
    BY <2>1 DEF BeginFindsCached, Running
  <2>3. KeyOf(c) = k
    BY <1>3, <2>2, ArgumentsKept
  <2>4. BeginFindsCached(c) => e = file[k].pendingAudit
    BY <1>3, <2>3 DEF BeginFindsCached, CallTypeOK
  <2>. QED BY <1>3, <2>1, <2>3, <2>4 DEF EventFor
<1>4. CASE e = file'[k].pendingAudit
  <2>1. e # Null
    BY StoreAssumption
  <2>2. CASE file'[k] = file[k]
    BY <1>4, <2>2 DEF EventFor
  <2>3. CASE file'[k] # file[k] /\ file[k].status = "cached"
    BY <1>4, <2>1, <2>3, RecordKept DEF EventFor
  <2>4. CASE file'[k] # file[k] /\ file[k].status # "cached"
    <3>1. PICK c \in Call :
         /\ pc[c] # "idle" /\ KeyOf(c) = k
         /\ \/ file'[k] = InProgress(IntentOf(c))
            \/ /\ CompleteResult(c) /\ Holds(c)
               /\ file'[k] = Cached(IntentOf(c), verdict[c], EventOf(c, verdict[c]))
            \/ file'[k] = Cached(IntentOf(c), verdict[c], Null)
            \/ file'[k] = Free
      BY <2>4, FileStep
    <3>2. file'[k].pendingAudit = e /\ e # Null
      BY <1>4, <2>1
    <3>3. \A i : InProgress(i).pendingAudit = Null /\ Free.pendingAudit = Null
      BY DEF InProgress, Free
    <3>. QED BY <3>1, <3>2, <3>3, EntryFields
  <2>. QED BY <2>2, <2>3, <2>4
<1>. QED BY <1>1, <1>2, <1>3, <1>4 DEF EventForAfter

\* A key has one terminal event, and it closes the key.
LEMMA OneEventStep ==
  ASSUME TypeOK, Called, EntriesWellFormed, HolderKnown, HolderAlone, AuditOwed, OneEvent,
         [Next]_vars
  PROVE  OneEvent'
<1>. USE DEF TypeOK
<1>1. SUFFICES ASSUME NEW k \in Key, NEW e \in Event, EventForAfter(k, e)
               PROVE  /\ \A other \in Event : EventForAfter(k, other) => other = e
                      /\ file'[k].status # "free"
                      /\ \A c \in Call : Holds(c)' => KeyOf(c)' # k
  BY DEF OneEvent, EventFor, EventForAfter
<1>2. CASE \E c \in Call : CompleteResult(c) /\ Holds(c) /\ KeyOf(c) = k
  <2>1. PICK c \in Call : CompleteResult(c) /\ Holds(c) /\ KeyOf(c) = k
    BY <1>2
  <2>2. \A other \in Event : ~ EventFor(k, other)
    BY <2>1 DEF OneEvent
  <2>3. \A d \in Call : CompleteResult(d) /\ Holds(d) /\ KeyOf(d) = k => d = c
    BY <2>1 DEF HolderAlone
  <2>4. \A other \in Event : EventForAfter(k, other) => other = EventOf(c, verdict[c])
    BY <2>2, <2>3, EventsStep
  <2>5. file[k].status # "free"
    BY <2>1, HolderEntry
  <2>6. file'[k].status # "free"
    <3>1. ~ AbortReservation(c)
      BY <2>1 DEF CompleteResult, AbortReservation, Running
    <3>. QED BY <2>1, <2>5, <3>1, OpenedByAbort DEF HolderAlone
  <2>7. ~ Holds(c)'
    BY <2>1 DEF CompleteResult, Proceeds, CallTypeOK, Holds, Holding
  <2>8. \A d \in Call : Holds(d)' => KeyOf(d)' # k
    BY <2>1, <2>5, <2>7, NewHolder, ReservedWasFree DEF HolderAlone
  <2>. QED BY <1>1, <2>4, <2>6, <2>8
<1>3. CASE ~ \E c \in Call : CompleteResult(c) /\ Holds(c) /\ KeyOf(c) = k
  <2>1. \A other \in Event : EventForAfter(k, other) => EventFor(k, other)
    BY <1>3, EventsStep
  <2>2. /\ EventFor(k, e) /\ file[k].status # "free"
        /\ \A c \in Call : Holds(c) => KeyOf(c) # k
        /\ \A other \in Event : EventFor(k, other) => other = e
    BY <1>1, <2>1 DEF OneEvent
  <2>3. file'[k].status # "free"
    BY <2>2, OpenedByAbort
  <2>4. \A d \in Call : Holds(d)' => KeyOf(d)' # k
    BY <2>2, NewHolder, ReservedWasFree
  <2>. QED BY <2>1, <2>2, <2>3, <2>4
<1>. QED BY <1>2, <1>3

-----------------------------------------------------------------------------
(***************************************************************************)
(* The event loop and the kill switch.                                     *)
(***************************************************************************)

\* A call takes a step when it has its event loop or nobody has, and touches
\* neither another loop nor the switch.
LEMMA LoopFrame ==
  ASSUME CallTypeOK, NEW d \in Call, proc[d] \in Proc, Step(d)
  PROVE  /\ loop[proc[d]] \in {d, Null}
         /\ \A p \in Proc \ {proc[d]} : loop'[p] = loop[p]
         /\ UNCHANGED <<silent, stopped>>
<1>1. loop[proc[d]] \in {d, Null}
  BY DEF Step, LookUpApproval, BeginReserves, BeginJoins, BeginConflicts, BeginFails,
     BeginFindsCached, Wakes, FlushAudit, CloseFlush, Precheck, Revalidated, Consume, LastCheck,
     Submit, NeverSent, NotSubmitted, Settles, CompleteResult, WriteAudit, CloseAudit, Finish,
     AbortReservation, Running, Resuming
<1>2. \A p \in Proc \ {proc[d]} : loop'[p] = loop[p]
  BY DEF Step, LookUpApproval, BeginReserves, BeginJoins, BeginConflicts, BeginFails,
     BeginFindsCached, Wakes, FlushAudit, CloseFlush, Precheck, Revalidated, Consume, LastCheck,
     Prepares, Submit, NeverSent, NotSubmitted, Settles, CompleteResult, WriteAudit, CloseAudit,
     Finish, AbortReservation, Proceeds, Awaits, Returns, Rejects, Plans, PlansAbort, PlansFinish,
     ApprovalFault, Guarded, CallTypeOK
<1>3. UNCHANGED <<silent, stopped>>
  BY DEF Step, LookUpApproval, BeginReserves, BeginJoins, BeginConflicts, BeginFails,
     BeginFindsCached, Wakes, FlushAudit, CloseFlush, Precheck, Revalidated, Consume, LastCheck,
     Submit, NeverSent, NotSubmitted, Settles, CompleteResult, WriteAudit, CloseAudit, Finish,
     AbortReservation
<1>. QED BY <1>1, <1>2, <1>3

\* Between its last check and its request a call keeps the loop, so nobody can
\* reach the switch of its process.
LEMMA LastCheckStep ==
  ASSUME TypeOK, Called, LastCheckHolds, [Next]_vars
  PROVE  LastCheckHolds'
<1>. USE DEF TypeOK
<1>1. SUFFICES ASSUME NEW c \in Call, pc'[c] = "sending",
                      IntentOf(c)' \notin Reading \cup Deferred
               PROVE  loop'[proc'[c]] = c /\ Clear(proc[c], IntentOf(c))'
  BY DEF LastCheckHolds
<1>2. CASE Step(c)
  <2>1. LastCheck(c)
    BY <1>1, <1>2 DEF Step, CallTypeOK, LookUpApproval, BeginReserves, BeginJoins,
       BeginConflicts, BeginFails, BeginFindsCached, Wakes, FlushAudit, CloseFlush, Precheck,
       Revalidated, Consume, Submit, NeverSent, NotSubmitted, Settles, CompleteResult,
       WriteAudit, CloseAudit, Finish, AbortReservation, Running, Resuming, Proceeds, Awaits,
       Returns, Rejects, Plans, PlansAbort, PlansFinish, ApprovalFault, Guarded
  <2>2. proc[c] \in Proc /\ IntentOf(c)' = IntentOf(c) /\ proc'[c] = proc[c]
    BY <2>1, ArgumentsKept DEF LastCheck, Resuming, Called
  <2>3. Clear(proc[c], IntentOf(c)) /\ loop'[proc[c]] = c /\ UNCHANGED <<silent, stopped>>
    BY <1>1, <2>1, <2>2 DEF LastCheck, Prepares, Proceeds, CallTypeOK
  <2>. QED BY <2>2, <2>3 DEF Clear, Silent, Blocking
<1>3. CASE Unmoved(c)
  <2>1. /\ pc[c] = "sending" /\ IntentOf(c)' = IntentOf(c) /\ proc'[c] = proc[c]
        /\ proc[c] \in Proc
    BY <1>1, <1>3 DEF Unmoved, IntentOf, Called
  <2>2. loop[proc[c]] = c /\ Clear(proc[c], IntentOf(c)) /\ loop[proc[c]] # Null
    BY <1>1, <2>1, StoreAssumption DEF LastCheckHolds
  <2>3. SUFFICES /\ loop'[proc[c]] = loop[proc[c]]
                 /\ silent'[proc[c]] = silent[proc[c]] /\ stopped'[proc[c]] = stopped[proc[c]]
    BY <2>1, <2>2 DEF Clear, Silent, Blocking
  <2>4. ASSUME NEW d \in Call, NEW p \in Proc, NEW x \in Decision, Receive(d, p, x)
        PROVE  /\ loop'[proc[c]] = loop[proc[c]] /\ UNCHANGED <<silent, stopped>>
    BY <2>1, <2>2, <2>4 DEF Receive, CallTypeOK
  <2>5. ASSUME NEW d \in Call, Step(d), d # c
        PROVE  /\ loop'[proc[c]] = loop[proc[c]] /\ UNCHANGED <<silent, stopped>>
    <3>1. pc[d] # "idle"
      BY <2>5 DEF Step, LookUpApproval, BeginReserves, BeginJoins, BeginConflicts, BeginFails,
         BeginFindsCached, Wakes, FlushAudit, CloseFlush, Precheck, Revalidated, Consume,
         LastCheck, Submit, NeverSent, NotSubmitted, Settles, CompleteResult, WriteAudit,
         CloseAudit, Finish, AbortReservation, Running, Resuming
    <3>2. proc[d] \in Proc
      BY <3>1 DEF Called
    <3>. QED BY <2>1, <2>2, <2>5, <3>2, LoopFrame
  <2>6. ASSUME NEW p \in Proc, NEW s \in Scope,
               Activate(p, s) \/ Deactivate(p, s) \/ FallsSilent(p, s) \/ Recovers(p, s)
        PROVE  /\ loop'[proc[c]] = loop[proc[c]]
               /\ silent'[proc[c]] = silent[proc[c]] /\ stopped'[proc[c]] = stopped[proc[c]]
    BY <2>1, <2>2, <2>6 DEF Activate, Deactivate, FallsSilent, Recovers, callVars
  <2>7. ASSUME NEW p \in Proc, Crash(p)
        PROVE  /\ loop'[proc[c]] = loop[proc[c]]
               /\ silent'[proc[c]] = silent[proc[c]] /\ stopped'[proc[c]] = stopped[proc[c]]
    <3>1. p # proc[c]
      BY <1>1, <2>1, <2>7 DEF Crash, CallTypeOK
    <3>. QED BY <2>1, <2>7, <3>1 DEF Crash, CallTypeOK
  <2>8. CASE ApprovalServiceActs
    BY <2>8 DEF ApprovalServiceActs, callVars
  <2>9. CASE UNCHANGED vars
    BY <2>9 DEF vars
  <2>10. ASSUME Step(c)
         PROVE  /\ loop'[proc[c]] = loop[proc[c]] /\ UNCHANGED <<silent, stopped>>
    BY <1>1, <1>2, <2>1, <2>2, <2>10, LoopFrame DEF Unmoved
  <2>. QED BY <2>4, <2>5, <2>6, <2>7, <2>8, <2>9, <2>10 DEF Next, EnvironmentStep
<1>4. ~ \E p \in Proc, x \in Decision : Receive(c, p, x)
  BY <1>1 DEF Receive, CallTypeOK
<1>. QED BY <1>1, <1>2, <1>3, <1>4, CallSteps DEF Dies

-----------------------------------------------------------------------------
(***************************************************************************)
(* The invariant, and what follows from it.                                *)
(***************************************************************************)

\* The empty store and log satisfy the invariant.
LEMMA InitInv == Init => Inv
<1>. SUFFICES ASSUME Init PROVE Inv
  OBVIOUS
<1>. USE DEF Init, StoreInit, ApprovalInit
<1>1. StoreTypeOK
  BY Entries DEF StoreTypeOK
<1>2. ApprovalTypeOK /\ CallTypeOK
  BY DEF ApprovalTypeOK, ApprovalState, ClockReading, CallTypeOK, Place
<1>3. TypeOK
  BY <1>1, <1>2 DEF TypeOK
<1>4. \A c \in Call : pc[c] = "idle" /\ ~ Holds(c)
  BY DEF Holds, Holding
<1>5. Called /\ EntriesWellFormed /\ MapSound
  BY DEF Called, EntriesWellFormed, MapSound
<1>6. HolderKnown /\ HolderAlone /\ SubmittedKeyClosed /\ UnstoredKeyClosed /\ PlanTruthful
  BY <1>4 DEF HolderKnown, HolderAlone, SubmittedKeyClosed, UnstoredKeyClosed, PlanTruthful
<1>15. AtMostOneSubmission
  BY DEF AtMostOneSubmission
<1>7. ApprovalHeld
  BY <1>4 DEF ApprovalHeld
<1>8. \A k \in Key : file[k].result = Null /\ file[k].pendingAudit = Null
  BY EntryFields DEF Free
<1>9. Null \notin Unsent /\ Null \notin Terminal /\ Null # "executed" /\ Null \notin Verdict
  BY Results, StoreAssumption, BrokerAssumption DEF Terminal
<1>10. RecordTruthful
  BY <1>8, <1>9 DEF RecordTruthful
<1>11. \A c \in Call : answer[c] \notin Verdict /\ promise[c] \notin Verdict
  BY <1>9, StoreAssumption
<1>12. AnswersRecorded
  BY <1>4, <1>11 DEF AnswersRecorded
<1>13. AuditOwed
  BY <1>4, <1>8, <1>9, <1>11, Results DEF AuditOwed
<1>14. OneEvent
  BY <1>4, <1>8, StoreAssumption DEF OneEvent, EventFor
<1>16. LastCheckHolds
  BY <1>4 DEF LastCheckHolds
<1>. QED BY <1>3, <1>5, <1>6, <1>7, <1>10, <1>12, <1>13, <1>14, <1>15, <1>16 DEF Inv

\* Every step keeps the invariant.
LEMMA NextInv == Inv /\ [Next]_vars => Inv'
<1>. SUFFICES ASSUME Inv, [Next]_vars PROVE Inv'
  OBVIOUS
<1>. QED BY TypeStep, CalledStep, EntriesStep, HolderKnownStep, HolderAloneStep, MapSoundStep,
            SubmittedStep, AtMostOneStep, UnstoredStep, PlanStep, RecordStep, AnswersStep,
            ApprovalHeldStep,
            AuditOwedStep, OneEventStep, LastCheckStep
         DEF Inv

\* However many processes, calls, intents and approvals there are, execute keeps
\* the invariant through crashes, failing writes and interleavings.
THEOREM Invariance == Spec => []Inv
<1>1. Inv /\ UNCHANGED vars => Inv'
  BY NextInv
<1>. QED BY InitInv, NextInv, PTL DEF Spec

\* execute and its store are type correct.
THEOREM TypeCorrect == Spec => []TypeOK
<1>1. Inv => TypeOK
  BY DEF Inv
<1>. QED BY <1>1, Invariance, PTL

\* At most one call of execute per scoped idempotency key submits its side
\* effect, with any number of broker processes sharing the file.
THEOREM AtMostOnce == Spec => []AtMostOneSubmission
<1>1. Inv => AtMostOneSubmission
  BY DEF Inv
<1>. QED BY <1>1, Invariance, PTL

\* A result that says nothing was sent, recorded or returned by execute, stays
\* true: no later call submits under that key.
THEOREM UnsentIsFinal == Spec => []UnsentStaysUnsent
<1>1. Inv => UnsentStaysUnsent
  <2>. SUFFICES ASSUME Inv, NEW c \in effects
                PROVE  /\ file[KeyOf(c)].result \notin Unsent
                       /\ \A d \in Call : answer[d] \in Unsent => KeyOf(d) # KeyOf(c)
    BY DEF UnsentStaysUnsent
  <2>1. c \in Call /\ pc[c] # "idle" /\ KeyOf(c) \in Key
    BY Arguments DEF Inv, TypeOK, SubmittedKeyClosed, Beyond
  <2>2. file[KeyOf(c)].result \notin Unsent
    BY <2>1 DEF Inv, RecordTruthful
  <2>3. ASSUME NEW d \in Call, answer[d] \in Unsent PROVE KeyOf(d) # KeyOf(c)
    BY <2>2, <2>3, Results DEF Inv, AnswersRecorded, RecordedFor
  <2>. QED BY <2>2, <2>3
<1>. QED BY <1>1, Invariance, PTL

\* execute records and returns "executed" only for an intent that was submitted.
THEOREM ExecutedIsTrue == Spec => []ExecutedWasSubmitted
<1>1. Inv => ExecutedWasSubmitted
  <2>. SUFFICES ASSUME Inv PROVE ExecutedWasSubmitted
    OBVIOUS
  <2>1. ASSUME NEW d \in Call, answer[d] = "executed"
        PROVE  \E c \in effects : IntentOf(c) = IntentOf(d)
    <3>1. "executed" \in Verdict /\ "executed" # Null
      BY Results, StoreAssumption DEF Terminal
    <3>2. pc[d] # "idle" /\ RecordedFor(d, "executed")
      BY <2>1, <3>1 DEF Inv, Called, AnswersRecorded
    <3>3. KeyOf(d) \in Key
      BY <3>2, Arguments DEF Inv
    <3>. QED BY <3>2, <3>3 DEF Inv, RecordTruthful, RecordedFor
  <2>. QED BY <2>1 DEF Inv, RecordTruthful, ExecutedWasSubmitted
<1>. QED BY <1>1, Invariance, PTL

\* The approval a submission carries was given for it, is consumed, and no other
\* submission carries it: consumeOneTime and the reservation work together.
THEOREM ApprovalIsSpentOnce == Spec => []ApprovalSpentOnce
<1>1. Inv => ApprovalSpentOnce
  <2>. SUFFICES ASSUME Inv, NEW c \in effects
                PROVE  LET a == decision[c].approvalId IN
                       /\ decision[c].outcome = "needs_human" => a # Null
                       /\ a # Null => /\ approvals[a] = "consumed"
                                      /\ ApprovalMatches(c)
                                      /\ \A d \in effects : decision[d].approvalId = a => d = c
    BY DEF ApprovalSpentOnce
  <2>1. c \in Call /\ effects \subseteq Call
    BY DEF Inv, TypeOK
  <2>2. ASSUME decision[c].approvalId # Null, NEW d \in effects,
               decision[d].approvalId = decision[c].approvalId
        PROVE  d = c
    <3>1. ApprovalMatches(c) /\ ApprovalMatches(d)
      BY <2>1, <2>2 DEF Inv, ApprovalHeld
    <3>2. KeyOf(c) = KeyOf(d)
      BY <2>2, <3>1 DEF ApprovalMatches, KeyOf
    <3>. QED BY <3>2 DEF Inv, AtMostOneSubmission
  <2>. QED BY <2>1, <2>2 DEF Inv, ApprovalHeld
<1>. QED BY <1>1, Invariance, PTL

\* finishExecutionWithAudit and flushPendingTerminalAudit put the terminal event
\* in the log before a caller is told, and the entry owes it until then.
THEOREM AuditComesFirst == Spec => []TerminalIsAudited
<1>1. Inv => TerminalIsAudited
  BY DEF Inv, AuditOwed, TerminalIsAudited
<1>. QED BY <1>1, Invariance, PTL

\* Retries that flush the audit debt of an earlier call do not give a key a
\* second, different terminal event.
THEOREM AuditedOnce == Spec => []OneTerminalEvent
<1>1. Inv => OneTerminalEvent
  <2>. SUFFICES ASSUME Inv, NEW e1 \in trail, NEW e2 \in trail,
                       ScopedKey[e1.intent] = ScopedKey[e2.intent]
                PROVE  e1 = e2
    BY DEF OneTerminalEvent
  <2>1. e1 \in Event /\ e2 \in Event
    BY DEF Inv, TypeOK
  <2>2. ScopedKey[e1.intent] \in Key
    BY <2>1, BrokerAssumption, StoreAssumption DEF TerminalEvent
  <2>3. EventFor(ScopedKey[e1.intent], e1) /\ EventFor(ScopedKey[e1.intent], e2)
    BY DEF EventFor
  <2>. QED BY <2>1, <2>2, <2>3 DEF Inv, OneEvent
<1>. QED BY <1>1, Invariance, PTL

\* Calls of execute with the same scoped key are never told different results.
THEOREM AnswersNeverDiffer == Spec => []AnswersAgree
<1>1. Inv => AnswersAgree
  BY DEF Inv, AnswersRecorded, RecordedFor, AnswersAgree
<1>. QED BY <1>1, Invariance, PTL

\* Once the kill switch of a process is set, or does not answer, execute sends
\* nothing from it but what the switch lets pass, a read, or the order of a
\* futures account that had passed its last check.
THEOREM StopHolds == Spec => HeldByStop
<1>1. ASSUME Inv, [Next]_vars, NEW c \in effects' \ effects, ~Clear(proc[c], IntentOf(c))
      PROVE  IntentOf(c) \in Reading \cup Deferred
  <2>1. c \in Call /\ Submit(c)
    BY <1>1, EffectsStep DEF Inv
  <2>2. pc[c] = "sending"
    BY <2>1 DEF Submit, Running, Resuming
  <2>. QED BY <1>1, <2>1, <2>2 DEF Inv, LastCheckHolds
<1>2. Inv /\ [Next]_vars =>
        [\A c \in effects' \ effects :
           ~Clear(proc[c], IntentOf(c)) => IntentOf(c) \in Reading \cup Deferred]_vars
  BY <1>1
<1>. QED BY <1>2, Invariance, PTL DEF Spec, HeldByStop

\* A recorded result is never replaced or forgotten by the store.
THEOREM VerdictNeverChanges == Spec => VerdictStable
<1>1. Inv /\ [Next]_vars =>
        \A k \in Key : file[k].status = "cached" =>
          /\ file'[k].status = "cached"
          /\ file'[k].payload = file[k].payload
          /\ file'[k].result = file[k].result
  BY RecordKept DEF Inv
<1>2. Inv /\ [Next]_vars =>
        [\A k \in Key : file[k].status = "cached" =>
          /\ file'[k].status = "cached"
          /\ file'[k].payload = file[k].payload
          /\ file'[k].result = file[k].result]_vars
  BY <1>1
<1>. QED BY <1>2, Invariance, PTL DEF Spec, VerdictStable

-----------------------------------------------------------------------------
(***************************************************************************)
(* The broker implements its promise.                                      *)
(***************************************************************************)

\* The initial state is an initial state of OnceOnly.
LEMMA OnceInit ==
  ASSUME Init
  PROVE  Once!Init
<1>1. \A k \in Key : file[k].result = Null
  BY EntryFields DEF Init, StoreInit
<1>2. Null \notin Verdict
  BY StoreAssumption
<1>. QED BY <1>1, <1>2 DEF Init, Once!Init, Performed, Recorded, Told

\* The side effects of a key: a submission is the first of its key, and comes
\* before any record.
LEMMA PerformedStep ==
  ASSUME Inv, [Next]_vars
  PROVE  \/ Performed' = Performed
         \/ \E c \in Call : /\ Submit(c) /\ Holds(c) /\ KeyOf(c) \in Key
                            /\ Performed[KeyOf(c)] = {} /\ Recorded[KeyOf(c)] = Null
                            /\ Performed' = [Performed EXCEPT ![KeyOf(c)] = {c}]
<1>. USE DEF Inv, TypeOK
<1>1. \A c \in effects : c \in Call /\ pc[c] # "idle" /\ KeyOf(c)' = KeyOf(c)
  BY ArgumentsKept DEF SubmittedKeyClosed, Beyond
<1>2. CASE UNCHANGED effects
  <2>1. \A k \in Key : {c \in effects' : KeyOf(c)' = k} = {c \in effects : KeyOf(c) = k}
    BY <1>1, <1>2
  <2>. QED BY <2>1 DEF Performed
<1>3. ASSUME NEW c \in Call, Submit(c), effects' = effects \cup {c}
      PROVE  /\ Holds(c) /\ KeyOf(c) \in Key
             /\ Performed[KeyOf(c)] = {} /\ Recorded[KeyOf(c)] = Null
             /\ Performed' = [Performed EXCEPT ![KeyOf(c)] = {c}]
  <2>1. Holds(c) /\ c \notin effects
    BY <1>3 DEF Submit, Running, Resuming, Holds, Holding, SubmittedKeyClosed, Beyond
  <2>2. pc[c] # "idle" /\ KeyOf(c) \in Key /\ file[KeyOf(c)].result = Null /\ KeyOf(c)' = KeyOf(c)
    BY <2>1, HolderEntry, Arguments, ArgumentsKept
  <2>3. \A d \in effects : KeyOf(d) # KeyOf(c)
    BY <2>1 DEF SubmittedKeyClosed
  <2>4. \A k \in Key : {d \in effects' : KeyOf(d)' = k}
                         = IF k = KeyOf(c) THEN {c} ELSE {d \in effects : KeyOf(d) = k}
    BY <1>1, <1>3, <2>2, <2>3
  <2>5. Performed[KeyOf(c)] = {} /\ Recorded[KeyOf(c)] = Null
    BY <2>2, <2>3 DEF Performed, Recorded
  <2>6. Performed' = [Performed EXCEPT ![KeyOf(c)] = {c}]
    BY <2>2, <2>4 DEF Performed
  <2>. QED BY <2>1, <2>2, <2>5, <2>6
<1>. QED BY <1>2, <1>3, EffectsStep

\* A result is recorded once, by a holder, and truly.
LEMMA RecordedStep ==
  ASSUME Inv, [Next]_vars
  PROVE  \/ Recorded' = Recorded
         \/ \E c \in Call :
              /\ CompleteResult(c) \/ Finish(c)
              /\ KeyOf(c) \in Key /\ Recorded[KeyOf(c)] = Null /\ verdict[c] \in Verdict
              /\ verdict[c] \in Unsent => Performed[KeyOf(c)] = {}
              /\ verdict[c] = "executed" => Performed[KeyOf(c)] # {}
              /\ Recorded' = [Recorded EXCEPT ![KeyOf(c)] = verdict[c]]
<1>. USE DEF Inv, TypeOK
<1>1. SUFFICES ASSUME NEW k \in Key, file'[k].result # file[k].result
               PROVE  \E c \in Call :
                        /\ CompleteResult(c) \/ Finish(c)
                        /\ KeyOf(c) \in Key /\ Recorded[KeyOf(c)] = Null /\ verdict[c] \in Verdict
                        /\ verdict[c] \in Unsent => Performed[KeyOf(c)] = {}
                        /\ verdict[c] = "executed" => Performed[KeyOf(c)] # {}
                        /\ Recorded' = [Recorded EXCEPT ![KeyOf(c)] = verdict[c]]
  BY DEF Recorded
<1>2. file[k].status # "cached" /\ file[k].result = Null
  BY <1>1, RecordKept, EntryShapes
<1>3. PICK c \in Call : /\ pc[c] # "idle" /\ KeyOf(c) = k /\ Holds(c)
                        /\ CompleteResult(c) \/ Finish(c)
                        /\ file'[k].result = verdict[c]
  <2>1. file'[k] # Free /\ \A i : file'[k] # InProgress(i)
    BY <1>1, <1>2, EntryFields
  <2>2. PICK c \in Call : /\ pc[c] # "idle" /\ KeyOf(c) = k /\ Holds(c)
                          /\ CompleteResult(c) \/ Finish(c)
                          /\ \E e : file'[k] = Cached(IntentOf(c), verdict[c], e)
    <3>1. file'[k] # file[k]
      BY <1>1
    <3>2. PICK c \in Call :
            /\ pc[c] # "idle" /\ KeyOf(c) = k
            /\ \/ file'[k] = InProgress(IntentOf(c))
               \/ /\ CompleteResult(c) /\ Holds(c)
                  /\ file'[k] = Cached(IntentOf(c), verdict[c], EventOf(c, verdict[c]))
               \/ /\ Finish(c) /\ Holds(c)
                  /\ file'[k] = Cached(IntentOf(c), verdict[c], Null)
               \/ file'[k] = Free
               \/ file[k].status = "cached"
      BY <3>1, FileStep
    <3>. QED BY <1>2, <2>1, <3>2
  <2>. QED BY <2>2, EntryFields
<1>4. ASSUME NEW j \in Key, j # k PROVE file'[j].result = file[j].result
  <2>1. ASSUME NEW d \in Call, BeginReserves(d) \/ CompleteResult(d) \/ Finish(d)
                               \/ AbortReservation(d) \/ CloseFlush(d) \/ CloseAudit(d)
        PROVE  d = c
    <3>1. pc'[c] # pc[c]
      BY <1>3 DEF CompleteResult, Finish, Running, Proceeds, Returns, CallTypeOK
    <3>. QED BY <2>1, <3>1, CallFrame DEF Step
  <2>. QED BY <1>3, <1>4, <2>1, FileStep
<1>5. /\ verdict[c] \in Verdict
      /\ verdict[c] \in Unsent => c \notin effects
      /\ verdict[c] = "executed" => c \in effects
  <2>1. CASE CompleteResult(c)
    <3>1. verdict[c] \in Terminal /\ (verdict[c] = "executed" => c \in effects)
          /\ (verdict[c] = "not_submitted" => c \notin effects)
      BY <2>1 DEF CompleteResult, Running, PlanTruthful
    <3>. QED BY <3>1, Results DEF Terminal, Unsent, Rejection
  <2>2. CASE Finish(c)
    <3>1. verdict[c] \in Rejection /\ c \notin effects
      BY <2>2 DEF Finish, Running, PlanTruthful, SubmittedKeyClosed, Beyond
    <3>. QED BY <3>1, Results DEF Rejection
  <2>. QED BY <1>3, <2>1, <2>2
<1>6. c \notin effects => \A d \in effects : KeyOf(d) # k
  BY <1>3 DEF SubmittedKeyClosed
<1>7. Recorded[k] = Null /\ Recorded' = [Recorded EXCEPT ![k] = verdict[c]]
  BY <1>2, <1>3, <1>4 DEF Recorded
<1>8. /\ verdict[c] \in Unsent => Performed[k] = {}
      /\ verdict[c] = "executed" => Performed[k] # {}
  BY <1>3, <1>5, <1>6 DEF Performed
<1>. QED BY <1>3, <1>5, <1>7, <1>8

\* A call is told the record of its key, once.
LEMMA ToldStep ==
  ASSUME Inv, [Next]_vars
  PROVE  \/ Told' = Told
         \/ \E c \in Call :
              /\ Step(c) /\ KeyOf(c) \in Key /\ Told[c] = Null
              /\ Recorded'[KeyOf(c)] \in Verdict
              /\ Told' = [Told EXCEPT ![c] = Recorded'[KeyOf(c)]]
<1>. USE DEF Inv, TypeOK
<1>1. SUFFICES ASSUME NEW c \in Call, Told'[c] # Told[c]
               PROVE  /\ Step(c) /\ KeyOf(c) \in Key /\ Told[c] = Null
                      /\ Recorded'[KeyOf(c)] \in Verdict
                      /\ Told' = [Told EXCEPT ![c] = Recorded'[KeyOf(c)]]
  BY DEF Told
<1>2. answer'[c] # answer[c] /\ answer[c] = Null
  BY <1>1, AnswersWhenDone DEF Told
<1>3. answer'[c] \in Verdict
  BY <1>1, <1>2, StoreAssumption DEF Told
<1>4. /\ pc[c] # "idle" /\ file'[KeyOf(c)].result = answer'[c]
      /\ Step(c)
  BY <1>2, <1>3, NewAnswer DEF Step
<1>5. KeyOf(c) \in Key
  BY <1>4, Arguments
<1>6. \A d \in Call \ {c} : answer'[d] = answer[d]
  BY <1>4, CallFrame
<1>7. Told' = [Told EXCEPT ![c] = answer'[c]] /\ Told[c] = Null
  <2>1. Null \notin Verdict
    BY StoreAssumption
  <2>2. \A d \in Call : Told'[d] = IF d = c THEN answer'[c] ELSE Told[d]
    BY <1>3, <1>6 DEF Told
  <2>3. Told' \in [Call -> Verdict \cup {Null}] /\ Told \in [Call -> Verdict \cup {Null}]
    BY DEF Told
  <2>4. Told[c] = Null
    BY <1>2, <2>1 DEF Told
  <2>. HIDE DEF Told
  <2>. QED BY <2>2, <2>3, <2>4
<1>. QED BY <1>3, <1>4, <1>5, <1>7 DEF Recorded

\* Every step is a step of OnceOnly or changes nothing there.
LEMMA OnceStep ==
  ASSUME Inv, [Next]_vars
  PROVE  [Once!Next]_(Once!vars)
<1>. USE DEF Inv, TypeOK
<1>. HIDE DEF Inv
<1>1. ASSUME NEW c \in Call, Submit(c)
      PROVE  Recorded' = Recorded /\ Told' = Told
  <2>1. file' = file /\ answer' = answer
    BY <1>1 DEF Submit, Awaits
  <2>. QED BY <2>1 DEF Recorded, Told
<1>2. ASSUME NEW c \in Call, KeyOf(c) \in Key,
             Performed[KeyOf(c)] = {}, Recorded[KeyOf(c)] = Null,
             Performed' = [Performed EXCEPT ![KeyOf(c)] = {c}], Recorded' = Recorded, Told' = Told
      PROVE  Once!Next
  BY <1>2 DEF Once!Next, Once!Perform, Performed, Recorded, Told
<1>3. ASSUME NEW c \in Call, KeyOf(c) \in Key, verdict[c] \in Verdict, Recorded[KeyOf(c)] = Null,
             verdict[c] \in Unsent => Performed[KeyOf(c)] = {},
             verdict[c] = "executed" => Performed[KeyOf(c)] # {},
             Recorded' = [Recorded EXCEPT ![KeyOf(c)] = verdict[c]],
             Performed' = Performed,
             Told' = Told \/ (Told[c] = Null /\ Told' = [Told EXCEPT ![c] = verdict[c]])
      PROVE  Once!Next
  <2>1. PICK k \in Key, v \in Verdict : k = KeyOf(c) /\ v = verdict[c]
    BY <1>3
  <2>2. Told' \in {Told} \cup {[Told EXCEPT ![d] = v] : d \in {e \in Call : Told[e] = Null}}
    BY <1>3, <2>1
  <2>3. Once!Record(k, v)
    BY <1>3, <2>1, <2>2 DEF Once!Record, Performed, Recorded, Told
  <2>. QED BY <2>3 DEF Once!Next
<1>4. ASSUME NEW c \in Call, KeyOf(c) \in Key, Told[c] = Null, Recorded[KeyOf(c)] # Null,
             Told' = [Told EXCEPT ![c] = Recorded[KeyOf(c)]],
             Recorded' = Recorded, Performed' = Performed
      PROVE  Once!Next
  <2>1. Once!Tell(KeyOf(c), c)
    BY <1>4 DEF Once!Tell, Performed, Recorded, Told
  <2>. QED BY <1>4, <2>1 DEF Once!Next
<1>5. CASE Performed' # Performed
  BY <1>1, <1>2, <1>5, PerformedStep
<1>6. CASE Performed' = Performed /\ Recorded' # Recorded
  <2>1. PICK c \in Call :
          /\ CompleteResult(c) \/ Finish(c)
          /\ KeyOf(c) \in Key /\ Recorded[KeyOf(c)] = Null /\ verdict[c] \in Verdict
          /\ verdict[c] \in Unsent => Performed[KeyOf(c)] = {}
          /\ verdict[c] = "executed" => Performed[KeyOf(c)] # {}
          /\ Recorded' = [Recorded EXCEPT ![KeyOf(c)] = verdict[c]]
    BY <1>6, RecordedStep
  <2>2. ASSUME NEW d \in Call, Step(d) PROVE d = c
    <3>1. pc'[c] # pc[c]
      BY <2>1 DEF CompleteResult, Finish, Running, Proceeds, Returns, CallTypeOK, Inv
    <3>. QED BY <2>2, <3>1, CallFrame DEF Inv
  <2>3. Recorded'[KeyOf(c)] = verdict[c]
    BY <2>1 DEF Recorded
  <2>4. Told' = Told \/ (Told[c] = Null /\ Told' = [Told EXCEPT ![c] = verdict[c]])
    BY <2>2, <2>3, ToldStep
  <2>. QED BY <1>3, <1>6, <2>1, <2>4
<1>7. CASE Performed' = Performed /\ Recorded' = Recorded /\ Told' # Told
  <2>1. PICK c \in Call :
              /\ KeyOf(c) \in Key /\ Told[c] = Null
              /\ Recorded'[KeyOf(c)] \in Verdict
              /\ Told' = [Told EXCEPT ![c] = Recorded'[KeyOf(c)]]
    BY <1>7, ToldStep
  <2>. QED BY <1>4, <1>7, <2>1, StoreAssumption
<1>8. CASE Performed' = Performed /\ Recorded' = Recorded /\ Told' = Told
  BY <1>8 DEF Once!vars, Performed, Recorded, Told
<1>. QED BY <1>5, <1>6, <1>7, <1>8

\* execute with its store implements OnceOnly: the side effect happens at most
\* once, one true result is recorded, and everyone who is told is told that one.
THEOREM ImplementsPromise == Spec => ImplementsOnceOnly
<1>1. Init => Once!Init
  BY OnceInit
<1>2. Inv /\ [Next]_vars => [Once!Next]_(Once!vars)
  BY OnceStep
<1>. QED BY <1>1, <1>2, Invariance, PTL DEF Spec, ImplementsOnceOnly, Once!Spec
=================================================================================
