------------------------------- MODULE Broker -------------------------------
(***************************************************************************)
(* ExecutionBroker.execute (packages/broker/src/broker.ts): the only       *)
(* component that causes side effects on an exchange or a chain.           *)
(*                                                                         *)
(* Calls run in broker processes that share the idempotency file, the      *)
(* approval database and the audit log.  A process is one JavaScript       *)
(* event loop: between two awaits a call runs without another call of its  *)
(* process (loop), but other processes and the approval service interleave *)
(* at every access to shared state, and the process may crash there.       *)
(***************************************************************************)
EXTENDS IdempotencyStore, ApprovalLifecycle

CONSTANTS
  Decision,     \* what a caller presents to execute
  Correlation,  \* correlation ids
  ApprovalIntent,      \* the intent each approval request was created for
  ApprovalCorrelation, \* and its correlation id
  Cancel,       \* intents with action cex.cancel_order
  StatusQuery,  \* intents with action cex.get_order_status
  Reading,      \* those and onchain.simulate_transaction: their request only reads
  Deferred,     \* orders on a live futures account
  CanaryOrder,  \* cex.place_order intents, when the environment is canary_live
  CanaryLive,   \* the environment is canary_live
  Scope,        \* kill switch scopes
  ScopesOf      \* getKillSwitchScopes: the scopes each intent falls under

VARIABLES
  silent,       \* per process, the scopes for which the kill switch does not answer
  stopped,      \* per process, the scopes for which it is active
  trail,        \* terminal events in the audit logs; a log drops duplicates by id
  effects,      \* calls whose side effect was submitted (history)
  loop,         \* the call that runs in each process, if any
  pc,           \* where each call is in execute
  decision,     \* the argument of each call
  proc,         \* the process of each call
  verdict,      \* the result a call is about to record or to return
  event,        \* the terminal audit event a call is about to write
  owner,        \* the call whose promise a waiting call awaits
  answer        \* what execute returned

callVars == <<loop, pc, decision, proc, verdict, event, owner, answer>>
switchVars == <<silent, stopped>>
vars == <<file, pending, promise, approvals, clock, silent, stopped, trail, effects,
          loop, pc, decision, proc, verdict, event, owner, answer>>

-----------------------------------------------------------------------------
(***************************************************************************)
(* Results.  Every rejection is status "rejected"; the rules are told      *)
(* apart.  "refused" is a rejection that is returned and not recorded,     *)
(* "threw" is a rejected promise of execute: neither is ever an entry of   *)
(* the file.                                                               *)
(***************************************************************************)
Rejection == {"approval_consumed", "approval_expired", "approval_mismatch",
              "killswitch_active", "revalidation_failed"}

\* "not_submitted" is the failed result of a ConnectorRevalidationError.
Unsent == Rejection \cup {"not_submitted"}

Terminal == {"executed", "failed", "not_submitted"}

Verdicts == Rejection \cup Terminal

Transient == {"refused", "threw"}

TerminalEvent == [intent : Intent, correlation : Correlation,
                  type : {"broker.executed", "broker.failed"}]

DecisionRecord ==
  [intent : Intent, outcome : {"allow", "needs_human", "deny"}, correlation : Correlation,
   approvalId : Approval \cup {Null}, wellFormed : BOOLEAN, dryRun : BOOLEAN,
   tokenMatches : BOOLEAN, environmentMatches : BOOLEAN, intentIdMatches : BOOLEAN]

ASSUME BrokerAssumption ==
  /\ Verdict = Verdicts
  /\ Event = TerminalEvent
  /\ Decision \subseteq DecisionRecord
  /\ ApprovalIntent \in [Approval -> Intent]
  /\ ApprovalCorrelation \in [Approval -> Correlation]
  /\ Cancel \subseteq Intent
  /\ StatusQuery \subseteq Reading
  /\ Reading \subseteq Intent
  /\ Deferred \subseteq Intent \ Reading
  /\ CanaryOrder \subseteq Intent
  /\ CanaryLive \in BOOLEAN
  /\ ScopesOf \in [Intent -> SUBSET Scope]
  /\ Null \notin Decision /\ Null \notin Proc /\ Null \notin Approval

IntentOf(c) == decision[c].intent
KeyOf(c) == ScopedKey[IntentOf(c)]

\* The audit event of a terminal result; the id binds intent and correlation.
EventOf(c, v) ==
  [intent |-> IntentOf(c), correlation |-> decision[c].correlation,
   type |-> IF v = "executed" THEN "broker.executed" ELSE "broker.failed"]

\* The terminal event of this payload and result is in the audit log.
Audited(i, v) ==
  \E e \in trail : e.intent = i /\ (e.type = "broker.executed" <=> v = "executed")

Place == {"idle", "lookup", "begin", "precheck", "revalidating", "consume", "executing",
          "sending", "submitted", "complete", "audit", "auditUnstored", "closeAudit", "finish",
          "abort", "flush", "closeFlush", "waiting", "done", "crashed"}

CallTypeOK ==
  /\ loop \in [Proc -> Call \cup {Null}]
  /\ pc \in [Call -> Place]
  /\ decision \in [Call -> Decision \cup {Null}]
  /\ proc \in [Call -> Proc \cup {Null}]
  /\ verdict \in [Call -> Verdict \cup Transient \cup {Null}]
  /\ event \in [Call -> Event \cup {Null}]
  /\ owner \in [Call -> Call \cup {Null}]
  /\ answer \in [Call -> Verdict \cup Transient \cup {Null}]

TypeOK ==
  /\ StoreTypeOK
  /\ ApprovalTypeOK
  /\ CallTypeOK
  /\ silent \in [Proc -> SUBSET Scope]
  /\ stopped \in [Proc -> SUBSET Scope]
  /\ trail \subseteq Event
  /\ effects \subseteq Call

Init ==
  /\ StoreInit
  /\ ApprovalInit
  /\ silent = [p \in Proc |-> {}]
  /\ stopped = [p \in Proc |-> {}]
  /\ trail = {}
  /\ effects = {}
  /\ loop = [p \in Proc |-> Null]
  /\ pc = [c \in Call |-> "idle"]
  /\ decision = [c \in Call |-> Null]
  /\ proc = [c \in Call |-> Null]
  /\ verdict = [c \in Call |-> Null]
  /\ event = [c \in Call |-> Null]
  /\ owner = [c \in Call |-> Null]
  /\ answer = [c \in Call |-> Null]

-----------------------------------------------------------------------------
(***************************************************************************)
(* The event loop.  A call runs to its next await, then yields the loop;   *)
(* when what it awaited has settled it resumes once the loop is idle.      *)
(***************************************************************************)
Running(c, place) == pc[c] = place /\ loop[proc[c]] = c

Resuming(c, place) == pc[c] = place /\ loop[proc[c]] = Null

Proceeds(c, place) ==
  /\ pc' = [pc EXCEPT ![c] = place]
  /\ loop' = [loop EXCEPT ![proc[c]] = c]
  /\ UNCHANGED answer

Awaits(c, place) ==
  /\ pc' = [pc EXCEPT ![c] = place]
  /\ loop' = [loop EXCEPT ![proc[c]] = Null]
  /\ UNCHANGED answer

Returns(c, a) ==
  /\ pc' = [pc EXCEPT ![c] = "done"]
  /\ loop' = [loop EXCEPT ![proc[c]] = Null]
  /\ answer' = [answer EXCEPT ![c] = a]

\* reject outside a reservation: the result, unless its audit event fails.
Rejects(c) == \E a \in Transient : Returns(c, a)

Plans(c, place, v) == Proceeds(c, place) /\ verdict' = [verdict EXCEPT ![c] = v]

\* Leaving a reservation without a record: reservation.abort, then a.
PlansAbort(c, a) == Plans(c, "abort", a)

\* reject inside a reservation, then finish; a failing audit write aborts instead.
PlansFinish(c, v) == Plans(c, "finish", v) \/ PlansAbort(c, "threw")

KeepShared == UNCHANGED <<file, pending, promise, approvals, clock, trail, effects>>
KeepCall == UNCHANGED <<decision, proc, event, owner>>

-----------------------------------------------------------------------------
(***************************************************************************)
(* The kill switch, as one broker process sees it.                         *)
(***************************************************************************)
Silent(p, i) == silent[p] \cap ScopesOf[i]

\* A cancellation passes a known stop, never an unknown one.
Blocking(p, i) == stopped[p] \cap ScopesOf[i] # {} /\ i \notin Cancel

Clear(p, i) == Silent(p, i) = {} /\ ~Blocking(p, i)

-----------------------------------------------------------------------------
(***************************************************************************)
(* Up to the reservation.                                                  *)
(***************************************************************************)
\* LiveModePreflightCheck.run; the audit writer and the approval store may be
\* unwell at any time, so a check that passes may still be refused.
PreflightPasses(p, i) == CanaryLive => Clear(p, i)

\* The checks of the decision itself; its freshness may run out at any time.
Admissible(p, d) ==
  /\ d.wellFormed /\ ~d.dryRun /\ d.outcome \in {"allow", "needs_human"}
  /\ d.tokenMatches /\ d.environmentMatches /\ d.intentIdMatches
  /\ PreflightPasses(p, d.intent)

Receive(c, p, d) ==
  /\ pc[c] = "idle" /\ loop[p] = Null
  /\ decision' = [decision EXCEPT ![c] = d]
  /\ proc' = [proc EXCEPT ![c] = p]
  /\ \/ /\ Admissible(p, d)
        /\ pc' = [pc EXCEPT ![c] = "lookup"]
        /\ loop' = [loop EXCEPT ![p] = c]
        /\ UNCHANGED answer
     \/ /\ pc' = [pc EXCEPT ![c] = "done"]
        /\ \E a \in Transient : answer' = [answer EXCEPT ![c] = a]
        /\ UNCHANGED loop
  /\ KeepShared /\ UNCHANGED <<silent, stopped, verdict, event, owner>>

\* findApprovalForIntent: an approval request of any state for this intent.
HasMatchingApproval(i) ==
  \E a \in Approval : ApprovalIntent[a] = i /\ Stored(a)

LookUpApproval(c) ==
  /\ Running(c, "lookup")
  /\ IF /\ decision[c].outcome = "needs_human" \/ HasMatchingApproval(IntentOf(c))
        /\ decision[c].approvalId = Null
     THEN Rejects(c)
     ELSE Proceeds(c, "begin") \/ Returns(c, "threw")
  /\ KeepShared /\ KeepCall /\ UNCHANGED <<silent, stopped, verdict>>

BeginReserves(c) ==
  /\ Running(c, "begin")
  /\ \E o \in Outcome :
       /\ Reserve(proc[c], c, IntentOf(c), o)
       /\ IF o = "ok" THEN Proceeds(c, "precheck") ELSE Returns(c, "threw")
  /\ KeepCall /\ UNCHANGED <<approvals, clock, silent, stopped, trail, effects, verdict>>

\* A call that finds its intent served by its own process awaits that call.
BeginJoins(c) ==
  /\ Running(c, "begin")
  /\ JoinsPending(proc[c], IntentOf(c))
  /\ owner' = [owner EXCEPT ![c] = Serving(proc[c], IntentOf(c)).owner]
  /\ Awaits(c, "waiting")
  /\ KeepShared /\ UNCHANGED <<decision, proc, event, silent, stopped, verdict>>

BeginConflicts(c) ==
  /\ Running(c, "begin")
  /\ Conflicts(proc[c], IntentOf(c))
  /\ Rejects(c)
  /\ KeepShared /\ KeepCall /\ UNCHANGED <<silent, stopped, verdict>>

\* An entry held elsewhere, or one the store cannot read, rejects the promise.
BeginFails(c) ==
  /\ Running(c, "begin")
  /\ Serving(proc[c], IntentOf(c)) = Null
  /\ file[KeyOf(c)] # Free
  /\ HeldElsewhere(proc[c], IntentOf(c)) \/ FindsCached(proc[c], IntentOf(c))
  /\ Returns(c, "threw")
  /\ KeepShared /\ KeepCall /\ UNCHANGED <<silent, stopped, verdict>>

\* validateCachedResultEvidenceForIntent accepts no status query without a status.
Replayable(i, v) == i \in StatusQuery => v = "executed"

BeginFindsCached(c) ==
  LET entry == file[KeyOf(c)] IN
  /\ Running(c, "begin")
  /\ FindsCached(proc[c], IntentOf(c))
  /\ Replayable(IntentOf(c), entry.result)
  /\ verdict' = [verdict EXCEPT ![c] = entry.result]
  /\ event' = [event EXCEPT ![c] = entry.pendingAudit]
  /\ IF entry.pendingAudit = Null THEN Returns(c, entry.result) ELSE Proceeds(c, "flush")
  /\ KeepShared /\ UNCHANGED <<decision, proc, owner, silent, stopped>>

\* Mutants: a rejected promise is returned as a value, or as a failed result.
WakesUnchecked(c) ==
  /\ Resuming(c, "waiting")
  /\ promise[owner[c]] # "open"
  /\ Returns(c, promise[owner[c]])
  /\ KeepShared /\ KeepCall /\ UNCHANGED <<silent, stopped, verdict>>

WakesFailed(c) ==
  /\ Resuming(c, "waiting")
  /\ promise[owner[c]] # "open"
  /\ Returns(c, IF promise[owner[c]] = "broken" THEN "failed" ELSE promise[owner[c]])
  /\ KeepShared /\ KeepCall /\ UNCHANGED <<silent, stopped, verdict>>

\* The awaited promise has settled.
Wakes(c) ==
  /\ Resuming(c, "waiting")
  /\ promise[owner[c]] # "open"
  /\ Returns(c, IF promise[owner[c]] = "broken" THEN "threw" ELSE promise[owner[c]])
  /\ KeepShared /\ KeepCall /\ UNCHANGED <<silent, stopped, verdict>>

-----------------------------------------------------------------------------
(***************************************************************************)
(* flushPendingTerminalAudit: a retry completes the audit of an earlier    *)
(* call.  A write that throws may have recorded its event: the row is      *)
(* committed before the anchor of the hash chain is.                       *)
(***************************************************************************)
FlushAudit(c) ==
  /\ Running(c, "flush")
  /\ \/ trail' = trail \cup {event[c]} /\ Proceeds(c, "closeFlush")
     \/ trail' \in {trail, trail \cup {event[c]}} /\ Returns(c, "threw")
  /\ KeepCall
  /\ UNCHANGED <<file, pending, promise, approvals, clock, silent, stopped, effects, verdict>>

CloseFlush(c) ==
  /\ Running(c, "closeFlush")
  /\ \E o \in Outcome :
       /\ FlushedAudit(IntentOf(c), o)
       /\ Returns(c, IF o = "ok" THEN verdict[c] ELSE "threw")
  /\ KeepCall /\ UNCHANGED <<approvals, clock, silent, stopped, trail, effects, verdict>>

-----------------------------------------------------------------------------
(***************************************************************************)
(* The reserved call: approval and kill switch, then revalidation.         *)
(***************************************************************************)
ApprovalMatches(c) ==
  LET a == decision[c].approvalId IN
  /\ a \in OneTime
  /\ ApprovalIntent[a] = IntentOf(c)
  /\ ApprovalCorrelation[a] = decision[c].correlation

\* The approval permits the call for now: it is looked at again when consumed.
ApprovalStands(c) ==
  LET a == decision[c].approvalId IN
  a # Null => approvals[a] = "approved" /\ clock[a] # "after" /\ ApprovalMatches(c)

ApprovalFault(c) ==
  LET a == decision[c].approvalId IN
  \/ approvals[a] = "consumed" /\ PlansFinish(c, "approval_consumed")
  \/ /\ approvals[a] \notin {"consumed", "approved"}
     /\ \E x \in Transient : PlansAbort(c, x)
  \/ /\ approvals[a] = "approved"
     /\ PlansFinish(c, IF clock[a] = "after" THEN "approval_expired" ELSE "approval_mismatch")

\* The scopes are read in order: the first that is silent or blocking decides.
Guarded(c, passes) ==
  \/ Silent(proc[c], IntentOf(c)) # {} /\ PlansAbort(c, "threw")
  \/ Blocking(proc[c], IntentOf(c)) /\ PlansFinish(c, "killswitch_active")
  \/ Clear(proc[c], IntentOf(c)) /\ passes

Precheck(c) ==
  /\ Running(c, "precheck")
  /\ \/ IntentOf(c) \in CanaryOrder /\ \E x \in Transient : PlansAbort(c, x)
     \/ PlansAbort(c, "threw")
     \/ ~ApprovalStands(c) /\ ApprovalFault(c)
     \/ ApprovalStands(c) /\ Guarded(c, Awaits(c, "revalidating") /\ UNCHANGED verdict)
  /\ KeepShared /\ KeepCall /\ UNCHANGED <<silent, stopped>>

\* connector.revalidate has settled; the kill switch is read once more.
Revalidated(c) ==
  /\ Resuming(c, "revalidating")
  /\ \/ PlansAbort(c, "threw")
     \/ PlansFinish(c, "revalidation_failed")
     \/ Guarded(c, \/ /\ decision[c].approvalId # Null
                      /\ Proceeds(c, "consume") /\ UNCHANGED verdict
                   \/ /\ decision[c].approvalId = Null
                      /\ Awaits(c, "executing") /\ UNCHANGED verdict
                   \/ IntentOf(c) \in CanaryOrder /\ PlansAbort(c, "refused"))
  /\ KeepShared /\ KeepCall /\ UNCHANGED <<silent, stopped>>

\* Mutant: the answer of consumeOneTime is ignored.
ConsumeUnchecked(c) ==
  /\ Running(c, "consume")
  /\ \/ ConsumeOneTime(decision[c].approvalId)
     \/ ~Consumable(decision[c].approvalId) /\ UNCHANGED approvalVars
  /\ Awaits(c, "executing")
  /\ KeepCall
  /\ UNCHANGED <<file, pending, promise, silent, stopped, trail, effects, verdict>>

Consume(c) ==
  /\ Running(c, "consume")
  /\ \/ ConsumeOneTime(decision[c].approvalId) /\ Awaits(c, "executing") /\ UNCHANGED verdict
     \/ ~Consumable(decision[c].approvalId) /\ PlansFinish(c, "approval_consumed")
        /\ UNCHANGED approvalVars
     \/ PlansAbort(c, "threw") /\ UNCHANGED approvalVars
  /\ KeepCall /\ UNCHANGED <<file, pending, promise, silent, stopped, trail, effects>>

-----------------------------------------------------------------------------
(***************************************************************************)
(* connector.execute.                                                      *)
(***************************************************************************)
\* Mutant: every connector awaits another answer between its check and its request.
AlwaysAwaits(c) == Awaits(c, "sending")

\* A futures connector asks for the margin type and sets the leverage before it
\* sends the order; every other request leaves in the turn of the loop that
\* checked the kill switch.
Prepares(c) ==
  IF IntentOf(c) \in Deferred THEN Awaits(c, "sending") ELSE Proceeds(c, "sending")

\* beforeSideEffect passes; a connector that only reads does not call it.
LastCheck(c) ==
  /\ Resuming(c, "executing")
  /\ IntentOf(c) \in Reading \/ Clear(proc[c], IntentOf(c))
  /\ Prepares(c)
  /\ KeepShared /\ KeepCall /\ UNCHANGED <<silent, stopped, verdict>>

Submit(c) ==
  /\ Running(c, "sending") \/ Resuming(c, "sending")
  /\ effects' = effects \cup {c}
  /\ Awaits(c, "submitted")
  /\ KeepCall
  /\ UNCHANGED <<file, pending, promise, approvals, clock, silent, stopped, trail, verdict>>

\* After the last check, a parameter or one of the requests before the order fails.
NeverSent(c) ==
  /\ Running(c, "sending") \/ Resuming(c, "sending")
  /\ Plans(c, "complete", "failed")
  /\ KeepShared /\ KeepCall /\ UNCHANGED <<silent, stopped>>

\* The connector's own checks or beforeSideEffect throw: nothing was sent.
NotSubmitted(c) ==
  /\ Resuming(c, "executing")
  /\ \E v \in {"not_submitted", "failed"} : Plans(c, "complete", v)
  /\ KeepShared /\ KeepCall /\ UNCHANGED <<silent, stopped>>

\* Mutants: an error after the submission is taken for one before it; it
\* aborts the reservation.
SettlesAsNotSubmitted(c) ==
  /\ Resuming(c, "submitted")
  /\ \E v \in {"executed", "failed", "not_submitted"} : Plans(c, "complete", v)
  /\ KeepShared /\ KeepCall /\ UNCHANGED <<silent, stopped>>

SettlesOrAborts(c) ==
  /\ Resuming(c, "submitted")
  /\ Plans(c, "complete", "executed") \/ PlansAbort(c, "threw")
  /\ KeepShared /\ KeepCall /\ UNCHANGED <<silent, stopped>>

\* The answer, an error, or evidence that does not match the intent.
Settles(c) ==
  /\ Resuming(c, "submitted")
  /\ \E v \in {"executed", "failed"} : Plans(c, "complete", v)
  /\ KeepShared /\ KeepCall /\ UNCHANGED <<silent, stopped>>

-----------------------------------------------------------------------------
(***************************************************************************)
(* finishExecutionWithAudit: the result is stored with the event it still  *)
(* owes, the event is written, the debt is cleared.                        *)
(***************************************************************************)
\* Mutant: the result is stored without the event it owes.
CompleteWithoutEvent(c) ==
  /\ Running(c, "complete")
  /\ \E o \in Outcome :
       /\ Complete(proc[c], IntentOf(c), verdict[c], Null, o)
       /\ Proceeds(c, IF o = "ok" THEN "audit" ELSE "auditUnstored")
  /\ KeepCall /\ UNCHANGED <<approvals, clock, silent, stopped, trail, effects, verdict>>

CompleteResult(c) ==
  /\ Running(c, "complete")
  /\ \E o \in Outcome :
       /\ Complete(proc[c], IntentOf(c), verdict[c], EventOf(c, verdict[c]), o)
       /\ Proceeds(c, IF o = "ok" THEN "audit" ELSE "auditUnstored")
  /\ KeepCall /\ UNCHANGED <<approvals, clock, silent, stopped, trail, effects, verdict>>

WriteAudit(c) ==
  /\ Running(c, "audit") \/ Running(c, "auditUnstored")
  /\ \/ /\ trail' = trail \cup {EventOf(c, verdict[c])}
        /\ IF pc[c] = "audit" THEN Proceeds(c, "closeAudit") ELSE Returns(c, "threw")
        /\ UNCHANGED storeVars
     \/ /\ FailAudit(proc[c], IntentOf(c))
        /\ Returns(c, "threw")
        /\ trail' \in {trail, trail \cup {EventOf(c, verdict[c])}}
  /\ KeepCall /\ UNCHANGED <<approvals, clock, silent, stopped, effects, verdict>>

CloseAudit(c) ==
  /\ Running(c, "closeAudit")
  /\ \E o \in Outcome :
       /\ CompleteAudit(proc[c], IntentOf(c), o)
       /\ Returns(c, IF o = "ok" THEN verdict[c] ELSE "threw")
  /\ KeepCall /\ UNCHANGED <<approvals, clock, silent, stopped, trail, effects, verdict>>

(***************************************************************************)
(* finish and abort: the two ways out before connector.execute.            *)
(***************************************************************************)
Finish(c) ==
  /\ Running(c, "finish")
  /\ \E o \in Outcome :
       /\ Complete(proc[c], IntentOf(c), verdict[c], Null, o)
       /\ Returns(c, IF o = "ok" THEN verdict[c] ELSE "threw")
  /\ KeepCall /\ UNCHANGED <<approvals, clock, silent, stopped, trail, effects, verdict>>

AbortReservation(c) ==
  /\ Running(c, "abort")
  /\ \E o \in Outcome :
       /\ Abort(proc[c], IntentOf(c), o)
       /\ Returns(c, IF o = "ok" THEN verdict[c] ELSE "threw")
  /\ KeepCall /\ UNCHANGED <<approvals, clock, silent, stopped, trail, effects, verdict>>

-----------------------------------------------------------------------------
(***************************************************************************)
(* The environment: operators of the kill switch, the approval service,    *)
(* and crashes.  The switch is in memory: a new process starts with it     *)
(* clear, or active everywhere when BROKER_KILL_SWITCH is set.             *)
(***************************************************************************)
Activate(p, s) ==
  /\ loop[p] = Null
  /\ stopped' = [stopped EXCEPT ![p] = @ \cup {s}]
  /\ KeepShared /\ UNCHANGED callVars /\ UNCHANGED silent

Deactivate(p, s) ==
  /\ loop[p] = Null
  /\ stopped' = [stopped EXCEPT ![p] = @ \ {s}]
  /\ KeepShared /\ UNCHANGED callVars /\ UNCHANGED silent

\* isActive starts, or ceases, to throw for a scope.
FallsSilent(p, s) ==
  /\ loop[p] = Null
  /\ silent' = [silent EXCEPT ![p] = @ \cup {s}]
  /\ KeepShared /\ UNCHANGED callVars /\ UNCHANGED stopped

Recovers(p, s) ==
  /\ loop[p] = Null
  /\ silent' = [silent EXCEPT ![p] = @ \ {s}]
  /\ KeepShared /\ UNCHANGED callVars /\ UNCHANGED stopped

ApprovalServiceActs ==
  /\ ApprovalServiceStep
  /\ UNCHANGED <<file, pending, promise, silent, stopped, trail, effects>>
  /\ UNCHANGED callVars

Crash(p) ==
  /\ ForgetReservations(p)
  /\ pc' = [c \in Call |->
              IF proc[c] = p /\ pc[c] # "done" THEN "crashed" ELSE pc[c]]
  /\ loop' = [loop EXCEPT ![p] = Null]
  /\ \E s \in {{}, Scope} : stopped' = [stopped EXCEPT ![p] = s]
  /\ silent' = [silent EXCEPT ![p] = {}]
  /\ UNCHANGED <<approvals, clock, trail, effects>>
  /\ UNCHANGED <<decision, proc, verdict, event, owner, answer>>

Step(c) ==
  \/ LookUpApproval(c) \/ BeginReserves(c) \/ BeginJoins(c) \/ BeginConflicts(c)
  \/ BeginFails(c) \/ BeginFindsCached(c) \/ Wakes(c) \/ FlushAudit(c) \/ CloseFlush(c)
  \/ Precheck(c) \/ Revalidated(c) \/ Consume(c) \/ LastCheck(c) \/ Submit(c)
  \/ NeverSent(c) \/ NotSubmitted(c) \/ Settles(c) \/ CompleteResult(c) \/ WriteAudit(c)
  \/ CloseAudit(c) \/ Finish(c) \/ AbortReservation(c)

EnvironmentStep ==
  \/ \E p \in Proc, s \in Scope :
       Activate(p, s) \/ Deactivate(p, s) \/ FallsSilent(p, s) \/ Recovers(p, s)
  \/ \E p \in Proc : Crash(p)
  \/ ApprovalServiceActs

Next ==
  \/ \E c \in Call, p \in Proc, d \in Decision : Receive(c, p, d)
  \/ \E c \in Call : Step(c)
  \/ EnvironmentStep

Spec == Init /\ [][Next]_vars

(***************************************************************************)
(* Every await of execute settles: the connectors bound their requests by  *)
(* timeouts, everything else is synchronous, and the event loop serves a   *)
(* settled promise before it goes idle.  Callers, operators, the approval  *)
(* service and crashes are free.                                           *)
(***************************************************************************)
FairSpec == Spec /\ \A c \in Call : WF_vars(Step(c))

-----------------------------------------------------------------------------
(***************************************************************************)
(* Safety.                                                                 *)
(***************************************************************************)
\* However calls, processes, crashes and failing writes interleave, at most
\* one call per scoped idempotency key ever submits its side effect.
AtMostOneSubmission ==
  \A c1, c2 \in effects : KeyOf(c1) = KeyOf(c2) => c1 = c2

\* A key whose recorded or returned result says that nothing was sent never
\* has a side effect, not even by a later call: a rejection recorded for an
\* active kill switch or an expired approval is final.
UnsentStaysUnsent ==
  \A c \in effects :
    /\ file[KeyOf(c)].result \notin Unsent
    /\ \A d \in Call : answer[d] \in Unsent => KeyOf(d) # KeyOf(c)

\* "executed" is recorded and returned only for an intent that was submitted.
ExecutedWasSubmitted ==
  /\ \A k \in Key : file[k].result = "executed" =>
       \E c \in effects : IntentOf(c) = file[k].payload
  /\ \A d \in Call : answer[d] = "executed" =>
       \E c \in effects : IntentOf(c) = IntentOf(d)

\* Every submission that carries an approval spent it: the approval is
\* consumed, it was given for this very intent and decision, and no other
\* submission carries it; a needs_human decision always carries one.
ApprovalSpentOnce ==
  \A c \in effects :
    LET a == decision[c].approvalId IN
    /\ decision[c].outcome = "needs_human" => a # Null
    /\ a # Null => /\ approvals[a] = "consumed"
                   /\ ApprovalMatches(c)
                   /\ \A d \in effects : decision[d].approvalId = a => d = c

\* A caller is told a terminal result only after its terminal event is in the
\* audit log, and an entry owes its event until then, whoever wrote it.
TerminalIsAudited ==
  /\ \A d \in Call : answer[d] \in Terminal => Audited(IntentOf(d), answer[d])
  /\ \A k \in Key : file[k].result \in Terminal /\ file[k].pendingAudit = Null
       => Audited(file[k].payload, file[k].result)

\* The audit log holds one terminal event per key: a retry that flushes the
\* event of an earlier call writes that event and not one of its own.
OneTerminalEvent ==
  \A e1, e2 \in trail : ScopedKey[e1.intent] = ScopedKey[e2.intent] => e1 = e2

\* Calls with the same key are never told different recorded results.
AnswersAgree ==
  \A c, d \in Call :
    answer[c] \in Verdict /\ answer[d] \in Verdict /\ KeyOf(c) = KeyOf(d)
      => answer[c] = answer[d]

\* A recorded result is never replaced or forgotten.
VerdictStable ==
  [][\A k \in Key : file[k].status = "cached" =>
       /\ file'[k].status = "cached"
       /\ file'[k].payload = file[k].payload
       /\ file'[k].result = file[k].result]_vars

\* A process whose kill switch is set, or does not answer, submits nothing more:
\* no operator gets in between the last check of a call and its request.  Not
\* covered are what the switch lets pass (a cancellation, a read) and orders on a
\* futures account, whose connector awaits other answers in between.
HeldByStop ==
  [][\A c \in effects' \ effects :
       ~Clear(proc[c], IntentOf(c)) => IntentOf(c) \in Reading \cup Deferred]_vars

\* Every call that is accepted returns, or its process crashes: no promise is
\* left without an answer.
EveryCallEnds == \A c \in Call : pc[c] = "lookup" ~> pc[c] \in {"done", "crashed"}

-----------------------------------------------------------------------------
(***************************************************************************)
(* What the broker promises, whatever happens inside.                      *)
(***************************************************************************)
\* The calls that caused the side effect of each key, the result recorded for
\* it, and the recorded result each call returned.
Performed == [k \in Key |-> {c \in effects : KeyOf(c) = k}]
Recorded == [k \in Key |-> file[k].result]
Told == [c \in Call |-> IF answer[c] \in Verdict THEN answer[c] ELSE Null]

Once == INSTANCE OnceOnly WITH
  performed <- Performed, recorded <- Recorded, told <- Told

\* ExecutionBroker.execute and its store, with every crash, failing write and
\* interleaving, do what OnceOnly says of the idempotency keys.
ImplementsOnceOnly == Once!Spec
=============================================================================
