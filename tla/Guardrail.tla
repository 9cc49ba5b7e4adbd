------------------------------ MODULE Guardrail ------------------------------
(***************************************************************************)
(* GuardrailService.evaluate (packages/guardrail-service/src/service.ts)   *)
(* and its in-memory IdempotencyStore (idempotency.ts): the pipeline that  *)
(* turns an intent into a signed decision.                                 *)
(*                                                                         *)
(* The service is one process with one thread: calls interleave where they *)
(* await an answer, and nowhere else.  Humans decide approval requests in  *)
(* other processes at any time, and a crash may come between any two       *)
(* writes.  What the reviewer, the risk engine and the policy answer is    *)
(* arbitrary.                                                              *)
(***************************************************************************)
EXTENDS Naturals, ApprovalLifecycle

CONSTANTS
  Call,         \* calls of evaluate, previews included
  Intent,       \* intents; an intent stands for its whole content
  Scope, ScopeOf, \* idempotencyScope of an intent
  Invalid,      \* intents refused before they are recorded
  Unsafe,       \* intents whose content detectUnsafeContent rejects
  Fault,        \* which stores may fail
  MaxRestarts,  \* how often the process may crash
  Null

ASSUME GuardrailAssumption ==
  /\ ScopeOf \in [Intent -> Scope]
  /\ Invalid \subseteq Intent
  /\ Unsafe \subseteq Intent
  /\ Fault \subseteq {"audit", "create", "delete"}
  /\ MaxRestarts \in Nat
  /\ Null \notin Call \cup Approval \cup Intent

VARIABLES
  entries,      \* IdempotencyStore
  calls,        \* where each call is, and the decision it works on
  trail,        \* the events of the audit log
  restarts,     \* crashes so far; names the life of the process
  orphans       \* requests whose decision was never issued, left behind (history)

vars == <<entries, calls, trail, restarts, orphans, approvals, clock>>

\* A conflict and an invalid intent are denials with a rule of their own.
Outcome == {"allow", "deny", "needs_human", "conflict", "invalid"}

Decision == [outcome : Outcome, by : Call, approval : Approval \cup {Null}]

Verdict(outcome, c) == [outcome |-> outcome, by |-> c, approval |-> Null]

Free == [status |-> "free", intent |-> Null, decision |-> Null]

Entry ==
  {Free} \cup [status : {"pending"}, intent : Intent, decision : {Null}]
         \cup [status : {"complete"}, intent : Intent, decision : Decision]

\* A call awaits the policy engine's health, the reviewer, the risk engine and
\* the policy in turn; "waiting" for another call, it is "resolved" by it.
Awaiting == {"health", "review", "risk", "policy"}

\* Places a call passes without giving up the thread.
Synchronous == {"approving", "requesting", "finishing", "replying"}

Evaluating == Awaiting \cup {"approving", "requesting", "finishing"}

Ended == {"answered", "failed", "lost"}

Place == {"idle", "waiting", "resolved"} \cup Awaiting \cup Synchronous \cup Ended

CallRecord ==
  [at : Place, intent : Intent \cup {Null}, dryRun : BOOLEAN,
   decision : Decision \cup {Null}, life : 0..MaxRestarts]

Event(kind, c, d) == [kind |-> kind, call |-> c, decision |-> d]

EventKind ==
  {"intent.received", "reviewer.completed", "risk.evaluated", "policy.evaluated",
   "approval.requested", "decision.final", "decision.dry_run"}

TypeOK ==
  /\ ApprovalTypeOK
  /\ entries \in [Scope -> Entry]
  /\ calls \in [Call -> CallRecord]
  /\ trail \subseteq [kind : EventKind, call : Call, decision : Decision \cup {Null}]
  /\ restarts \in 0..MaxRestarts
  /\ orphans \subseteq Approval

Init ==
  /\ ApprovalInit
  /\ entries = [s \in Scope |-> Free]
  /\ calls = [c \in Call |-> [at |-> "idle", intent |-> Null, dryRun |-> FALSE,
                              decision |-> Null, life |-> 0]]
  /\ trail = {}
  /\ restarts = 0
  /\ orphans = {}

-----------------------------------------------------------------------------
At(c, place) == calls[c].at = place

ScopeOfCall(c) == ScopeOf[calls[c].intent]

Runs(c) == \A k \in Call \ {c} : calls[k].at \notin Synchronous

Goes(c, place) == calls' = [calls EXCEPT ![c].at = place]

Decides(c, outcome, place) ==
  calls' = [calls EXCEPT ![c].at = place, ![c].decision = Verdict(outcome, c)]

Writes(event) == trail' = trail \cup {event}

\* AuditWriter.write may throw before or after its row is committed.
WriteFails(event) == "audit" \in Fault /\ trail' \in {trail, trail \cup {event}}

(***************************************************************************)
(* IdempotencyStore: reserve, set with the promise it resolves, abort with *)
(* the promise it rejects.  Previews do not use it.                        *)
(***************************************************************************)
Waiting(k, s) == At(k, "waiting") /\ ScopeOfCall(k) = s

Reserve(i) ==
  entries' = [entries EXCEPT ![ScopeOf[i]] =
                [status |-> "pending", intent |-> i, decision |-> Null]]

\* The call answers with d; those that wait for it go on with d.
SetAndAnswer(c, d) ==
  LET s == ScopeOfCall(c) IN
  IF calls[c].dryRun
  THEN Goes(c, "answered") /\ UNCHANGED entries
  ELSE /\ entries' = [entries EXCEPT ![s] =
                        [status |-> "complete", intent |-> calls[c].intent, decision |-> d]]
       /\ calls' = [k \in Call |->
                      IF k = c THEN [calls[k] EXCEPT !.at = "answered"]
                      ELSE IF Waiting(k, s) /\ entries[s].status = "pending"
                           THEN [calls[k] EXCEPT !.at = "resolved", !.decision = d]
                           ELSE calls[k]]

Abortable(c) ==
  /\ ~calls[c].dryRun
  /\ entries[ScopeOfCall(c)].status = "pending"
  /\ entries[ScopeOfCall(c)].intent = calls[c].intent

\* Mutant: the promise of an aborted reservation is never settled.
AbortQuietly(c) ==
  /\ Goes(c, "failed")
  /\ IF Abortable(c) THEN entries' = [entries EXCEPT ![ScopeOfCall(c)] = Free]
     ELSE UNCHANGED entries

\* The call throws; so do those that wait for it.
AbortAndThrow(c) ==
  LET s == ScopeOfCall(c) IN
  IF Abortable(c)
  THEN /\ entries' = [entries EXCEPT ![s] = Free]
       /\ calls' = [k \in Call |->
                      IF k = c \/ Waiting(k, s) THEN [calls[k] EXCEPT !.at = "failed"]
                      ELSE calls[k]]
  ELSE Goes(c, "failed") /\ UNCHANGED entries

-----------------------------------------------------------------------------
(***************************************************************************)
(* From the call to its first await: validation, the record of the intent, *)
(* the look-up of its scope and the check of its content.                  *)
(***************************************************************************)
Starts(c, i, dry, place, d) ==
  calls' = [calls EXCEPT ![c] = [at |-> place, intent |-> i, dryRun |-> dry,
                                 decision |-> d, life |-> restarts]]

Refuse(c, i, dry) ==
  /\ At(c, "idle") /\ Runs(c) /\ i \in Invalid
  /\ Starts(c, i, dry, "replying", Verdict("invalid", c))
  /\ UNCHANGED <<entries, trail, restarts, orphans, approvalVars>>

ReceiveFails(c, i, dry) ==
  /\ At(c, "idle") /\ Runs(c) /\ i \notin Invalid
  /\ WriteFails(Event("intent.received", c, Null))
  /\ Starts(c, i, dry, "failed", Null)
  /\ UNCHANGED <<entries, restarts, orphans, approvalVars>>

Receives(c, i) ==
  /\ At(c, "idle") /\ Runs(c) /\ i \notin Invalid
  /\ Writes(Event("intent.received", c, Null))
  /\ UNCHANGED <<restarts, orphans, approvalVars>>

\* The scope is in use for another payload.
Conflict(c, i) ==
  /\ Receives(c, i)
  /\ entries[ScopeOf[i]].status # "free" /\ entries[ScopeOf[i]].intent # i
  /\ Starts(c, i, FALSE, "replying", Verdict("conflict", c))
  /\ UNCHANGED entries

Replay(c, i) ==
  /\ Receives(c, i)
  /\ entries[ScopeOf[i]].status = "complete" /\ entries[ScopeOf[i]].intent = i
  /\ Starts(c, i, FALSE, "replying", entries[ScopeOf[i]].decision)
  /\ UNCHANGED entries

Wait(c, i) ==
  /\ Receives(c, i)
  /\ entries[ScopeOf[i]].status = "pending" /\ entries[ScopeOf[i]].intent = i
  /\ Starts(c, i, FALSE, "waiting", Null)
  /\ UNCHANGED entries

\* Mutant: the scope is not reserved before the first await.
BeginUnreserved(c, i, dry) ==
  /\ Receives(c, i)
  /\ dry \/ entries[ScopeOf[i]].status = "free"
  /\ IF i \in Unsafe THEN Starts(c, i, dry, "finishing", Verdict("deny", c))
     ELSE Starts(c, i, dry, "health", Null)
  /\ UNCHANGED entries

\* Unsafe content is denied at once, anything else waits for the policy engine.
Begin(c, i, dry) ==
  /\ Receives(c, i)
  /\ dry \/ entries[ScopeOf[i]].status = "free"
  /\ IF i \in Unsafe THEN Starts(c, i, dry, "finishing", Verdict("deny", c))
     ELSE Starts(c, i, dry, "health", Null)
  /\ IF dry THEN UNCHANGED entries ELSE Reserve(i)

-----------------------------------------------------------------------------
(***************************************************************************)
(* The pipeline: each step starts when an awaited answer arrives.          *)
(***************************************************************************)
\* The awaited service fails, times out or answers nonsense: denied.
Unavailable(c) ==
  /\ calls[c].at \in Awaiting /\ Runs(c)
  /\ Decides(c, "deny", "finishing")
  /\ UNCHANGED <<entries, trail, restarts, orphans, approvalVars>>

OpaHealthy(c) ==
  /\ At(c, "health") /\ Runs(c)
  /\ Goes(c, "review")
  /\ UNCHANGED <<entries, trail, restarts, orphans, approvalVars>>

\* Mutant: an evaluation goes on when its record cannot be written.
ReviewedAnyway(c) ==
  /\ At(c, "review") /\ Runs(c)
  /\ trail' \in {trail, trail \cup {Event("reviewer.completed", c, Null)}}
  /\ Goes(c, "risk")
  /\ UNCHANGED <<entries, restarts, orphans, approvalVars>>

Reviewed(c) ==
  /\ At(c, "review") /\ Runs(c)
  /\ Writes(Event("reviewer.completed", c, Null))
  /\ Goes(c, "risk")
  /\ UNCHANGED <<entries, restarts, orphans, approvalVars>>

RiskEvaluated(c) ==
  /\ At(c, "risk") /\ Runs(c)
  /\ Writes(Event("risk.evaluated", c, Null))
  /\ Goes(c, "policy") \/ Decides(c, "deny", "finishing")
  /\ UNCHANGED <<entries, restarts, orphans, approvalVars>>

PolicyEvaluated(c) ==
  /\ At(c, "policy") /\ Runs(c)
  /\ Writes(Event("policy.evaluated", c, Null))
  /\ \E outcome \in {"allow", "deny", "needs_human"} :
       Decides(c, outcome,
               IF outcome = "needs_human" /\ ~calls[c].dryRun THEN "approving" ELSE "finishing")
  /\ UNCHANGED <<entries, restarts, orphans, approvalVars>>

StageEvent == [review |-> "reviewer.completed", risk |-> "risk.evaluated",
               policy |-> "policy.evaluated"]

StageFails(c) ==
  /\ calls[c].at \in DOMAIN StageEvent /\ Runs(c)
  /\ WriteFails(Event(StageEvent[calls[c].at], c, Null))
  /\ AbortAndThrow(c)
  /\ UNCHANGED <<restarts, orphans, approvalVars>>

-----------------------------------------------------------------------------
(***************************************************************************)
(* requestHumanApproval and finalizeDecision.                              *)
(***************************************************************************)

CreateApproval(c, a) ==
  /\ At(c, "approving")
  /\ Create(a)
  /\ calls' = [calls EXCEPT ![c].at = "requesting", ![c].decision.approval = a]
  /\ UNCHANGED <<entries, trail, restarts, orphans>>

CreateFails(c) ==
  /\ At(c, "approving") /\ "create" \in Fault
  /\ AbortAndThrow(c)
  /\ UNCHANGED <<trail, restarts, orphans, approvalVars>>

RequestRecorded(c) ==
  /\ At(c, "requesting")
  /\ Writes(Event("approval.requested", c, calls[c].decision))
  /\ Goes(c, "finishing")
  /\ UNCHANGED <<entries, restarts, orphans, approvalVars>>

\* Mutant: it is not.
TakeNothingBack(a) == UNCHANGED <<orphans, approvalVars>>

\* A request whose decision is not issued is taken back, if the database lets us.
TakeBack(a) ==
  \/ a = Null /\ UNCHANGED <<orphans, approvalVars>>
  \/ a # Null /\ Delete(a) /\ UNCHANGED orphans
  \/ a # Null /\ "delete" \in Fault /\ orphans' = orphans \cup {a} /\ UNCHANGED approvalVars

RequestFails(c) ==
  /\ At(c, "requesting")
  /\ WriteFails(Event("approval.requested", c, calls[c].decision))
  /\ TakeBack(calls[c].decision.approval)
  /\ AbortAndThrow(c)
  /\ UNCHANGED restarts

\* A decision for a human keeps the correlation its approval was created with.
Correlation(c, d) == IF d.outcome = "needs_human" THEN d.by ELSE c

FinalEvent(c, d) ==
  Event(IF calls[c].dryRun THEN "decision.dry_run" ELSE "decision.final", Correlation(c, d), d)

Finish(c) ==
  /\ At(c, "finishing")
  /\ Writes(FinalEvent(c, calls[c].decision))
  /\ SetAndAnswer(c, calls[c].decision)
  /\ UNCHANGED <<restarts, orphans, approvalVars>>

\* Mutant: the entry is completed before the decision is recorded.
FinishFailsAfterSet(c) ==
  /\ At(c, "finishing")
  /\ WriteFails(FinalEvent(c, calls[c].decision))
  /\ TakeBack(calls[c].decision.approval)
  /\ SetAndAnswer(c, calls[c].decision)
  /\ UNCHANGED restarts

FinishFails(c) ==
  /\ At(c, "finishing")
  /\ WriteFails(FinalEvent(c, calls[c].decision))
  /\ TakeBack(calls[c].decision.approval)
  /\ AbortAndThrow(c)
  /\ UNCHANGED restarts

\* A decision of another call, or one that has no entry, is signed and recorded.
Replying(c) == At(c, "replying") \/ (At(c, "resolved") /\ Runs(c))

Reply(c) ==
  /\ Replying(c)
  /\ Writes(FinalEvent(c, calls[c].decision))
  /\ Goes(c, "answered")
  /\ UNCHANGED <<entries, restarts, orphans, approvalVars>>

\* Mutant: a replayed decision is answered although it was not recorded.
ReplyAnyway(c) ==
  /\ Replying(c)
  /\ WriteFails(FinalEvent(c, calls[c].decision))
  /\ Goes(c, "answered")
  /\ UNCHANGED <<entries, restarts, orphans, approvalVars>>

ReplyFails(c) ==
  /\ Replying(c)
  /\ WriteFails(FinalEvent(c, calls[c].decision))
  /\ Goes(c, "failed")
  /\ UNCHANGED <<entries, restarts, orphans, approvalVars>>

-----------------------------------------------------------------------------
(***************************************************************************)
(* The environment: humans and timeouts, through the shared database, and  *)
(* a restart, which forgets every entry.                                   *)
(***************************************************************************)
HumanStep(a) ==
  /\ Approve(a) \/ Deny(a) \/ TimeOut(a) \/ Tick(a)
  /\ UNCHANGED <<entries, calls, trail, restarts, orphans>>

\* The request a call has created and not yet issued the decision of.
Requests(c, a) == calls[c].at \in {"requesting", "finishing"} /\ calls[c].decision.approval = a

Restart ==
  /\ restarts < MaxRestarts
  /\ restarts' = restarts + 1
  /\ entries' = [s \in Scope |-> Free]
  /\ calls' = [c \in Call |->
                 IF At(c, "idle") \/ calls[c].at \in Ended THEN calls[c]
                 ELSE [calls[c] EXCEPT !.at = "lost"]]
  /\ orphans' = orphans \cup {a \in Approval : \E c \in Call : Requests(c, a)}
  /\ UNCHANGED <<trail, approvalVars>>

Step(c) ==
  \/ Unavailable(c) \/ OpaHealthy(c) \/ Reviewed(c) \/ RiskEvaluated(c) \/ PolicyEvaluated(c)
  \/ StageFails(c) \/ CreateFails(c) \/ RequestRecorded(c) \/ RequestFails(c)
  \/ Finish(c) \/ FinishFails(c) \/ Reply(c) \/ ReplyFails(c)
  \/ \E a \in Approval : CreateApproval(c, a)

Next ==
  \/ \E c \in Call, i \in Intent :
       \/ Conflict(c, i) \/ Replay(c, i) \/ Wait(c, i)
       \/ \E dry \in BOOLEAN : Refuse(c, i, dry) \/ ReceiveFails(c, i, dry) \/ Begin(c, i, dry)
  \/ \E c \in Call : Step(c)
  \/ \E a \in Approval : HumanStep(a)
  \/ Restart

Spec == Init /\ [][Next]_vars

\* The services a call awaits answer or time out, and the event loop goes on.
FairSpec == Spec /\ \A c \in Call : WF_vars(Step(c))

-----------------------------------------------------------------------------
Answered(c) == At(c, "answered")

\* Decided by the pipeline, not refused on the way to it.
Evaluated(d) == d.outcome \in {"allow", "deny", "needs_human"}

\* No decision reaches a caller that the log does not hold, whichever call
\* evaluated it and whichever writes failed before.
AnsweredIsAudited ==
  \A c \in Call : Answered(c) => FinalEvent(c, calls[c].decision) \in trail

\* A decision that waits for a human names a request that exists and is on
\* record, although requests are taken back when later writes fail.
AnsweredApprovalExists ==
  \A c \in Call :
    Answered(c) /\ calls[c].decision.outcome = "needs_human" /\ ~calls[c].dryRun =>
      LET d == calls[c].decision IN
      /\ d.approval # Null /\ Stored(d.approval)
      /\ Event("approval.requested", d.by, d) \in trail

\* An intent is allowed, or shown to a human, on the record of a whole
\* evaluation: its own, or that of the call it replays.
EvaluationIsRecorded ==
  \A c \in Call :
    Answered(c) /\ calls[c].decision.outcome \in {"allow", "needs_human"} =>
      \A kind \in {"intent.received", "reviewer.completed", "risk.evaluated", "policy.evaluated"} :
        Event(kind, calls[c].decision.by, Null) \in trail

Reserves(c) == calls[c].at \in Evaluating /\ ~calls[c].dryRun

\* A reservation belongs to exactly one call in progress, and a call waits for
\* nothing else.
ReservationHasOwner ==
  /\ \A c, k \in Call :
       Reserves(c) /\ Reserves(k) /\ ScopeOfCall(c) = ScopeOfCall(k) => c = k
  /\ \A s \in Scope :
       entries[s].status = "pending" =>
         \E c \in Call : Reserves(c) /\ calls[c].intent = entries[s].intent
  /\ \A k \in Call :
       At(k, "waiting") => /\ entries[ScopeOfCall(k)].status = "pending"
                           /\ entries[ScopeOfCall(k)].intent = calls[k].intent

\* While the process lives, a scope has one decision: whatever is answered for
\* it is that decision, for that payload.
OneDecisionPerScope ==
  \A c, k \in Call :
    /\ Answered(c) /\ ~calls[c].dryRun /\ Evaluated(calls[c].decision)
    /\ Answered(k) /\ ~calls[k].dryRun /\ Evaluated(calls[k].decision)
    /\ ScopeOfCall(c) = ScopeOfCall(k) /\ calls[c].life = calls[k].life
    => calls[c].decision = calls[k].decision /\ calls[c].intent = calls[k].intent

\* A human is asked only about decisions that are issued: a request in the
\* database has its decision on record, or the call that made it is at work.
\* Only a crash between two writes, or a database that refuses the deletion,
\* leaves a request behind whose approval no caller can use (service.ts:714).
RequestsAreAnswered ==
  \A a \in Approval : Stored(a) =>
    \/ a \in orphans
    \/ \E c \in Call :
         \/ Requests(c, a)
         \/ Answered(c) /\ calls[c].decision.approval = a /\ FinalEvent(c, calls[c].decision) \in trail

\* Every call ends, those that wait for another call too.
EveryCallEnds == \A c \in Call : ~At(c, "idle") ~> calls[c].at \in Ended

\* A repeated request gets the result it got before
\* (docs/threat-model.md:209-210).
RepeatsGetOneResult ==
  \A c, k \in Call :
    /\ Answered(c) /\ ~calls[c].dryRun /\ Evaluated(calls[c].decision)
    /\ Answered(k) /\ ~calls[k].dryRun /\ Evaluated(calls[k].decision)
    /\ calls[c].intent = calls[k].intent
    => /\ calls[c].decision.outcome = calls[k].decision.outcome
       /\ calls[c].decision.approval = calls[k].decision.approval
=============================================================================
