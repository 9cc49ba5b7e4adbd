---------------------------- MODULE GuardrailProofs ----------------------------
(***************************************************************************)
(* Proofs about Guardrail.  The invariant says what a reservation is worth *)
(* while its owner awaits the other services: nobody else evaluates the    *)
(* scope, and whatever is answered for it is what the entry holds.         *)
(***************************************************************************)
EXTENDS Guardrail, TLAPS

Settled == {"replying", "resolved", "answered"}
Deciding == {"approving", "requesting", "finishing"}
Alive == {"waiting", "resolved", "replying"} \cup Evaluating

\* The record of a whole evaluation by its call, if d needs one.
EvaluationOf(d) ==
  d.outcome \in {"allow", "needs_human"} =>
    \A kind \in {"intent.received", "reviewer.completed", "risk.evaluated", "policy.evaluated"} :
      Event(kind, d.by, Null) \in trail

\* The request d names, if it waits for a human.
RequestOf(d) ==
  d.outcome = "needs_human" =>
    d.approval # Null /\ Event("approval.requested", d.by, d) \in trail

\* The arguments and the decision of a call, by the place it has reached.
WellFormed(c) ==
  /\ calls[c].life <= restarts
  /\ calls[c].at # "idle" => calls[c].intent \in Intent
  /\ calls[c].at \in Alive => calls[c].life = restarts
  /\ calls[c].at \in {"waiting", "resolved"} => ~calls[c].dryRun
  /\ calls[c].at \in Settled \cup Deciding => calls[c].decision \in Decision
  /\ calls[c].at = "replying" /\ calls[c].dryRun => calls[c].decision.outcome = "invalid"
  /\ calls[c].at \in Deciding => calls[c].decision.by = c /\ Evaluated(calls[c].decision)
  /\ calls[c].at \in {"approving", "requesting"} =>
       ~calls[c].dryRun /\ calls[c].decision.outcome = "needs_human"
  /\ calls[c].at = "requesting" => calls[c].decision.approval # Null
  /\ calls[c].at = "approving" => calls[c].decision.approval = Null
  /\ calls[c].at = "finishing" /\ calls[c].dryRun => calls[c].decision.approval = Null
  /\ calls[c].at \in Settled \cup Deciding /\ calls[c].decision.approval # Null =>
       calls[c].decision.outcome = "needs_human"

\* What is on record by the time a call is where it is.
OnRecord(c) ==
  /\ calls[c].at \in Evaluating => Event("intent.received", c, Null) \in trail
  /\ calls[c].at \in {"risk", "policy"} => Event("reviewer.completed", c, Null) \in trail
  /\ calls[c].at = "policy" => Event("risk.evaluated", c, Null) \in trail
  /\ calls[c].at \in Settled \cup Deciding => EvaluationOf(calls[c].decision)
  /\ calls[c].at \in Settled \cup {"finishing"} /\ ~calls[c].dryRun => RequestOf(calls[c].decision)
  /\ calls[c].at = "answered" => FinalEvent(c, calls[c].decision) \in trail

\* A call in progress holds the reservation of its scope, and what is answered
\* for a scope in this life of the process is what its entry holds.
HasEntry(c) ==
  LET entry == entries[ScopeOf[calls[c].intent]] IN
  /\ Reserves(c) \/ calls[c].at = "waiting" =>
       entry.status = "pending" /\ entry.intent = calls[c].intent
  /\ /\ calls[c].at \in Settled /\ ~calls[c].dryRun /\ Evaluated(calls[c].decision)
     /\ calls[c].life = restarts
     => entry = [status |-> "complete", intent |-> calls[c].intent, decision |-> calls[c].decision]

\* The request a call names is still there.
HasRequest(c) ==
  \A a \in Approval :
    calls[c].at \in Settled \cup Deciding /\ calls[c].decision.approval = a => Stored(a)

CallSound(c) == WellFormed(c) /\ OnRecord(c) /\ HasEntry(c) /\ HasRequest(c)

EntrySound(s) ==
  LET d == entries[s].decision IN
  entries[s].status = "complete" =>
    /\ Evaluated(d) /\ EvaluationOf(d) /\ RequestOf(d)
    /\ d.approval # Null => d.outcome = "needs_human"
    /\ \A a \in Approval : d.approval = a => Stored(a)

\* Two calls never evaluate one scope, and a reservation has its call.
ReservedByOne ==
  /\ \A c, k \in Call :
       Reserves(c) /\ Reserves(k) /\ ScopeOfCall(c) = ScopeOfCall(k) => c = k
  /\ \A s \in Scope :
       entries[s].status = "pending" =>
         \E c \in Call : Reserves(c) /\ calls[c].intent = entries[s].intent /\ ScopeOfCall(c) = s

\* The request of a decision that is not issued yet is of that call alone, so
\* taking it back takes it from nobody else.
RequestedByOne ==
  \A c \in Call, a \in Approval :
    Requests(c, a) =>
      /\ \A k \in Call : calls[k].at \in Settled \cup Deciding /\ calls[k].decision.approval = a
                         => c = k
      /\ \A s \in Scope : entries[s].status = "complete" => entries[s].decision.approval # a

Inv ==
  /\ TypeOK
  /\ \A c \in Call : CallSound(c)
  /\ \A s \in Scope : EntrySound(s)
  /\ ReservedByOne
  /\ RequestedByOne
  /\ OneDecisionPerScope
  /\ RequestsAreAnswered

-----------------------------------------------------------------------------
LEMMA InitInv == Init => Inv
<1>. SUFFICES ASSUME Init PROVE Inv
  OBVIOUS
<1>. USE GuardrailAssumption DEF Init, ApprovalInit
<1>1. TypeOK
  BY DEF TypeOK, ApprovalTypeOK, ApprovalState, ClockReading, Entry, Free, CallRecord, Place
<1>2. \A c \in Call : CallSound(c)
  BY DEF CallSound, WellFormed, OnRecord, HasEntry, HasRequest, Reserves, Settled, Deciding,
    Alive, Evaluating, Awaiting
<1>3. \A s \in Scope : EntrySound(s)
  BY DEF EntrySound, Free
<1>4. ReservedByOne /\ RequestedByOne
  BY DEF ReservedByOne, RequestedByOne, Reserves, Requests, Free, Evaluating, Awaiting
<1>5. OneDecisionPerScope /\ RequestsAreAnswered
  BY DEF OneDecisionPerScope, RequestsAreAnswered, Answered, At, Stored
<1>. QED  BY <1>1, <1>2, <1>3, <1>4, <1>5 DEF Inv

-----------------------------------------------------------------------------
USE GuardrailAssumption
  DEF At, Answered, Settled, Deciding, Awaiting, ScopeOfCall, approvalVars

\* A call that stays where it is stays sound when the log grows, its entry is
\* not touched and no request it names is deleted.
LEMMA Frame ==
  ASSUME Inv, NEW k \in Call, calls'[k] = calls[k], restarts' = restarts, trail \subseteq trail',
         calls[k].at # "idle" => entries'[ScopeOf[calls[k].intent]] = entries[ScopeOf[calls[k].intent]],
         \A a \in Approval : HasRequest(k) /\ Stored(a) /\ calls[k].at \in Settled \cup Deciding
                             /\ calls[k].decision.approval = a => Stored(a)'
  PROVE  CallSound(k)'
<1>. USE DEF Inv
<1>1. WellFormed(k)'
  BY DEF CallSound, WellFormed, Evaluated
<1>2. OnRecord(k)'
  BY DEF CallSound, OnRecord, EvaluationOf, RequestOf, FinalEvent, Correlation
<1>3. HasEntry(k)'
  BY DEF CallSound, HasEntry, Reserves, Evaluated, Evaluating
<1>4. HasRequest(k)'
  BY DEF CallSound, HasRequest
<1>. QED  BY <1>1, <1>2, <1>3, <1>4 DEF CallSound

LEMMA FrameEntry ==
  ASSUME Inv, NEW s \in Scope, entries'[s] = entries[s], trail \subseteq trail',
         \A a \in Approval : entries[s].status = "complete" /\ entries[s].decision.approval = a
                             /\ Stored(a) => Stored(a)'
  PROVE  EntrySound(s)'
BY DEF Inv, EntrySound, EvaluationOf, RequestOf, Evaluated

\* Decisions of this life of the process agree because the entry holds them.
LEMMA OneDecisionFromEntries ==
  ASSUME Inv, restarts' = restarts, \A k \in Call : HasEntry(k)',
         \A k \in Call : calls'[k].at = "answered" /\ calls'[k].life # restarts => calls'[k] = calls[k]
  PROVE  OneDecisionPerScope'
<1>1. ASSUME NEW d \in Call, NEW k \in Call,
             calls'[d].at = "answered", ~calls'[d].dryRun, Evaluated(calls'[d].decision),
             calls'[k].at = "answered", ~calls'[k].dryRun, Evaluated(calls'[k].decision),
             ScopeOf[calls'[d].intent] = ScopeOf[calls'[k].intent],
             calls'[d].life = calls'[k].life
      PROVE  calls'[d].decision = calls'[k].decision /\ calls'[d].intent = calls'[k].intent
  <2>1. CASE calls'[d].life = restarts
    <3>1. ASSUME NEW e \in {d, k}
          PROVE  entries'[ScopeOf[calls'[e].intent]] =
                   [status |-> "complete", intent |-> calls'[e].intent,
                    decision |-> calls'[e].decision]
      BY <1>1, <2>1 DEF HasEntry, Evaluated
    <3>. HIDE DEF Evaluated
    <3>2. [status |-> "complete", intent |-> calls'[d].intent, decision |-> calls'[d].decision]
        = [status |-> "complete", intent |-> calls'[k].intent, decision |-> calls'[k].decision]
      BY <1>1, <3>1
    <3>. QED  BY <3>2
  <2>2. CASE calls'[d].life # restarts
    BY <1>1, <2>2 DEF Inv, OneDecisionPerScope, Evaluated
  <2>. QED  BY <2>1, <2>2
<1>. QED  BY <1>1 DEF OneDecisionPerScope, Evaluated

\* What a call changes when it moves on alone.
Moves(c, r) ==
  /\ r \in CallRecord /\ r.life = restarts
  /\ calls' = [calls EXCEPT ![c] = r]
  /\ trail \subseteq trail'
  /\ trail' \subseteq [kind : EventKind, call : Call, decision : Decision \cup {Null}]
  /\ UNCHANGED <<restarts, orphans>>

\* A call moves on alone, with its reservation and its request, if it has any.
LEMMA MoveInv ==
  ASSUME Inv, NEW c \in Call, NEW r, Moves(c, r), UNCHANGED <<entries, approvals, clock>>,
         CallSound(c)',
         r.at \in Evaluating /\ ~r.dryRun <=> Reserves(c),
         Reserves(c) => r.intent = calls[c].intent,
         \A a \in Approval : Requests(c, a) <=>
           r.at \in {"requesting", "finishing"} /\ r.decision.approval = a,
         \A k \in Call \ {c}, a \in Approval :
           Requests(k, a) /\ r.at \in Settled \cup Deciding => r.decision.approval # a,
         calls[c].at # "answered"
  PROVE  Inv'
<1>. USE DEF Inv, Moves
<1>1. TypeOK'
  BY DEF TypeOK, ApprovalTypeOK
<1>2. calls'[c] = r /\ \A k \in Call \ {c} : calls'[k] = calls[k]
  BY DEF TypeOK
<1>3. \A k \in Call \ {c} : CallSound(k)'
  BY <1>2, Frame DEF Stored
<1>4. \A s \in Scope : EntrySound(s)'
  BY FrameEntry DEF Stored
<1>5. ReservedByOne'
  BY <1>2 DEF ReservedByOne, Reserves, Evaluating
<1>6. RequestedByOne'
  BY <1>2 DEF RequestedByOne, Requests
<1>7. OneDecisionPerScope'
  <2>1. \A k \in Call : HasEntry(k)'
    BY <1>3 DEF CallSound
  <2>. QED  BY <1>2, <2>1, OneDecisionFromEntries
<1>8. RequestsAreAnswered'
  BY <1>2 DEF RequestsAreAnswered, Requests, FinalEvent, Correlation, Stored
<1>. QED  BY <1>1, <1>2, <1>3, <1>4, <1>5, <1>6, <1>7, <1>8

-----------------------------------------------------------------------------
USE DEF Goes, Writes, Decides

LEMMA VerdictFacts ==
  ASSUME NEW outcome \in Outcome, NEW c \in Call
  PROVE  /\ Verdict(outcome, c) \in Decision /\ Verdict(outcome, c).outcome = outcome
         /\ Verdict(outcome, c).by = c /\ Verdict(outcome, c).approval = Null
BY DEF Verdict, Decision

LEMMA EventType ==
  ASSUME NEW kind \in EventKind, NEW c \in Call, NEW d \in Decision \cup {Null}
  PROVE  Event(kind, c, d) \in [kind : EventKind, call : Call, decision : Decision \cup {Null}]
BY DEF Event

LEMMA OpaHealthyInv ==
  ASSUME Inv, NEW c \in Call, OpaHealthy(c)
  PROVE  Inv'
<1>. DEFINE r == [calls[c] EXCEPT !.at = "review"]
<1>1. /\ TypeOK /\ CallSound(c) /\ calls[c].at = "health"
  BY DEF Inv, OpaHealthy
<1>3. /\ r \in CallRecord /\ r.life = restarts
  <2>1. calls[c] \in CallRecord /\ calls[c].life = restarts
    BY <1>1 DEF TypeOK, CallSound, WellFormed, Alive, Evaluating
  <2>. QED  BY <2>1 DEF CallRecord, Place, Synchronous
<1>4. calls' = [calls EXCEPT ![c] = r]
  BY <1>1 DEF OpaHealthy
<1>5. Moves(c, r) /\ UNCHANGED <<entries, approvals, clock>>
  BY <1>1, <1>3, <1>4 DEF Moves, OpaHealthy, TypeOK
<1>6. calls'[c] = r
  BY <1>1, <1>4 DEF TypeOK
<1>7. CallSound(c)'
  BY <1>1, <1>5, <1>6 DEF OpaHealthy, CallSound, WellFormed, OnRecord, HasEntry, HasRequest, Moves,
    Reserves, Evaluated, Alive, Evaluating, EvaluationOf, RequestOf, TypeOK, CallRecord
<1>. QED
  BY <1>1, <1>5, <1>6, <1>7, MoveInv DEF Reserves, Requests, Evaluating, TypeOK, CallRecord

LEMMA ReviewedInv ==
  ASSUME Inv, NEW c \in Call, Reviewed(c)
  PROVE  Inv'
<1>. DEFINE r == [calls[c] EXCEPT !.at = "risk"]
<1>1. /\ TypeOK /\ CallSound(c) /\ calls[c].at = "review"
  BY DEF Inv, Reviewed
<1>2. Event("reviewer.completed", c, Null) \in [kind : EventKind, call : Call, decision : Decision \cup {Null}]
  BY <1>1, VerdictFacts, EventType DEF Outcome, EventKind
<1>3. /\ r \in CallRecord /\ r.life = restarts
  <2>1. calls[c] \in CallRecord /\ calls[c].life = restarts
    BY <1>1 DEF TypeOK, CallSound, WellFormed, Alive, Evaluating
  <2>. QED  BY <2>1 DEF CallRecord, Place, Synchronous
<1>4. calls' = [calls EXCEPT ![c] = r]
  BY <1>1 DEF Reviewed
<1>5. Moves(c, r) /\ UNCHANGED <<entries, approvals, clock>>
  BY <1>1, <1>2, <1>3, <1>4 DEF Moves, Reviewed, TypeOK
<1>6. calls'[c] = r
  BY <1>1, <1>4 DEF TypeOK
<1>7. CallSound(c)'
  BY <1>1, <1>2, <1>5, <1>6 DEF Reviewed, CallSound, WellFormed, OnRecord, HasEntry, HasRequest, Moves,
    Reserves, Evaluated, Alive, Evaluating, EvaluationOf, RequestOf, TypeOK, CallRecord
<1>. QED
  BY <1>1, <1>2, <1>5, <1>6, <1>7, MoveInv DEF Reserves, Requests, Evaluating, TypeOK, CallRecord

\* A call that awaits an answer takes its decision.
LEMMA DecideInv ==
  ASSUME Inv, NEW c \in Call, calls[c].at \in Awaiting,
         NEW place \in {"approving", "finishing"}, NEW d \in Decision,
         calls' = [calls EXCEPT ![c].at = place, ![c].decision = d],
         trail \subseteq trail',
         trail' \subseteq [kind : EventKind, call : Call, decision : Decision \cup {Null}],
         UNCHANGED <<entries, approvals, clock, restarts, orphans>>,
         d.by = c, d.approval = Null, Evaluated(d), EvaluationOf(d)',
         d.outcome = "needs_human" /\ ~calls[c].dryRun <=> place = "approving"
  PROVE  Inv'
<1>1. /\ TypeOK /\ CallSound(c)
  BY DEF Inv
<1>2. place \in Place
  BY DEF Place, Synchronous
<1>. DEFINE r == [calls[c] EXCEPT !.at = place, !.decision = d]
<1>3. /\ calls' = [calls EXCEPT ![c] = r] /\ calls'[c] = r /\ r \in CallRecord
      /\ r.at = place /\ r.decision = d /\ r.intent = calls[c].intent
      /\ r.dryRun = calls[c].dryRun /\ r.life = calls[c].life
  <2>1. calls[c] \in CallRecord
    BY <1>1 DEF TypeOK
  <2>2. r \in CallRecord /\ r.at = place /\ r.decision = d /\ r.intent = calls[c].intent
        /\ r.dryRun = calls[c].dryRun /\ r.life = calls[c].life
    BY <1>2, <2>1 DEF CallRecord
  <2>3. calls' = [calls EXCEPT ![c] = r]
    OBVIOUS
  <2>. HIDE DEF r
  <2>4. calls'[c] = r
    BY <1>1, <2>3 DEF TypeOK
  <2>. QED  BY <2>2, <2>3, <2>4
<1>. HIDE DEF r
<1>4. Moves(c, r)
  BY <1>1, <1>3 DEF Moves, CallSound, WellFormed, Alive, Evaluating
<1>5. WellFormed(c)'
  BY <1>1, <1>3 DEF CallSound, WellFormed, Alive, Evaluating, Evaluated
<1>6. OnRecord(c)' /\ HasRequest(c)'
  BY <1>1, <1>3 DEF CallSound, OnRecord, HasRequest, Evaluating, RequestOf
<1>7. HasEntry(c)'
  BY <1>1, <1>3 DEF CallSound, HasEntry, Reserves, Evaluating
<1>8. CallSound(c)'
  BY <1>5, <1>6, <1>7 DEF CallSound
<1>9. /\ r.at \in Evaluating /\ ~r.dryRun <=> Reserves(c)
      /\ \A a \in Approval : ~Requests(c, a) /\ r.decision.approval # a
      /\ calls[c].at # "answered"
  BY <1>3 DEF Reserves, Requests, Evaluating
<1>. QED  BY <1>3, <1>4, <1>8, <1>9, MoveInv

LEMMA UnavailableInv ==
  ASSUME Inv, NEW c \in Call, Unavailable(c)
  PROVE  Inv'
<1>1. /\ Verdict("deny", c) \in Decision /\ Verdict("deny", c).outcome = "deny"
      /\ Verdict("deny", c).by = c /\ Verdict("deny", c).approval = Null
  BY VerdictFacts DEF Outcome
<1>. QED  BY <1>1, DecideInv DEF Unavailable, Evaluated, EvaluationOf, Inv, TypeOK

LEMMA RiskEvaluatedInv ==
  ASSUME Inv, NEW c \in Call, RiskEvaluated(c)
  PROVE  Inv'
<1>1. TypeOK /\ CallSound(c) /\ calls[c].at = "risk"
  BY DEF Inv, RiskEvaluated
<1>2. /\ Event("risk.evaluated", c, Null) \in [kind : EventKind, call : Call, decision : Decision \cup {Null}]
      /\ Verdict("deny", c) \in Decision /\ Verdict("deny", c).outcome = "deny"
      /\ Verdict("deny", c).by = c /\ Verdict("deny", c).approval = Null
  BY VerdictFacts, EventType DEF Outcome, EventKind
<1>3. CASE Decides(c, "deny", "finishing")
  BY <1>1, <1>2, <1>3, DecideInv DEF RiskEvaluated, Evaluated, EvaluationOf, TypeOK
<1>4. CASE Goes(c, "policy")
  <2>. DEFINE r == [calls[c] EXCEPT !.at = "policy"]
  <2>1. r \in CallRecord /\ r.life = restarts /\ calls' = [calls EXCEPT ![c] = r]
    BY <1>1, <1>4 DEF TypeOK, CallSound, WellFormed, CallRecord, Place, Alive, Evaluating
  <2>2. Moves(c, r) /\ UNCHANGED <<entries, approvals, clock>>
    BY <1>1, <1>2, <2>1 DEF Moves, RiskEvaluated, TypeOK
  <2>3. calls'[c] = r
    BY <1>1, <2>1 DEF TypeOK
  <2>4. CallSound(c)'
    BY <1>1, <2>2, <2>3 DEF RiskEvaluated, CallSound, WellFormed, OnRecord, HasEntry, HasRequest,
      Moves, Reserves, Evaluated, Alive, Evaluating, EvaluationOf, RequestOf, TypeOK, CallRecord
  <2>. QED
    BY <1>1, <2>2, <2>3, <2>4, MoveInv DEF Reserves, Requests, Evaluating, TypeOK, CallRecord
<1>. QED  BY <1>3, <1>4 DEF RiskEvaluated

LEMMA PolicyEvaluatedInv ==
  ASSUME Inv, NEW c \in Call, PolicyEvaluated(c)
  PROVE  Inv'
<1>1. TypeOK /\ CallSound(c) /\ calls[c].at = "policy"
  BY DEF Inv, PolicyEvaluated
<1>2. Event("policy.evaluated", c, Null) \in [kind : EventKind, call : Call, decision : Decision \cup {Null}]
  BY EventType DEF EventKind
<1>3. PICK outcome \in {"allow", "deny", "needs_human"} :
        Decides(c, outcome, IF outcome = "needs_human" /\ ~calls[c].dryRun THEN "approving" ELSE "finishing")
  BY DEF PolicyEvaluated
<1>4. /\ Verdict(outcome, c) \in Decision /\ Verdict(outcome, c).outcome = outcome
      /\ Verdict(outcome, c).by = c /\ Verdict(outcome, c).approval = Null
  BY VerdictFacts DEF Outcome
<1>5. trail' = trail \cup {Event("policy.evaluated", c, Null)} /\ UNCHANGED <<entries, approvals, clock, restarts, orphans>>
  BY DEF PolicyEvaluated
<1>6. EvaluationOf(Verdict(outcome, c))' /\ Evaluated(Verdict(outcome, c))
  BY <1>1, <1>4, <1>5 DEF EvaluationOf, Evaluated, CallSound, OnRecord, Evaluating
<1>. QED  BY <1>1, <1>2, <1>3, <1>4, <1>5, <1>6, DecideInv DEF TypeOK

LEMMA RefuseInv ==
  ASSUME Inv, NEW c \in Call, NEW i \in Intent, NEW dry \in BOOLEAN, Refuse(c, i, dry)
  PROVE  Inv'
<1>. DEFINE r == [at |-> "replying", intent |-> i, dryRun |-> dry, decision |-> Verdict("invalid", c), life |-> restarts]
<1>1. TypeOK /\ CallSound(c) /\ calls[c].at = "idle" /\ calls' = [calls EXCEPT ![c] = r]
  BY DEF Inv, Refuse, Receives, Starts
<1>2. /\ Verdict("invalid", c) \in Decision /\ Verdict("invalid", c).outcome = "invalid"
      /\ Verdict("invalid", c).by = c /\ Verdict("invalid", c).approval = Null
  BY VerdictFacts DEF Outcome
<1>3. r \in CallRecord
  BY <1>1, <1>2 DEF TypeOK, CallRecord, Place, Synchronous, Ended
<1>4. trail \subseteq trail' /\ UNCHANGED <<entries, restarts, orphans, approvals, clock>>
      /\ trail' \subseteq [kind : EventKind, call : Call, decision : Decision \cup {Null}]
  BY <1>1, <1>2, EventType DEF Refuse, Receives, WriteFails, EventKind, TypeOK
<1>5. calls'[c] = r /\ Moves(c, r)
  BY <1>1, <1>3, <1>4 DEF TypeOK, Moves
<1>6. CallSound(c)'
  BY <1>1, <1>2, <1>4, <1>5 DEF CallSound, WellFormed, OnRecord, HasEntry, HasRequest,
    Reserves, Evaluated, Alive, Evaluating, EvaluationOf, RequestOf, TypeOK
<1>. QED
  BY <1>1, <1>2, <1>4, <1>5, <1>6, MoveInv DEF Reserves, Requests, Evaluating

LEMMA ReceiveFailsInv ==
  ASSUME Inv, NEW c \in Call, NEW i \in Intent, NEW dry \in BOOLEAN, ReceiveFails(c, i, dry)
  PROVE  Inv'
<1>. DEFINE r == [at |-> "failed", intent |-> i, dryRun |-> dry, decision |-> Null, life |-> restarts]
<1>1. TypeOK /\ CallSound(c) /\ calls[c].at = "idle" /\ calls' = [calls EXCEPT ![c] = r]
  BY DEF Inv, ReceiveFails, Receives, Starts
<1>2. Null \notin Approval /\ "intent.received" \in EventKind
  BY DEF EventKind
<1>3. r \in CallRecord
  BY <1>1, <1>2 DEF TypeOK, CallRecord, Place, Synchronous, Ended
<1>4. trail \subseteq trail' /\ UNCHANGED <<entries, restarts, orphans, approvals, clock>>
      /\ trail' \subseteq [kind : EventKind, call : Call, decision : Decision \cup {Null}]
  BY <1>1, <1>2, EventType DEF ReceiveFails, Receives, WriteFails, EventKind, TypeOK
<1>5. calls'[c] = r /\ Moves(c, r)
  BY <1>1, <1>3, <1>4 DEF TypeOK, Moves
<1>6. CallSound(c)'
  BY <1>1, <1>2, <1>4, <1>5 DEF CallSound, WellFormed, OnRecord, HasEntry, HasRequest,
    Reserves, Evaluated, Alive, Evaluating, EvaluationOf, RequestOf, TypeOK
<1>. QED
  BY <1>1, <1>2, <1>4, <1>5, <1>6, MoveInv DEF Reserves, Requests, Evaluating

LEMMA ConflictInv ==
  ASSUME Inv, NEW c \in Call, NEW i \in Intent, Conflict(c, i)
  PROVE  Inv'
<1>. DEFINE r == [at |-> "replying", intent |-> i, dryRun |-> FALSE, decision |-> Verdict("conflict", c), life |-> restarts]
<1>1. TypeOK /\ CallSound(c) /\ calls[c].at = "idle" /\ calls' = [calls EXCEPT ![c] = r]
  BY DEF Inv, Conflict, Receives, Starts
<1>2. /\ Verdict("conflict", c) \in Decision /\ Verdict("conflict", c).outcome = "conflict"
      /\ Verdict("conflict", c).by = c /\ Verdict("conflict", c).approval = Null
  BY VerdictFacts DEF Outcome
<1>3. r \in CallRecord
  BY <1>1, <1>2 DEF TypeOK, CallRecord, Place, Synchronous, Ended
<1>4. trail \subseteq trail' /\ UNCHANGED <<entries, restarts, orphans, approvals, clock>>
      /\ trail' \subseteq [kind : EventKind, call : Call, decision : Decision \cup {Null}]
  BY <1>1, <1>2, EventType DEF Conflict, Receives, WriteFails, EventKind, TypeOK
<1>5. calls'[c] = r /\ Moves(c, r)
  BY <1>1, <1>3, <1>4 DEF TypeOK, Moves
<1>6. CallSound(c)'
  BY <1>1, <1>2, <1>4, <1>5 DEF CallSound, WellFormed, OnRecord, HasEntry, HasRequest,
    Reserves, Evaluated, Alive, Evaluating, EvaluationOf, RequestOf, TypeOK
<1>. QED
  BY <1>1, <1>2, <1>4, <1>5, <1>6, MoveInv DEF Reserves, Requests, Evaluating

LEMMA EntryFields ==
  ASSUME TypeOK, NEW s \in Scope
  PROVE  /\ entries[s].status = "complete" =>
              /\ entries[s].decision \in Decision
              /\ entries[s] = [status |-> "complete", intent |-> entries[s].intent,
                              decision |-> entries[s].decision]
         /\ entries[s].status # "free" => entries[s].intent \in Intent
BY DEF TypeOK, Entry, Free

LEMMA WaitInv ==
  ASSUME Inv, NEW c \in Call, NEW i \in Intent, Wait(c, i)
  PROVE  Inv'
<1>. DEFINE r == [at |-> "waiting", intent |-> i, dryRun |-> FALSE, decision |-> Null, life |-> restarts]
<1>1. TypeOK /\ CallSound(c) /\ calls[c].at = "idle" /\ calls' = [calls EXCEPT ![c] = r]
  BY DEF Inv, Wait, Receives, Starts
<1>2. Null \notin Approval /\ entries[ScopeOf[i]].status = "pending" /\ entries[ScopeOf[i]].intent = i
  BY DEF Wait
<1>3. r \in CallRecord
  BY <1>1, <1>2 DEF TypeOK, CallRecord, Place, Synchronous, Ended
<1>4. trail \subseteq trail' /\ UNCHANGED <<entries, restarts, orphans, approvals, clock>>
      /\ trail' \subseteq [kind : EventKind, call : Call, decision : Decision \cup {Null}]
  BY <1>1, <1>2, EventType DEF Wait, Receives, WriteFails, EventKind, TypeOK
<1>5. calls'[c] = r /\ Moves(c, r)
  BY <1>1, <1>3, <1>4 DEF TypeOK, Moves
<1>6. CallSound(c)'
  BY <1>1, <1>2, <1>4, <1>5 DEF CallSound, WellFormed, OnRecord, HasEntry, HasRequest,
    Reserves, Evaluated, Alive, Evaluating, EvaluationOf, RequestOf, TypeOK
<1>. QED
  BY <1>1, <1>2, <1>4, <1>5, <1>6, MoveInv DEF Reserves, Requests, Evaluating

LEMMA ReplayInv ==
  ASSUME Inv, NEW c \in Call, NEW i \in Intent, Replay(c, i)
  PROVE  Inv'
<1>. DEFINE s == ScopeOf[i]
<1>. DEFINE d == entries[s].decision
<1>. DEFINE r == [at |-> "replying", intent |-> i, dryRun |-> FALSE, decision |-> d, life |-> restarts]
<1>1. TypeOK /\ CallSound(c) /\ calls[c].at = "idle" /\ calls' = [calls EXCEPT ![c] = r]
      /\ entries[s].status = "complete" /\ entries[s].intent = i /\ s \in Scope
  BY DEF Inv, Replay, Receives, Starts
<1>2. d \in Decision /\ entries[s] = [status |-> "complete", intent |-> i, decision |-> d]
  BY <1>1, EntryFields
<1>3. /\ Evaluated(d) /\ EvaluationOf(d) /\ RequestOf(d)
      /\ d.approval # Null => d.outcome = "needs_human"
      /\ \A a \in Approval : d.approval = a => Stored(a)
  BY <1>1 DEF Inv, EntrySound
<1>. HIDE DEF d
<1>4. r \in CallRecord
  BY <1>1, <1>2 DEF TypeOK, CallRecord, Place, Synchronous
<1>5. trail \subseteq trail' /\ UNCHANGED <<entries, restarts, orphans, approvals, clock>>
      /\ trail' \subseteq [kind : EventKind, call : Call, decision : Decision \cup {Null}]
  BY <1>1, EventType DEF Replay, Receives, EventKind, TypeOK
<1>6. calls'[c] = r /\ Moves(c, r)
  BY <1>1, <1>4, <1>5 DEF TypeOK, Moves
<1>7. WellFormed(c)'
  BY <1>1, <1>2, <1>3, <1>5, <1>6 DEF WellFormed, Evaluated, TypeOK
<1>8. OnRecord(c)' /\ HasRequest(c)'
  BY <1>3, <1>5, <1>6 DEF OnRecord, HasRequest, EvaluationOf, RequestOf, Evaluating, Stored
<1>9. HasEntry(c)'
  BY <1>1, <1>2, <1>5, <1>6 DEF HasEntry, Reserves, Evaluating
<1>10. \A k \in Call, a \in Approval : Requests(k, a) => d.approval # a
  BY <1>1 DEF Inv, RequestedByOne, d
<1>. QED
  BY <1>1, <1>5, <1>6, <1>7, <1>8, <1>9, <1>10, MoveInv DEF CallSound, Reserves, Requests, Evaluating

\* A call reserves a free scope, which nobody waits for or answers from.
LEMMA BeginInv ==
  ASSUME Inv, NEW c \in Call, NEW i \in Intent, NEW dry \in BOOLEAN, Begin(c, i, dry)
  PROVE  Inv'
<1>. DEFINE s == ScopeOf[i]
<1>1. /\ TypeOK /\ CallSound(c) /\ calls[c].at = "idle" /\ s \in Scope
      /\ trail' = trail \cup {Event("intent.received", c, Null)}
      /\ UNCHANGED <<restarts, orphans, approvals, clock>>
      /\ dry \/ entries[s].status = "free"
      /\ IF dry THEN UNCHANGED entries ELSE Reserve(i)
  BY DEF Inv, Begin, Receives
<1>2. /\ Verdict("deny", c) \in Decision /\ Verdict("deny", c).outcome = "deny"
      /\ Verdict("deny", c).by = c /\ Verdict("deny", c).approval = Null
  BY VerdictFacts DEF Outcome
<1>3. PICK place \in {"finishing", "health"}, d \in {Null, Verdict("deny", c)} :
        /\ calls' = [calls EXCEPT ![c] = [at |-> place, intent |-> i, dryRun |-> dry,
                                          decision |-> d, life |-> restarts]]
        /\ place = "finishing" => d = Verdict("deny", c)
        /\ place = "health" => d = Null
  BY DEF Begin, Starts
<1>. DEFINE r == [at |-> place, intent |-> i, dryRun |-> dry, decision |-> d, life |-> restarts]
<1>4. r \in CallRecord /\ calls'[c] = r /\ \A k \in Call \ {c} : calls'[k] = calls[k]
  BY <1>1, <1>2, <1>3 DEF TypeOK, CallRecord, Place, Synchronous
<1>5. /\ trail \subseteq trail'
      /\ trail' \subseteq [kind : EventKind, call : Call, decision : Decision \cup {Null}]
      /\ Event("intent.received", c, Null) \in trail'
  BY <1>1, EventType DEF EventKind, TypeOK
<1>6. WellFormed(c)' /\ HasRequest(c)'
  BY <1>1, <1>2, <1>3, <1>4 DEF WellFormed, HasRequest, Alive, Evaluating, Evaluated, TypeOK
<1>7. OnRecord(c)'
  BY <1>1, <1>2, <1>3, <1>4, <1>5 DEF OnRecord, EvaluationOf, RequestOf, Evaluating
<1>8. CASE dry
  <2>1. Moves(c, r) /\ UNCHANGED <<entries, approvals, clock>>
    BY <1>1, <1>3, <1>4, <1>5, <1>8 DEF Moves
  <2>2. HasEntry(c)'
    BY <1>3, <1>4, <1>8 DEF HasEntry, Reserves, Evaluating
  <2>3. r.at \in Evaluating /\ ~r.dryRun <=> Reserves(c)
    BY <1>1, <1>8 DEF Reserves, Evaluating
  <2>4. \A a \in Approval : Requests(c, a) <=> r.at \in {"requesting", "finishing"} /\ r.decision.approval = a
    BY <1>1, <1>2, <1>3 DEF Requests
  <2>5. \A k \in Call \ {c}, a \in Approval :
          Requests(k, a) /\ r.at \in Settled \cup Deciding => r.decision.approval # a
    BY <1>1, <1>2, <1>3
  <2>. QED
    BY <1>1, <1>6, <1>7, <2>1, <2>2, <2>3, <2>4, <2>5, MoveInv DEF CallSound, Reserves, Evaluating
<1>9. CASE ~dry
  <2>. DEFINE entry == [status |-> "pending", intent |-> i, decision |-> Null]
  <2>1. entries[s].status = "free" /\ entries' = [entries EXCEPT ![s] = entry]
    BY <1>1, <1>9 DEF Reserve
  <2>2. entries'[s] = entry /\ \A t \in Scope \ {s} : entries'[t] = entries[t]
    BY <1>1, <2>1 DEF TypeOK
  <2>3. TypeOK'
    <3>1. entry \in Entry
      BY DEF Entry
    <3>. QED  BY <1>1, <1>3, <1>4, <1>5, <2>1, <3>1 DEF TypeOK, ApprovalTypeOK
  <2>4. HasEntry(c)'
    BY <1>3, <1>4, <2>2 DEF HasEntry, Reserves, Evaluating
  <2>5. ASSUME NEW k \in Call \ {c} PROVE CallSound(k)'
    <3>1. CASE calls[k].at # "idle" /\ ScopeOf[calls[k].intent] = s
      <4>1. CallSound(k)
        BY DEF Inv
      <4>2. WellFormed(k)' /\ HasRequest(k)'
        BY <1>1, <1>4, <4>1 DEF CallSound, WellFormed, HasRequest, Stored, Evaluated
      <4>3. OnRecord(k)'
        BY <1>4, <1>5, <4>1 DEF CallSound, OnRecord, EvaluationOf, RequestOf, FinalEvent, Correlation
      <4>4. HasEntry(k)'
        BY <1>1, <1>4, <2>1, <3>1, <4>1 DEF CallSound, HasEntry, Reserves, Evaluating, Evaluated
      <4>. QED  BY <4>2, <4>3, <4>4 DEF CallSound
    <3>2. CASE ~(calls[k].at # "idle" /\ ScopeOf[calls[k].intent] = s)
      <4>1. calls[k].at # "idle" => ScopeOf[calls[k].intent] \in Scope \ {s}
        BY <3>2 DEF Inv, CallSound, WellFormed
      <4>. QED  BY <1>1, <1>4, <1>5, <2>2, <4>1, Frame DEF Stored
    <3>. QED  BY <3>1, <3>2
  <2>6. \A t \in Scope : EntrySound(t)'
    <3>1. EntrySound(s)'
      BY <2>2 DEF EntrySound
    <3>2. ASSUME NEW t \in Scope \ {s} PROVE EntrySound(t)'
      BY <1>1, <1>5, <2>2, FrameEntry DEF Stored
    <3>. QED  BY <3>1, <3>2
  <2>7. ReservedByOne'
    <3>1. \A k \in Call : Reserves(k) => ScopeOf[calls[k].intent] # s
      BY <2>1 DEF Inv, CallSound, HasEntry
    <3>2. \A k \in Call \ {c} : Reserves(k)' <=> Reserves(k)
      BY <1>4 DEF Reserves
    <3>3. Reserves(c)' /\ ~Reserves(c)
      BY <1>1, <1>3, <1>4, <1>9 DEF Reserves, Evaluating
    <3>. HIDE DEF entry, r
    <3>4. \A k, m \in Call : Reserves(k)' /\ Reserves(m)' /\ ScopeOf[calls'[k].intent] = ScopeOf[calls'[m].intent]
                            => k = m
      BY <1>4, <3>1, <3>2 DEF Inv, ReservedByOne, r
    <3>5. ASSUME NEW t \in Scope, entries'[t].status = "pending"
          PROVE  \E k \in Call : Reserves(k)' /\ calls'[k].intent = entries'[t].intent
                                /\ ScopeOf[calls'[k].intent] = t
      <4>1. CASE t = s
        BY <1>4, <2>2, <3>3, <4>1 DEF entry, r
      <4>2. CASE t # s
        <5>1. PICK k \in Call : Reserves(k) /\ calls[k].intent = entries[t].intent /\ ScopeOf[calls[k].intent] = t
          BY <2>2, <3>5, <4>2 DEF Inv, ReservedByOne
        <5>. QED  BY <1>4, <2>2, <3>2, <3>3, <4>2, <5>1
      <4>. QED  BY <4>1, <4>2
    <3>. QED  BY <3>4, <3>5 DEF ReservedByOne
  <2>8. RequestedByOne'
    <3>1. \A a \in Approval : ~Requests(c, a)' /\ (calls'[c].at \in Settled \cup Deciding => calls'[c].decision.approval # a)
      BY <1>2, <1>3, <1>4 DEF Requests
    <3>2. \A k \in Call \ {c}, a \in Approval : Requests(k, a)' <=> Requests(k, a)
      BY <1>4 DEF Requests
    <3>3. \A t \in Scope : entries'[t].status = "complete" => entries'[t] = entries[t]
      BY <2>2
    <3>. QED  BY <1>4, <3>1, <3>2, <3>3 DEF Inv, RequestedByOne
  <2>9. OneDecisionPerScope'
    BY <1>3, <1>4 DEF Inv, OneDecisionPerScope, Evaluated
  <2>10. RequestsAreAnswered'
    BY <1>1, <1>3, <1>4 DEF Inv, RequestsAreAnswered, Requests, FinalEvent, Correlation, Stored
  <2>. QED
    BY <1>6, <1>7, <2>3, <2>4, <2>5, <2>6, <2>7, <2>8, <2>9, <2>10 DEF Inv, CallSound
<1>. QED  BY <1>8, <1>9

\* A request is created: nobody names it yet.
LEMMA CreateApprovalInv ==
  ASSUME Inv, NEW c \in Call, NEW a \in Approval, CreateApproval(c, a)
  PROVE  Inv'
<1>. DEFINE d == [calls[c].decision EXCEPT !.approval = a]
<1>. DEFINE r == [calls[c] EXCEPT !.at = "requesting", !.decision = d]
<1>1. /\ TypeOK /\ CallSound(c) /\ calls[c].at = "approving"
      /\ approvals[a] = "absent" /\ approvals' = [approvals EXCEPT ![a] = "pending"]
      /\ UNCHANGED <<entries, trail, restarts, orphans, clock>>
  BY DEF Inv, CreateApproval, Create, Change
<1>2. calls[c] \in CallRecord /\ calls[c].decision \in Decision /\ ~calls[c].dryRun
      /\ calls[c].decision.outcome = "needs_human" /\ calls[c].decision.by = c
  BY <1>1 DEF TypeOK, CallSound, WellFormed
<1>3. d \in Decision /\ d.approval = a /\ d.outcome = "needs_human" /\ d.by = c
  BY <1>2 DEF Decision
<1>4. calls' = [calls EXCEPT ![c] = r]
  BY DEF CreateApproval
<1>5. r \in CallRecord /\ r.at = "requesting" /\ r.decision = d /\ r.intent = calls[c].intent
      /\ r.dryRun = calls[c].dryRun /\ r.life = calls[c].life
  BY <1>2, <1>3 DEF CallRecord, Place, Synchronous
<1>. HIDE DEF r, d
<1>6. calls'[c] = r /\ \A k \in Call \ {c} : calls'[k] = calls[k]
  BY <1>1, <1>4 DEF TypeOK
<1>7. /\ \A b \in Approval : Stored(b) => Stored(b)'
      /\ Stored(a)' /\ \A b \in Approval : Stored(b)' => b = a \/ Stored(b)
  BY <1>1 DEF TypeOK, ApprovalTypeOK, Stored
<1>8. TypeOK'
  BY <1>1, <1>4, <1>5 DEF TypeOK, ApprovalTypeOK, ApprovalState
<1>9. CallSound(c)'
  <2>1. WellFormed(c)'
    BY <1>1, <1>2, <1>3, <1>5, <1>6 DEF CallSound, WellFormed, Alive, Evaluating, Evaluated
  <2>2. OnRecord(c)'
    BY <1>1, <1>2, <1>3, <1>5, <1>6 DEF CallSound, OnRecord, EvaluationOf, Evaluating
  <2>3. HasEntry(c)' /\ HasRequest(c)'
    BY <1>1, <1>2, <1>3, <1>5, <1>6, <1>7 DEF CallSound, HasEntry, HasRequest, Reserves, Evaluating
  <2>. QED  BY <2>1, <2>2, <2>3 DEF CallSound
<1>10. \A k \in Call \ {c} : CallSound(k)'
  BY <1>1, <1>6, <1>7, Frame
<1>11. \A s \in Scope : EntrySound(s)'
  BY <1>1, <1>7, FrameEntry
<1>12. ReservedByOne'
  BY <1>1, <1>5, <1>6 DEF Inv, ReservedByOne, Reserves, Evaluating
<1>13. /\ \A k \in Call : calls[k].at \in Settled \cup Deciding => calls[k].decision.approval # a
       /\ \A s \in Scope : entries[s].status = "complete" => entries[s].decision.approval # a
  BY <1>1 DEF Inv, CallSound, HasRequest, EntrySound, Stored
<1>14. RequestedByOne'
  <2>1. \A k \in Call \ {c}, b \in Approval : Requests(k, b)' <=> Requests(k, b)
    BY <1>6 DEF Requests
  <2>2. \A b \in Approval : Requests(c, b)' <=> b = a
    BY <1>3, <1>5, <1>6 DEF Requests
  <2>3. \A k \in Call \ {c}, b \in Approval : Requests(k, b) => b # a
    BY <1>13 DEF Requests
  <2>. QED  BY <1>1, <1>3, <1>5, <1>6, <1>13, <2>1, <2>2, <2>3 DEF Inv, RequestedByOne
<1>15. OneDecisionPerScope'
  BY <1>5, <1>6 DEF Inv, OneDecisionPerScope, Evaluated
<1>16. RequestsAreAnswered'
  <2>1. Requests(c, a)'
    BY <1>3, <1>5, <1>6 DEF Requests
  <2>2. ASSUME NEW b \in Approval, Stored(b), b # a
        PROVE  (b \in orphans \/ \E k \in Call :
                  \/ Requests(k, b)
                  \/ calls[k].at = "answered" /\ calls[k].decision.approval = b
                     /\ FinalEvent(k, calls[k].decision) \in trail)'
    <3>1. ASSUME NEW k \in Call, Requests(k, b) PROVE k # c /\ Requests(k, b)'
      BY <1>1, <1>6, <2>2, <3>1 DEF Requests
    <3>2. ASSUME NEW k \in Call, calls[k].at = "answered" PROVE k # c
      BY <1>1, <3>2
    <3>. QED  BY <1>1, <1>6, <2>2, <3>1, <3>2 DEF Inv, RequestsAreAnswered, FinalEvent, Correlation
  <2>. QED  BY <1>7, <2>1, <2>2 DEF RequestsAreAnswered
<1>. QED
  BY <1>8, <1>9, <1>10, <1>11, <1>12, <1>14, <1>15, <1>16 DEF Inv


\* The request is on record, its decision is not yet.
LEMMA RequestRecordedInv ==
  ASSUME Inv, NEW c \in Call, RequestRecorded(c)
  PROVE  Inv'
<1>. DEFINE d == calls[c].decision
<1>. DEFINE r == [calls[c] EXCEPT !.at = "finishing"]
<1>1. /\ TypeOK /\ CallSound(c) /\ calls[c].at = "requesting" /\ d \in Decision
      /\ trail' = trail \cup {Event("approval.requested", c, d)}
      /\ UNCHANGED <<entries, restarts, orphans, approvals, clock>>
  BY DEF Inv, RequestRecorded, CallSound, WellFormed
<1>2. Event("approval.requested", c, d) \in [kind : EventKind, call : Call, decision : Decision \cup {Null}]
  BY <1>1, EventType DEF EventKind
<1>3. calls[c] \in CallRecord /\ calls[c].life = restarts /\ ~calls[c].dryRun
      /\ d.by = c /\ d.outcome = "needs_human" /\ d.approval # Null
  BY <1>1 DEF TypeOK, CallSound, WellFormed, Alive, Evaluating
<1>4. r \in CallRecord /\ r.at = "finishing" /\ r.decision = d /\ r.intent = calls[c].intent
      /\ ~r.dryRun /\ r.life = restarts
  BY <1>3 DEF CallRecord, Place, Synchronous
<1>5. calls' = [calls EXCEPT ![c] = r]
  BY DEF RequestRecorded
<1>. HIDE DEF r
<1>6. calls'[c] = r
  BY <1>1, <1>5 DEF TypeOK
<1>7. Moves(c, r)
  BY <1>1, <1>2, <1>4, <1>5 DEF Moves, TypeOK
<1>8. WellFormed(c)'
  BY <1>1, <1>3, <1>4, <1>6 DEF CallSound, WellFormed, Evaluated
<1>9. OnRecord(c)'
  BY <1>1, <1>3, <1>4, <1>6 DEF CallSound, OnRecord, EvaluationOf, RequestOf, Evaluating
<1>10. HasEntry(c)' /\ HasRequest(c)'
  BY <1>1, <1>3, <1>4, <1>6 DEF CallSound, HasEntry, HasRequest, Reserves, Evaluating, Stored
<1>11. \A k \in Call \ {c}, a \in Approval : Requests(k, a) => d.approval # a
  BY <1>1 DEF Inv, RequestedByOne
<1>12. /\ \A a \in Approval : Requests(c, a) <=> d.approval = a
       /\ Reserves(c) /\ r.at \in Evaluating /\ calls[c].at # "answered"
  BY <1>1, <1>3, <1>4 DEF Requests, Reserves, Evaluating
<1>. QED
  BY <1>1, <1>4, <1>7, <1>8, <1>9, <1>10, <1>11, <1>12, MoveInv DEF CallSound

\* A decision is answered once its event is written.
LEMMA ReplyInv ==
  ASSUME Inv, NEW c \in Call, Reply(c) \/ ReplyFails(c)
  PROVE  Inv'
<1>1. PICK place \in {"answered", "failed"} :
        /\ calls' = [calls EXCEPT ![c].at = place]
        /\ place = "answered" => FinalEvent(c, calls[c].decision) \in trail'
        /\ trail' \in {trail, trail \cup {FinalEvent(c, calls[c].decision)}}
        /\ UNCHANGED <<entries, restarts, orphans, approvals, clock>>
        /\ calls[c].at \in {"replying", "resolved"}
  BY DEF Reply, ReplyFails, Replying, WriteFails
<1>. DEFINE d == calls[c].decision
<1>. DEFINE r == [calls[c] EXCEPT !.at = place]
<1>2. TypeOK /\ CallSound(c) /\ d \in Decision /\ calls[c] \in CallRecord /\ calls[c].life = restarts
  BY <1>1 DEF Inv, CallSound, WellFormed, TypeOK, Alive
<1>3. r \in CallRecord /\ r.at = place /\ r.decision = d /\ r.intent = calls[c].intent
      /\ r.dryRun = calls[c].dryRun /\ r.life = restarts
  BY <1>2 DEF CallRecord, Place, Ended
<1>4. calls' = [calls EXCEPT ![c] = r]
  BY <1>1
<1>5. FinalEvent(c, d) \in [kind : EventKind, call : Call, decision : Decision \cup {Null}]
  BY <1>2 DEF FinalEvent, Correlation, Event, EventKind, Decision
<1>. HIDE DEF r
<1>6. calls'[c] = r
  BY <1>2, <1>4 DEF TypeOK
<1>7. Moves(c, r)
  BY <1>1, <1>2, <1>3, <1>4, <1>5 DEF Moves, TypeOK
<1>8. WellFormed(c)'
  BY <1>1, <1>2, <1>3, <1>6 DEF CallSound, WellFormed, Alive, Evaluating, Evaluated
<1>9. OnRecord(c)'
  <2>1. place = "answered" => FinalEvent(c, calls[c].decision)' \in trail'
    BY <1>1, <1>3, <1>6 DEF FinalEvent, Correlation
  <2>2. EvaluationOf(d)' /\ (~calls[c].dryRun => RequestOf(d)')
    BY <1>1, <1>2 DEF CallSound, OnRecord, EvaluationOf, RequestOf
  <2>. QED
    BY <1>1, <1>3, <1>6, <2>1, <2>2 DEF OnRecord, Evaluating
<1>10. HasRequest(c)'
  BY <1>1, <1>2, <1>3, <1>6 DEF CallSound, HasRequest, Stored
<1>11. HasEntry(c)'
  BY <1>1, <1>2, <1>3, <1>6 DEF CallSound, HasEntry, Reserves, Evaluating, Evaluated
<1>12. \A k \in Call \ {c}, a \in Approval : Requests(k, a) => d.approval # a
  BY <1>1 DEF Inv, RequestedByOne
<1>13. /\ \A a \in Approval : ~Requests(c, a) /\ r.at \notin {"requesting", "finishing"}
       /\ ~Reserves(c) /\ r.at \notin Evaluating /\ calls[c].at # "answered"
  BY <1>1, <1>3 DEF Requests, Reserves, Evaluating
<1>. QED
  BY <1>1, <1>3, <1>7, <1>8, <1>9, <1>10, <1>11, <1>12, <1>13, MoveInv DEF CallSound

\* Humans and clocks change what a request says, never whether it is there.
LEMMA HumanInv ==
  ASSUME Inv, NEW a \in Approval, HumanStep(a)
  PROVE  Inv'
<1>1. /\ TypeOK /\ UNCHANGED <<entries, calls, trail, restarts, orphans>>
  BY DEF Inv, HumanStep
<1>2. ApprovalTypeOK' /\ \A b \in Approval : Stored(b)' <=> Stored(b)
  <2>1. CASE Tick(a)
    BY <1>1, <2>1 DEF Tick, TypeOK, ApprovalTypeOK, ClockReading, Stored
  <2>2. CASE Approve(a) \/ Deny(a) \/ TimeOut(a)
    BY <1>1, <2>2 DEF Approve, Deny, TimeOut, Change, TypeOK, ApprovalTypeOK, ApprovalState, Stored
  <2>. QED  BY <2>1, <2>2 DEF HumanStep
<1>3. TypeOK'
  BY <1>1, <1>2 DEF TypeOK
<1>4. \A c \in Call : CallSound(c)'
  BY <1>1, <1>2, Frame
<1>5. \A s \in Scope : EntrySound(s)'
  BY <1>1, <1>2, FrameEntry
<1>6. ReservedByOne' /\ RequestedByOne' /\ OneDecisionPerScope'
  BY <1>1 DEF Inv, ReservedByOne, Reserves, RequestedByOne, Requests, OneDecisionPerScope, Evaluated
<1>7. RequestsAreAnswered'
  BY <1>1, <1>2 DEF Inv, RequestsAreAnswered, Requests, FinalEvent, Correlation
<1>. QED  BY <1>3, <1>4, <1>5, <1>6, <1>7 DEF Inv

\* A restart loses the entries and the calls in progress, and strands the
\* requests they had created.
LEMMA RestartInv ==
  ASSUME Inv, Restart
  PROVE  Inv'
<1>1. /\ TypeOK /\ restarts < MaxRestarts /\ restarts' = restarts + 1 /\ restarts \in Nat
      /\ UNCHANGED <<trail, approvals, clock>>
      /\ \A s \in Scope : entries'[s] = Free
      /\ orphans' = orphans \cup {a \in Approval : \E c \in Call : Requests(c, a)}
  BY DEF Inv, Restart, TypeOK
<1>2. \A c \in Call : calls'[c] = IF calls[c].at = "idle" \/ calls[c].at \in Ended THEN calls[c]
                                  ELSE [calls[c] EXCEPT !.at = "lost"]
  BY DEF Restart
<1>3. \A c \in Call : calls[c] \in CallRecord
  BY <1>1 DEF TypeOK
<1>4. ASSUME NEW c \in Call
      PROVE  /\ calls'[c].at \in {"idle"} \cup Ended
             /\ calls'[c].at # "lost" => calls'[c] = calls[c]
             /\ calls'[c].life = calls[c].life /\ calls'[c].intent = calls[c].intent
             /\ calls'[c] \in CallRecord /\ (calls[c].at = "idle" <=> calls'[c].at = "idle")
             /\ calls[c].at = "answered" => calls'[c] = calls[c]
  <2>1. CASE calls[c].at = "idle" \/ calls[c].at \in Ended
    BY <1>2, <1>3, <2>1
  <2>2. CASE ~(calls[c].at = "idle" \/ calls[c].at \in Ended)
    <3>. DEFINE r == [calls[c] EXCEPT !.at = "lost"]
    <3>1. r \in CallRecord /\ r.at = "lost" /\ r.life = calls[c].life /\ r.intent = calls[c].intent
      BY <1>3 DEF CallRecord, Place, Ended
    <3>2. calls'[c] = r
      BY <1>2, <2>2
    <3>. HIDE DEF r
    <3>. QED  BY <2>2, <3>1, <3>2 DEF Ended
  <2>. QED  BY <2>1, <2>2
<1>5. TypeOK'
  <2>1. calls' \in [Call -> CallRecord]
    BY <1>4 DEF Restart
  <2>2. entries' \in [Scope -> Entry]
    BY DEF Restart, Entry
  <2>. QED  BY <1>1, <2>1, <2>2 DEF TypeOK, ApprovalTypeOK
<1>6. ASSUME NEW c \in Call PROVE CallSound(c)'
  <2>1. CallSound(c)
    BY DEF Inv
  <2>2. WellFormed(c)'
    BY <1>1, <1>3, <1>4, <2>1 DEF CallSound, WellFormed, Ended, Alive, Evaluating, CallRecord, Evaluated
  <2>3. OnRecord(c)' /\ HasRequest(c)'
    BY <1>1, <1>4, <2>1 DEF CallSound, OnRecord, HasRequest, Ended, Evaluating, EvaluationOf,
      RequestOf, FinalEvent, Correlation, Stored
  <2>4. calls'[c].life # restarts'
    BY <1>1, <1>3, <1>4, <2>1 DEF CallSound, WellFormed, CallRecord
  <2>5. HasEntry(c)'
    BY <1>4, <2>4 DEF HasEntry, Ended, Reserves, Evaluating
  <2>. QED  BY <2>2, <2>3, <2>5 DEF CallSound
<1>7. (\A s \in Scope : EntrySound(s)') /\ ReservedByOne' /\ RequestedByOne'
  BY <1>1, <1>4 DEF EntrySound, Free, ReservedByOne, RequestedByOne, Requests, Reserves, Evaluating, Ended
<1>8. OneDecisionPerScope'
  BY <1>4 DEF Inv, OneDecisionPerScope, Evaluated
<1>9. RequestsAreAnswered'
  BY <1>1, <1>4 DEF Inv, RequestsAreAnswered, FinalEvent, Correlation, Stored
<1>. QED  BY <1>5, <1>6, <1>7, <1>8, <1>9 DEF Inv

\* A request whose decision is not issued is gone, or known as left behind.
LEMMA TakeBackFacts ==
  ASSUME TypeOK, NEW c \in Call, calls[c].at \in {"requesting", "finishing"},
         calls[c].decision.approval \in Approval \cup {Null}, TakeBack(calls[c].decision.approval)
  PROVE  /\ ApprovalTypeOK' /\ orphans \subseteq orphans' /\ orphans' \subseteq Approval
         /\ \A a \in Approval : Stored(a) /\ ~Requests(c, a) => Stored(a)'
         /\ \A a \in Approval : Stored(a)' => Stored(a)
         /\ \A a \in Approval : Requests(c, a) => ~Stored(a)' \/ a \in orphans'
<1>1. CASE calls[c].decision.approval = Null /\ UNCHANGED <<orphans, approvalVars>>
  BY <1>1 DEF TypeOK, ApprovalTypeOK, Stored, Requests
<1>2. CASE Delete(calls[c].decision.approval) /\ UNCHANGED orphans
  BY <1>2 DEF Delete, Change, TypeOK, ApprovalTypeOK, ApprovalState, Stored, Requests
<1>3. CASE /\ calls[c].decision.approval # Null /\ UNCHANGED approvalVars
           /\ orphans' = orphans \cup {calls[c].decision.approval}
  <2>1. ApprovalTypeOK' /\ \A a \in Approval : Stored(a)' <=> Stored(a)
    BY <1>3 DEF TypeOK, ApprovalTypeOK, Stored
  <2>2. orphans \subseteq Approval
    BY DEF TypeOK
  <2>3. orphans \subseteq orphans' /\ orphans' \subseteq Approval
    BY <1>3, <2>2
  <2>. QED  BY <1>3, <2>1, <2>3 DEF Requests
<1>. QED  BY <1>1, <1>2, <1>3 DEF TakeBack

\* What an abort changes: its call, the calls that wait for it, its entry.
LEMMA AbortFacts ==
  ASSUME Inv, NEW c \in Call, calls[c].at \in Evaluating, AbortAndThrow(c)
  PROVE  /\ calls' \in [Call -> CallRecord] /\ entries' \in [Scope -> Entry]
         /\ calls'[c].at = "failed"
         /\ \A k \in Call :
              \/ /\ calls'[k] = calls[k] /\ k # c
                 /\ calls[k].at = "waiting" /\ Reserves(c) => ScopeOfCall(k) # ScopeOfCall(c)
              \/ /\ k = c \/ calls[k].at = "waiting"
                 /\ calls'[k].at = "failed"
                 /\ calls'[k].intent = calls[k].intent /\ calls'[k].life = calls[k].life
                 /\ calls[k].at # "idle"
         /\ \A s \in Scope :
              \/ entries'[s] = entries[s] /\ (Reserves(c) => s # ScopeOfCall(c))
              \/ /\ Reserves(c) /\ s = ScopeOfCall(c)
                 /\ entries[s].status = "pending" /\ entries'[s] = Free
<1>1. TypeOK /\ CallSound(c) /\ calls \in [Call -> CallRecord] /\ entries \in [Scope -> Entry]
      /\ calls[c].intent \in Intent /\ ScopeOfCall(c) \in Scope
  BY DEF Inv, TypeOK, CallSound, WellFormed, Evaluating
<1>. DEFINE failed(k) == [calls[k] EXCEPT !.at = "failed"]
<1>2. ASSUME NEW k \in Call
      PROVE  /\ failed(k) \in CallRecord /\ failed(k).at = "failed"
             /\ failed(k).intent = calls[k].intent /\ failed(k).life = calls[k].life
  BY <1>1 DEF CallRecord, Place, Ended
<1>3. Free \in Entry
  BY DEF Entry
<1>4. CASE Reserves(c)
  <2>1. Abortable(c)
    BY <1>1, <1>4 DEF Abortable, CallSound, HasEntry, Reserves
  <2>2. /\ entries' = [entries EXCEPT ![ScopeOfCall(c)] = Free]
        /\ calls' = [k \in Call |-> IF k = c \/ Waiting(k, ScopeOfCall(c)) THEN failed(k) ELSE calls[k]]
    BY <2>1 DEF AbortAndThrow
  <2>. HIDE DEF failed
  <2>3. \A k \in Call : calls'[k] = IF k = c \/ Waiting(k, ScopeOfCall(c)) THEN failed(k) ELSE calls[k]
    BY <2>2
  <2>4. calls' \in [Call -> CallRecord]
    BY <1>1, <1>2, <2>2
  <2>5. entries[ScopeOfCall(c)].status = "pending"
    BY <2>1 DEF Abortable
  <2>6. ASSUME NEW k \in Call
        PROVE  \/ /\ calls'[k] = calls[k] /\ k # c
                  /\ calls[k].at = "waiting" /\ Reserves(c) => ScopeOfCall(k) # ScopeOfCall(c)
               \/ /\ k = c \/ calls[k].at = "waiting"
                  /\ calls'[k].at = "failed"
                  /\ calls'[k].intent = calls[k].intent /\ calls'[k].life = calls[k].life
                  /\ calls[k].at # "idle"
    BY <1>2, <2>3 DEF Waiting, Evaluating
  <2>7. calls'[c].at = "failed"
    BY <1>2, <2>3
  <2>. QED
    BY <1>1, <1>3, <1>4, <2>2, <2>4, <2>5, <2>6, <2>7
<1>5. CASE ~Reserves(c)
  <2>1. calls' = [calls EXCEPT ![c] = failed(c)] /\ UNCHANGED entries
    BY <1>5 DEF AbortAndThrow, Abortable, Reserves
  <2>. HIDE DEF failed
  <2>. QED
    BY <1>1, <1>2, <1>5, <2>1 DEF Evaluating
<1>. QED  BY <1>4, <1>5

\* An evaluation that throws takes its reservation, its request and the calls
\* that wait for it with it, and nothing of anybody else.
LEMMA AbortInv ==
  ASSUME Inv, NEW c \in Call, calls[c].at \in Evaluating, AbortAndThrow(c),
         UNCHANGED restarts, trail \subseteq trail',
         trail' \subseteq [kind : EventKind, call : Call, decision : Decision \cup {Null}],
         ApprovalTypeOK', orphans \subseteq orphans', orphans' \subseteq Approval,
         \A a \in Approval : Stored(a) /\ ~Requests(c, a) => Stored(a)',
         \A a \in Approval : Stored(a)' => Stored(a),
         \A a \in Approval : Requests(c, a) => ~Stored(a)' \/ a \in orphans'
  PROVE  Inv'
<1>. DEFINE Stays(k) ==
       /\ calls'[k] = calls[k] /\ k # c
       /\ calls[k].at = "waiting" /\ Reserves(c) => ScopeOfCall(k) # ScopeOfCall(c)
<1>. DEFINE Fails(k) ==
       /\ k = c \/ calls[k].at = "waiting"
       /\ calls'[k].at = "failed"
       /\ calls'[k].intent = calls[k].intent /\ calls'[k].life = calls[k].life
       /\ calls[k].at # "idle"
<1>. DEFINE Kept(s) == entries'[s] = entries[s] /\ (Reserves(c) => s # ScopeOfCall(c))
<1>. DEFINE Freed(s) ==
       /\ Reserves(c) /\ s = ScopeOfCall(c)
       /\ entries[s].status = "pending" /\ entries'[s] = Free
<1>1. /\ calls' \in [Call -> CallRecord] /\ entries' \in [Scope -> Entry] /\ calls'[c].at = "failed"
      /\ \A k \in Call : Stays(k) \/ Fails(k)
      /\ \A s \in Scope : Kept(s) \/ Freed(s)
  BY AbortFacts
<1>2. TypeOK'
  BY <1>1 DEF Inv, TypeOK
<1>3. ASSUME NEW k \in Call PROVE CallSound(k)'
  <2>1. CASE Fails(k)
    BY <2>1 DEF Inv, CallSound, WellFormed, OnRecord, HasEntry, HasRequest, Reserves, Evaluating,
      Alive
  <2>2. CASE Stays(k)
    <3>1. CallSound(k) /\ calls'[k] = calls[k] /\ k # c
      BY <2>2 DEF Inv
    <3>2. WellFormed(k)'
      BY <3>1 DEF CallSound, WellFormed, Evaluated
    <3>3. OnRecord(k)'
      BY <3>1 DEF CallSound, OnRecord, EvaluationOf, RequestOf, FinalEvent, Correlation
    <3>4. HasRequest(k)'
      <4>1. ASSUME NEW a \in Approval, calls[k].at \in Settled \cup Deciding,
                   calls[k].decision.approval = a
            PROVE  Stored(a) /\ ~Requests(c, a)
        BY <3>1, <4>1 DEF Inv, RequestedByOne, CallSound, HasRequest
      <4>. QED  BY <3>1, <4>1 DEF HasRequest
    <3>5. HasEntry(k)'
      <4>1. CASE calls[k].at = "idle"
        BY <3>1, <4>1 DEF HasEntry, Reserves, Evaluating
      <4>2. CASE calls[k].at # "idle"
        <5>1. ScopeOfCall(k) \in Scope
          BY <3>1, <4>2 DEF CallSound, WellFormed
        <5>2. CASE Kept(ScopeOfCall(k))
          BY <3>1, <5>2 DEF CallSound, HasEntry, Reserves, Evaluated, Evaluating
        <5>3. CASE Freed(ScopeOfCall(k))
          <6>1. ~Reserves(k) /\ calls[k].at # "waiting"
            BY <2>2, <5>3 DEF Inv, ReservedByOne
          <6>2. ~(/\ calls[k].at \in Settled /\ ~calls[k].dryRun /\ Evaluated(calls[k].decision)
                  /\ calls[k].life = restarts)
            BY <3>1, <5>3 DEF CallSound, HasEntry
          <6>. QED  BY <3>1, <6>1, <6>2 DEF HasEntry, Reserves, Evaluated
        <5>. QED  BY <1>1, <5>1, <5>2, <5>3
      <4>. QED  BY <4>1, <4>2
    <3>. QED  BY <3>2, <3>3, <3>4, <3>5 DEF CallSound
  <2>. QED  BY <1>1, <2>1, <2>2
<1>4. ASSUME NEW s \in Scope PROVE EntrySound(s)'
  <2>1. CASE Freed(s)
    BY <2>1 DEF EntrySound, Free
  <2>2. CASE Kept(s)
    <3>1. \A a \in Approval : entries[s].status = "complete" /\ entries[s].decision.approval = a
                              => ~Requests(c, a)
      BY DEF Inv, RequestedByOne
    <3>. QED  BY <2>2, <3>1, FrameEntry
  <2>. QED  BY <1>1, <2>1, <2>2
<1>5. ReservedByOne'
  <2>1. \A k \in Call : Reserves(k)' => Stays(k) /\ Reserves(k)
    BY <1>1 DEF Reserves, Evaluating
  <2>2. ASSUME NEW s \in Scope, entries'[s].status = "pending"
        PROVE  \E k \in Call : /\ Reserves(k)' /\ calls'[k].intent = entries'[s].intent
                               /\ ScopeOf[calls'[k].intent] = s
    <3>1. Kept(s)
      BY <1>1, <2>2 DEF Free
    <3>2. PICK k \in Call : Reserves(k) /\ calls[k].intent = entries[s].intent /\ ScopeOfCall(k) = s
      BY <2>2, <3>1 DEF Inv, ReservedByOne
    <3>3. Stays(k)
      BY <1>1, <3>1, <3>2 DEF Reserves, Evaluating
    <3>. QED  BY <3>1, <3>2, <3>3 DEF Reserves
  <2>3. \A j, k \in Call :
          Reserves(j)' /\ Reserves(k)' /\ ScopeOf[calls'[j].intent] = ScopeOf[calls'[k].intent] => j = k
    BY <2>1 DEF Inv, ReservedByOne
  <2>. QED  BY <2>2, <2>3 DEF ReservedByOne
<1>6. RequestedByOne'
  <2>1. ASSUME NEW k \in Call, NEW a \in Approval, Requests(k, a)'
        PROVE  Stays(k) /\ Requests(k, a)
    BY <1>1, <2>1 DEF Requests
  <2>2. ASSUME NEW k \in Call, calls'[k].at \in Settled \cup Deciding PROVE calls'[k] = calls[k]
    BY <1>1, <2>2
  <2>3. ASSUME NEW s \in Scope, entries'[s].status = "complete" PROVE entries'[s] = entries[s]
    BY <1>1, <2>3 DEF Free
  <2>. QED  BY <2>1, <2>2, <2>3 DEF Inv, RequestedByOne
<1>7. \A k \in Call : calls'[k].at = "answered" <=> calls[k].at = "answered" /\ calls'[k] = calls[k]
  BY <1>1 DEF Evaluating
<1>8. OneDecisionPerScope'
  BY <1>7 DEF Inv, OneDecisionPerScope, Evaluated
<1>9. RequestsAreAnswered'
  <2>1. ASSUME NEW k \in Call, calls[k].at = "answered"
        PROVE  calls'[k] = calls[k]
    BY <1>1, <2>1 DEF Evaluating
  <2>2. ASSUME NEW k \in Call, NEW a \in Approval, Requests(k, a), k # c
        PROVE  Requests(k, a)'
    BY <1>1, <2>2 DEF Requests
  <2>. QED  BY <2>1, <2>2 DEF Inv, RequestsAreAnswered, FinalEvent, Correlation
<1>. QED  BY <1>2, <1>3, <1>4, <1>5, <1>6, <1>8, <1>9 DEF Inv

LEMMA StageFailsInv ==
  ASSUME Inv, NEW c \in Call, StageFails(c)
  PROVE  Inv'
<1>1. /\ calls[c].at \in {"review", "risk", "policy"} /\ AbortAndThrow(c)
      /\ UNCHANGED <<restarts, orphans, approvals, clock>>
      /\ trail' \in {trail, trail \cup {Event(StageEvent[calls[c].at], c, Null)}}
  BY DEF StageFails, StageEvent, WriteFails
<1>2. Event(StageEvent[calls[c].at], c, Null) \in
        [kind : EventKind, call : Call, decision : Decision \cup {Null}]
  <2>1. StageEvent[calls[c].at] \in EventKind
    BY <1>1 DEF StageEvent, EventKind
  <2>. QED  BY <2>1, EventType
<1>3. TypeOK /\ \A a \in Approval : ~Requests(c, a)
  BY <1>1 DEF Inv, Requests
<1>. QED
  BY <1>1, <1>2, <1>3, AbortInv DEF TypeOK, ApprovalTypeOK, Stored, Evaluating

LEMMA CreateFailsInv ==
  ASSUME Inv, NEW c \in Call, CreateFails(c)
  PROVE  Inv'
<1>1. TypeOK /\ \A a \in Approval : ~Requests(c, a)
  BY DEF Inv, Requests, CreateFails
<1>. QED
  BY <1>1, AbortInv DEF CreateFails, TypeOK, ApprovalTypeOK, Stored, Evaluating

LEMMA RequestFailsInv ==
  ASSUME Inv, NEW c \in Call, RequestFails(c) \/ FinishFails(c)
  PROVE  Inv'
<1>1. /\ TypeOK /\ calls[c].at \in {"requesting", "finishing"} /\ calls[c].decision \in Decision
      /\ AbortAndThrow(c) /\ TakeBack(calls[c].decision.approval) /\ UNCHANGED restarts
  BY DEF Inv, CallSound, WellFormed, RequestFails, FinishFails
<1>2. calls[c].decision.approval \in Approval \cup {Null} /\ calls[c].decision.by \in Call
  BY <1>1 DEF Decision
<1>3. /\ trail \subseteq trail'
      /\ trail' \subseteq [kind : EventKind, call : Call, decision : Decision \cup {Null}]
  <2>1. /\ Event("approval.requested", c, calls[c].decision) \in
             [kind : EventKind, call : Call, decision : Decision \cup {Null}]
        /\ FinalEvent(c, calls[c].decision) \in
             [kind : EventKind, call : Call, decision : Decision \cup {Null}]
    BY <1>1, <1>2, EventType DEF FinalEvent, Correlation, EventKind
  <2>. QED  BY <1>1, <2>1 DEF RequestFails, FinishFails, WriteFails, TypeOK
<1>4. /\ ApprovalTypeOK' /\ orphans \subseteq orphans' /\ orphans' \subseteq Approval
      /\ \A a \in Approval : Stored(a) /\ ~Requests(c, a) => Stored(a)'
      /\ \A a \in Approval : Stored(a)' => Stored(a)
      /\ \A a \in Approval : Requests(c, a) => ~Stored(a)' \/ a \in orphans'
  BY <1>1, <1>2, TakeBackFacts
<1>. QED  BY <1>1, <1>3, <1>4, AbortInv DEF Evaluating

\* A decision is issued: its entry is complete, and those that wait go on with it.
LEMMA FinishInv ==
  ASSUME Inv, NEW c \in Call, Finish(c)
  PROVE  Inv'
<1>. DEFINE d == calls[c].decision
<1>. DEFINE s == ScopeOfCall(c)
<1>. DEFINE r == [calls[c] EXCEPT !.at = "answered"]
<1>. DEFINE w(k) == [calls[k] EXCEPT !.at = "resolved", !.decision = d]
<1>1. /\ TypeOK /\ CallSound(c) /\ calls[c].at = "finishing" /\ d \in Decision
      /\ trail' = trail \cup {FinalEvent(c, d)}
      /\ UNCHANGED <<restarts, orphans, approvals, clock>>
  BY DEF Inv, Finish, CallSound, WellFormed
<1>2. /\ \A k \in Call : calls[k] \in CallRecord
      /\ calls[c].life = restarts /\ d.by = c /\ Evaluated(d) /\ calls[c].intent \in Intent
      /\ calls[c].dryRun => d.approval = Null
      /\ s \in Scope /\ restarts \in Nat /\ d.outcome \in Outcome /\ d.approval \in Approval \cup {Null}
  BY <1>1 DEF TypeOK, CallSound, WellFormed, Alive, Evaluating, Decision
<1>3. r \in CallRecord /\ r.at = "answered" /\ r.decision = d /\ r.intent = calls[c].intent
      /\ r.dryRun = calls[c].dryRun /\ r.life = restarts
  BY <1>2 DEF CallRecord, Place, Ended
<1>4. FinalEvent(c, d) \in [kind : EventKind, call : Call, decision : Decision \cup {Null}]
  BY <1>1, <1>2, EventType DEF FinalEvent, Correlation, EventKind
<1>5. /\ EvaluationOf(d) /\ (~calls[c].dryRun => RequestOf(d))
      /\ \A a \in Approval : d.approval = a => Stored(a)
      /\ d.approval # Null => d.outcome = "needs_human"
  BY <1>1 DEF CallSound, OnRecord, HasRequest, WellFormed
<1>6. \A k \in Call \ {c}, a \in Approval : Requests(k, a) => d.approval # a
  BY <1>1 DEF Inv, RequestedByOne
<1>7. CASE calls[c].dryRun
  <2>1. calls' = [calls EXCEPT ![c] = r] /\ UNCHANGED entries
    BY <1>7 DEF Finish, SetAndAnswer
  <2>. HIDE DEF r
  <2>2. calls'[c] = r
    BY <1>1, <2>1 DEF TypeOK
  <2>3. Moves(c, r)
    BY <1>1, <1>3, <1>4, <2>1 DEF Moves, TypeOK
  <2>4. WellFormed(c)'
    BY <1>1, <1>2, <1>3, <1>5, <2>2 DEF WellFormed, Alive, Evaluating, Evaluated
  <2>5. OnRecord(c)'
    <3>1. FinalEvent(c, calls[c].decision)' \in trail'
      BY <1>1, <1>3, <2>2 DEF FinalEvent, Correlation
    <3>2. EvaluationOf(calls[c].decision)'
      BY <1>1, <1>3, <1>5, <2>2 DEF EvaluationOf
    <3>. QED  BY <1>3, <1>7, <2>2, <3>1, <3>2 DEF OnRecord, Evaluating
  <2>6. HasRequest(c)' /\ HasEntry(c)'
    BY <1>1, <1>2, <1>3, <1>7, <2>2 DEF HasRequest, HasEntry, Reserves, Evaluating
  <2>7. \A a \in Approval : ~Requests(c, a)
    BY <1>2, <1>7 DEF Requests
  <2>8. ~Reserves(c) /\ r.dryRun /\ calls[c].at # "answered"
    BY <1>1, <1>3, <1>7 DEF Reserves
  <2>. QED
    BY <1>1, <1>2, <1>3, <1>6, <1>7, <2>1, <2>3, <2>4, <2>5, <2>6, <2>7, <2>8, MoveInv DEF CallSound
<1>8. CASE ~calls[c].dryRun
  <2>. DEFINE e == [status |-> "complete", intent |-> calls[c].intent, decision |-> d]
  <2>1. Reserves(c) /\ entries[s].status = "pending" /\ entries[s].intent = calls[c].intent
    BY <1>1, <1>8 DEF Reserves, Evaluating, CallSound, HasEntry
  <2>2. /\ entries' = [entries EXCEPT ![s] = e]
        /\ calls' = [k \in Call |-> IF k = c THEN r
                                    ELSE IF Waiting(k, s) THEN w(k) ELSE calls[k]]
    BY <1>1, <1>8, <2>1 DEF Finish, SetAndAnswer
  <2>3. e \in Entry /\ e.status = "complete" /\ e.intent = calls[c].intent /\ e.decision = d
    BY <1>1, <1>2 DEF Entry
  <2>4. ASSUME NEW k \in Call, k # c, Waiting(k, s)
        PROVE  /\ w(k) \in CallRecord /\ w(k).at = "resolved" /\ w(k).decision = d
               /\ w(k).intent = calls[c].intent /\ ~w(k).dryRun /\ w(k).life = restarts
    <3>1. calls[k].at = "waiting" /\ ScopeOfCall(k) = s /\ WellFormed(k) /\ HasEntry(k)
      BY <2>4 DEF Inv, CallSound, Waiting
    <3>2. ~calls[k].dryRun /\ calls[k].life = restarts
      BY <3>1 DEF WellFormed, Alive
    <3>3. calls[k].intent = calls[c].intent
      BY <2>1, <3>1 DEF HasEntry
    <3>4. calls[k] \in CallRecord /\ d \in Decision \cup {Null} /\ "resolved" \in Place
      BY <1>1, <1>2 DEF Place
    <3>. HIDE DEF d, s
    <3>. QED  BY <3>2, <3>3, <3>4 DEF CallRecord
  <2>. HIDE DEF r, w
  <2>5. calls'[c] = r
    BY <2>2
  <2>6. ASSUME NEW k \in Call, k # c, Waiting(k, s) PROVE calls'[k] = w(k)
    BY <2>2, <2>6
  <2>7. ASSUME NEW k \in Call, k # c, ~Waiting(k, s) PROVE calls'[k] = calls[k]
    BY <2>2, <2>7
  <2>8. /\ entries'[s] = e /\ \A t \in Scope \ {s} : entries'[t] = entries[t]
    BY <1>1, <1>2, <2>2 DEF TypeOK
  <2>9. calls' \in [Call -> CallRecord]
    BY <1>2, <1>3, <2>2, <2>4
  <2>10. TypeOK'
    <3>1. entries' \in [Scope -> Entry]
      BY <1>1, <2>2, <2>3 DEF TypeOK
    <3>. QED  BY <1>1, <1>4, <2>9, <3>1 DEF TypeOK, ApprovalTypeOK
  <2>. HIDE DEF e, s
  <2>. DEFINE Issued(k) ==
         /\ k = c \/ Waiting(k, s)
         /\ calls'[k].decision = d /\ calls'[k].intent = calls[c].intent
         /\ ~calls'[k].dryRun /\ calls'[k].life = restarts
         /\ calls'[k].at = IF k = c THEN "answered" ELSE "resolved"
  <2>. DEFINE Stays(k) == k # c /\ ~Waiting(k, s) /\ calls'[k] = calls[k]
  <2>11. ASSUME NEW k \in Call PROVE Issued(k) \/ Stays(k)
    <3>. HIDE DEF d, s
    <3>1. CASE k = c
      BY <1>3, <1>8, <2>5, <3>1
    <3>2. CASE k # c /\ Waiting(k, s)
      BY <2>4, <2>6, <3>2
    <3>3. CASE k # c /\ ~Waiting(k, s)
      BY <2>7, <3>3
    <3>. QED  BY <3>1, <3>2, <3>3
  <2>12. /\ entries'[s].status = "complete" /\ entries'[s].decision = d
         /\ entries'[s] = [status |-> "complete", intent |-> calls[c].intent, decision |-> d]
    BY <2>3, <2>8 DEF e
  <2>13. ASSUME NEW k \in Call PROVE CallSound(k)'
    <3>1. CASE Issued(k)
      <4>1. WellFormed(k)'
        BY <1>1, <1>2, <1>5, <3>1 DEF WellFormed, Alive, Evaluating
      <4>2. OnRecord(k)'
        <5>1. EvaluationOf(calls[k].decision)' /\ RequestOf(calls[k].decision)'
          BY <1>1, <1>5, <1>8, <3>1 DEF EvaluationOf, RequestOf
        <5>2. k = c => FinalEvent(k, calls[k].decision)' \in trail'
          BY <1>1, <1>8, <3>1 DEF FinalEvent, Correlation
        <5>. QED  BY <3>1, <5>1, <5>2 DEF OnRecord, Evaluating
      <4>3. HasEntry(k)'
        BY <2>12, <3>1 DEF s, HasEntry, Reserves, Evaluating
      <4>4. HasRequest(k)'
        BY <1>1, <1>5, <3>1 DEF HasRequest, Stored
      <4>. QED  BY <4>1, <4>2, <4>3, <4>4 DEF CallSound
    <3>2. CASE Stays(k)
      <4>1. CASE calls[k].at # "idle" => ScopeOfCall(k) # s
        <5>1. calls[k].at # "idle" => ScopeOfCall(k) \in Scope
          BY DEF Inv, CallSound, WellFormed
        <5>. QED  BY <1>1, <2>8, <3>2, <4>1, <5>1, Frame DEF Stored
      <4>2. CASE calls[k].at # "idle" /\ ScopeOfCall(k) = s
        <5>1. CallSound(k) /\ calls'[k] = calls[k]
          BY <3>2 DEF Inv
        <5>2. ~Reserves(k) /\ calls[k].at # "waiting"
          BY <2>1, <3>2, <4>2 DEF s, Inv, ReservedByOne, Waiting
        <5>3. ~(/\ calls[k].at \in Settled /\ ~calls[k].dryRun /\ Evaluated(calls[k].decision)
                /\ calls[k].life = restarts)
          BY <2>1, <4>2, <5>1 DEF CallSound, HasEntry
        <5>4. HasEntry(k)'
          BY <1>1, <5>1, <5>2, <5>3 DEF HasEntry, Reserves, Evaluated, Evaluating
        <5>5. WellFormed(k)'
          BY <1>1, <5>1 DEF CallSound, WellFormed, Evaluated
        <5>6. OnRecord(k)' /\ HasRequest(k)'
          BY <1>1, <5>1 DEF CallSound, OnRecord, HasRequest, EvaluationOf, RequestOf, FinalEvent,
            Correlation, Stored
        <5>. QED  BY <5>4, <5>5, <5>6 DEF CallSound
      <4>. QED  BY <4>1, <4>2
    <3>. QED  BY <2>11, <3>1, <3>2
  <2>14. ASSUME NEW t \in Scope PROVE EntrySound(t)'
    <3>1. CASE t = s
      BY <1>1, <1>2, <1>5, <1>8, <2>12, <3>1 DEF EntrySound, EvaluationOf, RequestOf, Evaluated, Stored
    <3>2. CASE t # s
      BY <1>1, <2>8, <3>2, FrameEntry DEF Stored
    <3>. QED  BY <3>1, <3>2
  <2>15. ReservedByOne'
    <3>1. ASSUME NEW k \in Call, Reserves(k)' PROVE Stays(k) /\ Reserves(k)
      BY <2>11, <3>1 DEF Reserves, Evaluating
    <3>2. ASSUME NEW t \in Scope, entries'[t].status = "pending"
          PROVE  \E k \in Call : /\ Reserves(k)' /\ calls'[k].intent = entries'[t].intent
                                 /\ ScopeOf[calls'[k].intent] = t
      <4>1. t # s /\ entries'[t] = entries[t]
        BY <2>8, <2>12, <3>2
      <4>2. PICK k \in Call : Reserves(k) /\ calls[k].intent = entries[t].intent /\ ScopeOfCall(k) = t
        BY <3>2, <4>1 DEF Inv, ReservedByOne
      <4>3. Stays(k)
        BY <2>11, <4>1, <4>2 DEF s, Reserves, Evaluating, Waiting
      <4>. QED  BY <4>1, <4>2, <4>3 DEF Reserves
    <3>3. \A j, k \in Call :
            Reserves(j)' /\ Reserves(k)' /\ ScopeOf[calls'[j].intent] = ScopeOf[calls'[k].intent] => j = k
      BY <3>1 DEF Inv, ReservedByOne
    <3>. QED  BY <3>2, <3>3 DEF ReservedByOne
  <2>16. RequestedByOne'
    <3>1. ASSUME NEW k \in Call, NEW a \in Approval, Requests(k, a)'
          PROVE  Stays(k) /\ Requests(k, a) /\ d.approval # a
      <4>1. Stays(k) /\ Requests(k, a)
        BY <2>11, <3>1 DEF Requests
      <4>. QED  BY <1>6, <4>1
    <3>2. ASSUME NEW k \in Call, calls'[k].decision # d PROVE calls'[k] = calls[k]
      BY <2>11, <3>2
    <3>3. ASSUME NEW t \in Scope, entries'[t].decision # d PROVE entries'[t] = entries[t]
      BY <2>8, <2>12, <3>3
    <3>. HIDE DEF d, s, Issued
    <3>. QED  BY <3>1, <3>2, <3>3 DEF Inv, RequestedByOne
  <2>17. OneDecisionPerScope'
    <3>1. \A k \in Call : HasEntry(k)'
      BY <2>13 DEF CallSound
    <3>. QED  BY <1>1, <2>11, <3>1, OneDecisionFromEntries
  <2>18. RequestsAreAnswered'
    <3>1. \A k \in Call, a \in Approval : k # c /\ Requests(k, a) => Requests(k, a)'
      BY <2>11 DEF Requests, Waiting
    <3>2. ASSUME NEW a \in Approval, Requests(c, a)
          PROVE  /\ calls'[c].at = "answered" /\ calls'[c].decision.approval = a
                 /\ FinalEvent(c, calls[c].decision)' \in trail'
      <4>1. Issued(c)
        BY <2>11
      <4>. QED  BY <1>1, <1>8, <3>2, <4>1 DEF Requests, FinalEvent, Correlation
    <3>3. \A k \in Call : calls[k].at = "answered" => calls'[k] = calls[k]
      BY <1>1, <2>11 DEF Waiting
    <3>. QED
      BY <1>1, <3>1, <3>2, <3>3 DEF Inv, RequestsAreAnswered, FinalEvent, Correlation, Stored
  <2>. QED  BY <2>10, <2>13, <2>14, <2>15, <2>16, <2>17, <2>18 DEF Inv
<1>. QED  BY <1>7, <1>8

-----------------------------------------------------------------------------
\* Every step keeps the invariant, whatever the services it awaits answer.
LEMMA StepInv ==
  ASSUME Inv, NEW c \in Call, Step(c)
  PROVE  Inv'
<1>1. CASE Unavailable(c) \/ OpaHealthy(c) \/ Reviewed(c) \/ RiskEvaluated(c) \/ PolicyEvaluated(c)
  BY <1>1, UnavailableInv, OpaHealthyInv, ReviewedInv, RiskEvaluatedInv, PolicyEvaluatedInv
<1>2. CASE StageFails(c) \/ CreateFails(c) \/ RequestFails(c) \/ FinishFails(c)
  BY <1>2, StageFailsInv, CreateFailsInv, RequestFailsInv
<1>3. CASE RequestRecorded(c) \/ Finish(c) \/ Reply(c) \/ ReplyFails(c)
  BY <1>3, RequestRecordedInv, FinishInv, ReplyInv
<1>4. CASE \E a \in Approval : CreateApproval(c, a)
  BY <1>4, CreateApprovalInv
<1>. QED  BY <1>1, <1>2, <1>3, <1>4 DEF Step

LEMMA NextInv == Inv /\ [Next]_vars => Inv'
<1>. SUFFICES ASSUME Inv, [Next]_vars PROVE Inv'
  OBVIOUS
<1>1. ASSUME NEW c \in Call, NEW i \in Intent, NEW dry \in BOOLEAN,
             \/ Conflict(c, i) \/ Replay(c, i) \/ Wait(c, i)
             \/ Refuse(c, i, dry) \/ ReceiveFails(c, i, dry) \/ Begin(c, i, dry)
      PROVE  Inv'
  BY <1>1, ConflictInv, ReplayInv, WaitInv, RefuseInv, ReceiveFailsInv, BeginInv
<1>2. ASSUME NEW c \in Call, Step(c) PROVE Inv'
  BY <1>2, StepInv
<1>3. ASSUME NEW a \in Approval, HumanStep(a) PROVE Inv'
  BY <1>3, HumanInv
<1>4. CASE Restart
  BY <1>4, RestartInv
<1>5. CASE UNCHANGED vars
  <2>1. UNCHANGED <<entries, calls, trail, restarts, orphans, approvals, clock>>
    BY <1>5 DEF vars
  <2>2. TypeOK' /\ \A c \in Call : CallSound(c)'
    BY <2>1, Frame DEF Inv, TypeOK, ApprovalTypeOK, Stored
  <2>3. \A s \in Scope : EntrySound(s)'
    BY <2>1, FrameEntry DEF Stored
  <2>4. ReservedByOne' /\ RequestedByOne' /\ OneDecisionPerScope'
    BY <2>1 DEF Inv, ReservedByOne, Reserves, RequestedByOne, Requests, OneDecisionPerScope, Evaluated
  <2>5. RequestsAreAnswered'
    BY <2>1 DEF Inv, RequestsAreAnswered, Requests, FinalEvent, Correlation, Stored
  <2>. QED  BY <2>2, <2>3, <2>4, <2>5 DEF Inv
<1>. QED  BY <1>1, <1>2, <1>3, <1>4, <1>5 DEF Next

LEMMA InvAlways == Spec => []Inv
BY InitInv, NextInv, PTL DEF Spec

-----------------------------------------------------------------------------
\* The states of the service, its log and its requests are well typed.
THEOREM TypeCorrect == Spec => []TypeOK
<1>1. Inv => TypeOK
  BY DEF Inv
<1>. QED  BY <1>1, InvAlways, PTL

\* No decision reaches a caller that the log does not hold (finalizeDecision).
THEOREM AnswersAreAudited == Spec => []AnsweredIsAudited
<1>1. Inv => AnsweredIsAudited
  BY DEF Inv, CallSound, OnRecord, AnsweredIsAudited
<1>. QED  BY <1>1, InvAlways, PTL

\* A decision that waits for a human names a request that is in the database
\* and on record (requestHumanApproval).
THEOREM AnswersNameTheirRequest == Spec => []AnsweredApprovalExists
<1>1. Inv => AnsweredApprovalExists
  <2>. SUFFICES ASSUME Inv, NEW c \in Call, calls[c].at = "answered",
                       calls[c].decision.outcome = "needs_human", ~calls[c].dryRun
                PROVE  /\ calls[c].decision.approval # Null /\ Stored(calls[c].decision.approval)
                       /\ Event("approval.requested", calls[c].decision.by, calls[c].decision) \in trail
    BY DEF AnsweredApprovalExists
  <2>1. WellFormed(c) /\ OnRecord(c) /\ HasRequest(c)
    BY DEF Inv, CallSound
  <2>2. RequestOf(calls[c].decision)
    BY <2>1 DEF OnRecord
  <2>3. calls[c].decision.approval \in Approval
    BY <2>1, <2>2 DEF WellFormed, RequestOf, Decision
  <2>. QED  BY <2>1, <2>2, <2>3 DEF RequestOf, HasRequest
<1>. QED  BY <1>1, InvAlways, PTL

\* An intent is allowed, or shown to a human, on the record of a whole
\* evaluation (the four events evaluate writes before it decides).
THEOREM EvaluationsAreRecorded == Spec => []EvaluationIsRecorded
<1>1. Inv => EvaluationIsRecorded
  BY DEF Inv, CallSound, OnRecord, EvaluationOf, EvaluationIsRecorded
<1>. QED  BY <1>1, InvAlways, PTL

\* A reservation belongs to exactly one call in progress (IdempotencyStore).
THEOREM ReservationsHaveOwners == Spec => []ReservationHasOwner
<1>1. Inv => ReservationHasOwner
  <2>. SUFFICES ASSUME Inv PROVE ReservationHasOwner
    OBVIOUS
  <2>1. ReservedByOne /\ \A k \in Call : HasEntry(k)
    BY DEF Inv, CallSound
  <2>. QED  BY <2>1 DEF ReservedByOne, HasEntry, ReservationHasOwner
<1>. QED  BY <1>1, InvAlways, PTL

\* While the process lives, a scope has one decision, for one payload, whatever
\* calls ask for it at the same time (idempotency.ts).
THEOREM DecidedOnce == Spec => []OneDecisionPerScope
<1>1. Inv => OneDecisionPerScope
  BY DEF Inv
<1>. QED  BY <1>1, InvAlways, PTL

\* A request in the database has its decision on record, or a call at work on
\* it, unless a crash or a refused deletion left it behind (service.ts:714).
THEOREM RequestsGetAnswers == Spec => []RequestsAreAnswered
<1>1. Inv => RequestsAreAnswered
  BY DEF Inv
<1>. QED  BY <1>1, InvAlways, PTL
===============================================================================
