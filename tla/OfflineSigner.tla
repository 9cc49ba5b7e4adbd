----------------------------- MODULE OfflineSigner -----------------------------
(***************************************************************************)
(* The local offline Sepolia signer (runtime/src/signer-runtime.ts).  POST *)
(* /sign carries an approved decision and the nonce, gas and fees of one   *)
(* transaction.  The signer reserves key, intent and nonce in its SQLite   *)
(* database, signs, and stores the answer, with an audit event before and  *)
(* after the signature.  The process may die between any two of these, and *)
(* every statement is a step of its own: calls interleave at the await of  *)
(* signTransaction, and those of two processes over one file anywhere.     *)
(***************************************************************************)
EXTENDS Integers

CONSTANTS
  Call,      \* requests of the HTTP server
  Request,   \* signing requests: what the approval and the envelope say
  Key, IntentId, Nonce, Fees, Approval,
  Null

\* approval identifies one decision (decidedAt, correlation id, token): the same
\* intent decided again is another.  genuine: the token is the HMAC of the
\* approval; eligible: environment, action, chain, resource and calldata are
\* right and approve is capped; affordable: gas and fees are within the caps.
SigningRequest ==
  [key : Key, intentId : IntentId, nonce : Nonce, fees : Fees, approval : Approval,
   genuine : BOOLEAN, eligible : BOOLEAN, affordable : BOOLEAN]

ASSUME SignerAssumption ==
  /\ Request \subseteq SigningRequest
  /\ Null \notin Request

VARIABLES
  rows,    \* the table signer_requests
  log,     \* the events signer.requested and signer.completed
  stale,   \* the decisions that are older than five minutes
  signed,  \* how often each request has been signed, published or not
  pc,      \* where each call is
  arg,     \* its request
  held,    \* the signature it holds in memory, named by what was signed
  answer   \* its answer

vars == <<rows, log, stale, signed, pc, arg, held, answer>>

Signature == [intentId : IntentId, nonce : Nonce, fees : Fees]
signTransaction(r) == [intentId |-> r.intentId, nonce |-> r.nonce, fees |-> r.fees]

Row == [request : Request, response : Signature \cup {Null}]
Event == [type : {"requested", "completed"}, request : Request]
Refusal == [status : {403, 409, 500}]

TypeOK ==
  /\ rows \subseteq Row
  /\ log \subseteq Event
  /\ stale \subseteq Approval
  /\ signed \in [Request -> Nat]
  /\ pc \in [Call -> {"idle", "find", "verify", "reserve", "requested", "sign", "completed",
                      "complete", "respond", "done", "lost"}]
  /\ arg \in [Call -> Request \cup {Null}]
  /\ held \in [Call -> Signature \cup {Null}]
  /\ answer \in [Call -> Signature \cup Refusal \cup {Null}]

Init ==
  /\ rows = {} /\ log = {} /\ stale = {} /\ signed = [r \in Request |-> 0]
  /\ pc = [c \in Call |-> "idle"] /\ arg = [c \in Call |-> Null]
  /\ held = [c \in Call |-> Null] /\ answer = [c \in Call |-> Null]

-----------------------------------------------------------------------------
Goto(c, p) == pc' = [pc EXCEPT ![c] = p]

Hold(c, s) == held' = [held EXCEPT ![c] = s]

Answer(c, a) == Goto(c, "done") /\ answer' = [answer EXCEPT ![c] = a]

\* The catch of the handler writes signer.failed; if that fails too, the
\* answer is 500.
Refuse(c, code) ==
  /\ \E s \in {code, 500} : Answer(c, [status |-> s])
  /\ UNCHANGED held

\* An audit write fails before its event is committed or, at the anchor, after.
AuditFails(c, event) ==
  /\ log' \in {log, log \cup {event}}
  /\ Refuse(c, 500)

authorized(r) == r.genuine /\ r.approval \notin stale /\ r.eligible /\ r.affordable

\* A request is parsed and checked.
Receive(c, r) ==
  /\ pc[c] = "idle"
  /\ arg' = [arg EXCEPT ![c] = r]
  /\ IF authorized(r) THEN Goto(c, "find") /\ UNCHANGED <<held, answer>> ELSE Refuse(c, 403)
  /\ UNCHANGED <<rows, log, stale, signed>>

\* SELECT ... WHERE idempotency_key: an exact retry is answered with the
\* stored signature, anything else on a used key is refused.
Find(c) ==
  LET existing == {w \in rows : w.request.key = arg[c].key} IN
  /\ pc[c] = "find"
  /\ \/ existing = {} /\ Goto(c, "reserve") /\ UNCHANGED <<held, answer>>
     \/ \E w \in existing :
          IF w.request # arg[c] \/ w.response = Null THEN Refuse(c, 409)
          ELSE Goto(c, "verify") /\ Hold(c, w.response) /\ UNCHANGED answer
  /\ UNCHANGED <<rows, log, stale, signed, arg>>

\* verifyOfflineSignature compares every field of the transaction.
Verify(c) ==
  /\ pc[c] = "verify"
  /\ IF held[c] = signTransaction(arg[c]) THEN Answer(c, held[c]) /\ UNCHANGED held
     ELSE Refuse(c, 500)
  /\ UNCHANGED <<rows, log, stale, signed, arg>>

\* Mutant: the nonce column is not UNIQUE.
TakenByKeyOrIntent(r) ==
  \E w \in rows : w.request.key = r.key \/ w.request.intentId = r.intentId

\* idempotency_key is the PRIMARY KEY, intent_id and nonce are UNIQUE.
taken(r) ==
  \E w \in rows : \/ w.request.key = r.key
                  \/ w.request.intentId = r.intentId
                  \/ w.request.nonce = r.nonce

\* INSERT OR IGNORE: no row is inserted when one of the three is taken.
Reserve(c) ==
  /\ pc[c] = "reserve"
  /\ IF taken(arg[c]) THEN Refuse(c, 409) /\ UNCHANGED rows
     ELSE /\ rows' = rows \cup {[request |-> arg[c], response |-> Null]}
          /\ Goto(c, "requested") /\ UNCHANGED <<held, answer>>
  /\ UNCHANGED <<log, stale, signed, arg>>

AuditRequested(c) ==
  LET event == [type |-> "requested", request |-> arg[c]] IN
  /\ pc[c] = "requested"
  /\ \/ log' = log \cup {event} /\ Goto(c, "sign") /\ UNCHANGED <<held, answer>>
     \/ AuditFails(c, event)
  /\ UNCHANGED <<rows, stale, signed, arg>>

\* signTransaction, which may throw.
Sign(c) ==
  /\ pc[c] = "sign"
  /\ \/ /\ signed' = [signed EXCEPT ![arg[c]] = @ + 1]
        /\ Hold(c, signTransaction(arg[c]))
        /\ Goto(c, "completed") /\ UNCHANGED answer
     \/ Refuse(c, 500) /\ UNCHANGED signed
  /\ UNCHANGED <<rows, log, stale, arg>>

\* Mutant: the answer is published whether or not its event was written.
PublishAnyway(c) ==
  /\ pc[c] = "completed"
  /\ log' \in {log, log \cup {[type |-> "completed", request |-> arg[c]]}}
  /\ Goto(c, "complete")
  /\ UNCHANGED <<rows, stale, signed, arg, held, answer>>

AuditCompleted(c) ==
  LET event == [type |-> "completed", request |-> arg[c]] IN
  /\ pc[c] = "completed"
  /\ \/ log' = log \cup {event} /\ Goto(c, "complete") /\ UNCHANGED <<held, answer>>
     \/ AuditFails(c, event)
  /\ UNCHANGED <<rows, stale, signed, arg>>

\* UPDATE ... WHERE idempotency_key AND response IS NULL.
Complete(c) ==
  LET mine == {w \in rows : w.request.key = arg[c].key /\ w.response = Null} IN
  /\ pc[c] = "complete"
  /\ \/ /\ mine # {}
        /\ rows' = (rows \ mine) \cup {[w EXCEPT !.response = held[c]] : w \in mine}
        /\ Goto(c, "respond") /\ UNCHANGED <<held, answer>>
     \/ Refuse(c, 500) /\ UNCHANGED rows
  /\ UNCHANGED <<log, stale, signed, arg>>

Respond(c) ==
  /\ pc[c] = "respond"
  /\ Answer(c, held[c])
  /\ UNCHANGED <<rows, log, stale, signed, arg, held>>

-----------------------------------------------------------------------------
\* A process dies: its calls are never answered, the database remains.
Crash(dead) ==
  /\ dead # {} /\ \A c \in dead : pc[c] \notin {"idle", "done", "lost"}
  /\ pc' = [c \in Call |-> IF c \in dead THEN "lost" ELSE pc[c]]
  /\ UNCHANGED <<rows, log, stale, signed, arg, held, answer>>

\* Five minutes pass since a decision.
Expire(a) ==
  /\ a \notin stale /\ stale' = stale \cup {a}
  /\ UNCHANGED <<rows, log, signed, pc, arg, held, answer>>

Step(c) ==
  \/ (\E r \in Request : Receive(c, r)) \/ Find(c) \/ Verify(c) \/ Reserve(c)
  \/ AuditRequested(c) \/ Sign(c) \/ AuditCompleted(c) \/ Complete(c) \/ Respond(c)

Next ==
  \/ \E c \in Call : Step(c)
  \/ \E dead \in SUBSET Call : Crash(dead)
  \/ \E a \in Approval : Expire(a)

Spec == Init /\ [][Next]_vars

-----------------------------------------------------------------------------
\* No crash, no failing write and no retry makes the signer sign twice under
\* one idempotency key, for one intent or with one nonce: not another
\* transaction, nor the same one again, whether it publishes it or not
\* (signer-runtime.ts:254).
OneSignature ==
  \A r, s \in Request :
    /\ signed[r] > 0 /\ signed[s] > 0
    /\ r.key = s.key \/ r.intentId = s.intentId \/ r.nonce = s.nonce
    => r = s /\ signed[r] = 1

\* A signature leaves the process only for the very request it was made for,
\* and after the events of both its request and its completion are on record:
\* to the first caller, to a retry, and to a retry after a restart.
AnswersAreOnRecord ==
  \A c \in Call :
    answer[c] \notin Refusal \cup {Null} =>
      /\ answer[c] = signTransaction(arg[c]) /\ signed[arg[c]] > 0
      /\ \A t \in {"requested", "completed"} : [type |-> t, request |-> arg[c]] \in log
===============================================================================
