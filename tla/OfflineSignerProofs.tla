--------------------------- MODULE OfflineSignerProofs ---------------------------
(***************************************************************************)
(* Proofs about OfflineSigner.  The invariant says what a reservation is   *)
(* worth: its row excludes every other request on its key, intent or       *)
(* nonce, and only the call that inserted it works on it until it is       *)
(* answered or abandoned.                                                  *)
(***************************************************************************)
EXTENDS OfflineSigner, TLAPS

Working == {"requested", "sign", "completed", "complete"}

OnRecord(r) ==
  /\ signed[r] > 0
  /\ [type |-> "requested", request |-> r] \in log
  /\ [type |-> "completed", request |-> r] \in log

BusyHasArgument ==
  \A c \in Call : /\ pc[c] # "idle" => arg[c] \in Request
                  /\ pc[c] # "done" => answer[c] = Null

\* The three UNIQUE columns.
RowsAreUnique ==
  \A v, w \in rows :
    \/ v.request.key = w.request.key
    \/ v.request.intentId = w.request.intentId
    \/ v.request.nonce = w.request.nonce
    => v = w

SignedHasRow == \A r \in Request : signed[r] > 0 => \E w \in rows : w.request = r

\* Nothing is signed twice, for who is about to sign is the first to.
SignedOnce ==
  /\ \A r \in Request : signed[r] <= 1
  /\ \A c \in Call : pc[c] \in {"requested", "sign"} => signed[arg[c]] = 0

\* A call at work holds an unanswered row, and no other call works on it.
WorkingHasRow ==
  \A c \in Call : pc[c] \in Working => [request |-> arg[c], response |-> Null] \in rows

OneWorker ==
  \A c, d \in Call : pc[c] \in Working /\ pc[d] \in Working /\ arg[c] = arg[d] => c = d

\* What a call has signed and logged by the time it is at each of its steps.
Progress ==
  \A c \in Call :
    /\ pc[c] \in {"completed", "complete", "respond", "verify"} =>
         held[c] = signTransaction(arg[c]) /\ signed[arg[c]] > 0
    /\ pc[c] \in {"sign", "completed", "complete"} =>
         [type |-> "requested", request |-> arg[c]] \in log
    /\ pc[c] = "complete" => [type |-> "completed", request |-> arg[c]] \in log
    /\ pc[c] \in {"respond", "verify"} => OnRecord(arg[c])

\* A stored answer is the signature of the row's own request, on record.
StoredIsOnRecord ==
  \A w \in rows :
    w.response # Null => w.response = signTransaction(w.request) /\ OnRecord(w.request)

Inv ==
  /\ TypeOK
  /\ BusyHasArgument
  /\ RowsAreUnique
  /\ SignedHasRow
  /\ SignedOnce
  /\ WorkingHasRow
  /\ OneWorker
  /\ Progress
  /\ StoredIsOnRecord
  /\ AnswersAreOnRecord

-----------------------------------------------------------------------------
LEMMA InitInv == Init => Inv
BY DEF Init, Inv, TypeOK, BusyHasArgument, RowsAreUnique, SignedHasRow, SignedOnce, WorkingHasRow,
  OneWorker, Progress, StoredIsOnRecord, AnswersAreOnRecord, Working

LEMMA SignatureType == \A r \in Request : signTransaction(r) \in Signature
BY SignerAssumption DEF signTransaction, Signature, SigningRequest

USE DEF Working, Goto, Hold, Answer

\* A refused call is answered with a status and holds what it held.
LEMMA RefuseFacts ==
  ASSUME TypeOK, NEW c \in Call, NEW code \in {403, 409, 500}, Refuse(c, code)
  PROVE  /\ pc' = [pc EXCEPT ![c] = "done"]
         /\ held' = held
         /\ answer' \in [Call -> Signature \cup Refusal \cup {Null}]
         /\ answer'[c] \in Refusal
         /\ \A d \in Call \ {c} : answer'[d] = answer[d]
<1>. HIDE DEF Answer
<1>1. PICK s \in {code, 500} : Answer(c, [status |-> s])
  BY DEF Refuse
<1>2. [status |-> s] \in Refusal
  BY DEF Refusal
<1>. QED  BY <1>1, <1>2 DEF Refuse, Answer, TypeOK

\* Refusing a call disturbs nothing but the call.
LEMMA RefuseInv ==
  ASSUME Inv, NEW c \in Call, NEW code \in {403, 409, 500}, Refuse(c, code),
         UNCHANGED <<rows, stale, signed>>,
         arg' \in [Call -> Request \cup {Null}], arg'[c] \in Request,
         log \subseteq log', log' \subseteq Event,
         \A d \in Call \ {c} : arg'[d] = arg[d]
  PROVE  Inv'
<1>. USE DEF Inv
<1>1. /\ pc' = [pc EXCEPT ![c] = "done"]
      /\ held' = held
      /\ answer' \in [Call -> Signature \cup Refusal \cup {Null}]
      /\ answer'[c] \in Refusal
      /\ \A d \in Call \ {c} : answer'[d] = answer[d]
  BY RefuseFacts
<1>2. TypeOK'
  BY <1>1 DEF TypeOK
<1>3. BusyHasArgument' /\ WorkingHasRow' /\ OneWorker'
  BY <1>1 DEF BusyHasArgument, WorkingHasRow, OneWorker, TypeOK
<1>4. RowsAreUnique' /\ SignedHasRow' /\ SignedOnce'
  BY <1>1 DEF RowsAreUnique, SignedHasRow, SignedOnce, TypeOK
<1>5. Progress'
  BY <1>1 DEF Progress, TypeOK, OnRecord
<1>6. StoredIsOnRecord'
  BY DEF StoredIsOnRecord, OnRecord
<1>7. AnswersAreOnRecord'
  BY <1>1 DEF AnswersAreOnRecord
<1>. QED  BY <1>2, <1>3, <1>4, <1>5, <1>6, <1>7

LEMMA ReceiveInv ==
  ASSUME Inv, NEW c \in Call, NEW r \in Request, Receive(c, r)
  PROVE  Inv'
<1>. USE DEF Inv
<1>1. CASE authorized(r)
  <2>. USE <1>1 DEF Receive
  <2>1. TypeOK' /\ BusyHasArgument'
    BY DEF TypeOK, BusyHasArgument
  <2>2. WorkingHasRow' /\ OneWorker'
    BY DEF WorkingHasRow, OneWorker, TypeOK
  <2>3. RowsAreUnique' /\ SignedHasRow' /\ SignedOnce'
    BY DEF RowsAreUnique, SignedHasRow, SignedOnce, TypeOK
  <2>4. Progress' /\ StoredIsOnRecord'
    BY DEF Progress, StoredIsOnRecord, TypeOK, OnRecord
  <2>5. AnswersAreOnRecord'
    BY DEF AnswersAreOnRecord, BusyHasArgument, TypeOK
  <2>. QED  BY <2>1, <2>2, <2>3, <2>4, <2>5
<1>2. CASE ~authorized(r)
  BY <1>2, RefuseInv DEF Receive, TypeOK
<1>. QED  BY <1>1, <1>2

LEMMA FindInv ==
  ASSUME Inv, NEW c \in Call, Find(c)
  PROVE  Inv'
<1>. DEFINE existing == {w \in rows : w.request.key = arg[c].key}
<1>. USE DEF Inv
<1>1. pc[c] = "find" /\ arg[c] \in Request /\ UNCHANGED <<rows, log, stale, signed, arg>>
  BY DEF Find, BusyHasArgument
<1>2. CASE Refuse(c, 409)
  BY <1>1, <1>2, RefuseInv DEF TypeOK
<1>3. CASE Goto(c, "reserve") /\ UNCHANGED <<held, answer>>
  <2>. USE <1>1, <1>3
  <2>1. TypeOK' /\ BusyHasArgument'
    BY DEF TypeOK, BusyHasArgument
  <2>2. WorkingHasRow' /\ OneWorker' /\ RowsAreUnique' /\ SignedHasRow' /\ SignedOnce'
    BY DEF WorkingHasRow, OneWorker, RowsAreUnique, SignedHasRow, SignedOnce, TypeOK
  <2>3. Progress' /\ StoredIsOnRecord' /\ AnswersAreOnRecord'
    BY DEF Progress, StoredIsOnRecord, AnswersAreOnRecord, TypeOK, OnRecord
  <2>. QED  BY <2>1, <2>2, <2>3
<1>4. ASSUME NEW w \in rows, w.request = arg[c], w.response # Null,
             Goto(c, "verify"), Hold(c, w.response), UNCHANGED answer
      PROVE  Inv'
  <2>. USE <1>1, <1>4
  <2>1. w.response = signTransaction(arg[c]) /\ OnRecord(arg[c])
    BY DEF StoredIsOnRecord
  <2>2. TypeOK' /\ BusyHasArgument'
    BY <2>1, SignatureType DEF TypeOK, BusyHasArgument
  <2>3. WorkingHasRow' /\ OneWorker' /\ RowsAreUnique' /\ SignedHasRow' /\ SignedOnce'
    BY DEF WorkingHasRow, OneWorker, RowsAreUnique, SignedHasRow, SignedOnce, TypeOK
  <2>4. Progress' /\ StoredIsOnRecord' /\ AnswersAreOnRecord'
    BY <2>1 DEF Progress, StoredIsOnRecord, AnswersAreOnRecord, TypeOK, OnRecord
  <2>. QED  BY <2>2, <2>3, <2>4
<1>. QED  BY <1>2, <1>3, <1>4 DEF Find

LEMMA VerifyInv ==
  ASSUME Inv, NEW c \in Call, Verify(c)
  PROVE  Inv'
<1>. USE DEF Inv
<1>1. /\ pc[c] = "verify" /\ arg[c] \in Request /\ UNCHANGED <<rows, log, stale, signed, arg>>
      /\ held[c] = signTransaction(arg[c]) /\ OnRecord(arg[c])
  BY DEF Verify, BusyHasArgument, Progress
<1>2. Answer(c, held[c]) /\ UNCHANGED held
  BY <1>1 DEF Verify
<1>. USE <1>1, <1>2
<1>3. TypeOK' /\ BusyHasArgument'
  BY SignatureType DEF TypeOK, BusyHasArgument
<1>4. WorkingHasRow' /\ OneWorker' /\ RowsAreUnique' /\ SignedHasRow' /\ SignedOnce'
  BY DEF WorkingHasRow, OneWorker, RowsAreUnique, SignedHasRow, SignedOnce, TypeOK
<1>5. Progress' /\ StoredIsOnRecord'
  BY DEF Progress, StoredIsOnRecord, TypeOK, OnRecord
<1>6. AnswersAreOnRecord'
  BY DEF AnswersAreOnRecord, TypeOK, OnRecord
<1>. QED  BY <1>3, <1>4, <1>5, <1>6

LEMMA ReserveInv ==
  ASSUME Inv, NEW c \in Call, Reserve(c)
  PROVE  Inv'
<1>. DEFINE row == [request |-> arg[c], response |-> Null]
<1>. USE DEF Inv
<1>1. pc[c] = "reserve" /\ arg[c] \in Request /\ UNCHANGED <<log, stale, signed, arg>>
  BY DEF Reserve, BusyHasArgument
<1>2. CASE taken(arg[c])
  BY <1>1, <1>2, RefuseInv DEF Reserve, TypeOK
<1>3. CASE ~taken(arg[c])
  <2>1. rows' = rows \cup {row} /\ Goto(c, "requested") /\ UNCHANGED <<held, answer>>
    BY <1>3 DEF Reserve
  <2>2. \A w \in rows : /\ w.request.key # arg[c].key
                        /\ w.request.intentId # arg[c].intentId
                        /\ w.request.nonce # arg[c].nonce
    BY <1>3 DEF taken
  <2>. USE <1>1, <2>1
  <2>3. TypeOK' /\ BusyHasArgument'
    BY DEF TypeOK, BusyHasArgument, Row
  <2>4. RowsAreUnique' /\ SignedHasRow'
    BY <2>2 DEF RowsAreUnique, SignedHasRow
  <2>9. signed[arg[c]] = 0
    BY <2>2 DEF SignedHasRow, TypeOK
  <2>10. SignedOnce'
    BY <2>9 DEF SignedOnce, TypeOK
  <2>5. WorkingHasRow'
    BY DEF WorkingHasRow, TypeOK
  <2>6. \A d \in Call : pc[d] \in Working => arg[d] # arg[c]
    BY <2>2 DEF WorkingHasRow
  <2>7. OneWorker'
    BY <2>6 DEF OneWorker, TypeOK
  <2>8. Progress' /\ StoredIsOnRecord' /\ AnswersAreOnRecord'
    BY DEF Progress, StoredIsOnRecord, AnswersAreOnRecord, TypeOK, OnRecord
  <2>. QED  BY <2>3, <2>4, <2>5, <2>7, <2>8, <2>10
<1>. QED  BY <1>2, <1>3

LEMMA AuditRequestedInv ==
  ASSUME Inv, NEW c \in Call, AuditRequested(c)
  PROVE  Inv'
<1>. DEFINE event == [type |-> "requested", request |-> arg[c]]
<1>. USE DEF Inv
<1>1. /\ pc[c] = "requested" /\ arg[c] \in Request /\ UNCHANGED <<rows, stale, signed, arg>>
      /\ event \in Event
  BY DEF AuditRequested, BusyHasArgument, Event
<1>2. CASE AuditFails(c, event)
  <2>1. log \subseteq log' /\ log' \subseteq Event /\ Refuse(c, 500)
    BY <1>1, <1>2 DEF AuditFails, TypeOK
  <2>. QED  BY <1>1, <2>1, RefuseInv DEF TypeOK
<1>3. CASE log' = log \cup {event} /\ Goto(c, "sign") /\ UNCHANGED <<held, answer>>
  <2>. USE <1>1, <1>3
  <2>1. TypeOK' /\ BusyHasArgument'
    BY DEF TypeOK, BusyHasArgument
  <2>2. WorkingHasRow' /\ OneWorker' /\ RowsAreUnique' /\ SignedHasRow' /\ SignedOnce'
    BY DEF WorkingHasRow, OneWorker, RowsAreUnique, SignedHasRow, SignedOnce, TypeOK
  <2>3. Progress' /\ StoredIsOnRecord' /\ AnswersAreOnRecord'
    BY DEF Progress, StoredIsOnRecord, AnswersAreOnRecord, TypeOK, OnRecord
  <2>. QED  BY <2>1, <2>2, <2>3
<1>. QED  BY <1>2, <1>3 DEF AuditRequested

LEMMA SignInv ==
  ASSUME Inv, NEW c \in Call, Sign(c)
  PROVE  Inv'
<1>. USE DEF Inv
<1>1. pc[c] = "sign" /\ arg[c] \in Request /\ UNCHANGED <<rows, log, stale, arg>>
  BY DEF Sign, BusyHasArgument
<1>2. CASE Refuse(c, 500) /\ UNCHANGED signed
  BY <1>1, <1>2, RefuseInv DEF TypeOK
<1>3. CASE /\ signed' = [signed EXCEPT ![arg[c]] = @ + 1] /\ Hold(c, signTransaction(arg[c]))
           /\ Goto(c, "completed") /\ UNCHANGED answer
  <2>. USE <1>1, <1>3
  <2>1. TypeOK' /\ BusyHasArgument'
    BY SignatureType DEF TypeOK, BusyHasArgument
  <2>2. WorkingHasRow' /\ OneWorker' /\ RowsAreUnique'
    BY DEF WorkingHasRow, OneWorker, RowsAreUnique, TypeOK
  <2>3. [request |-> arg[c], response |-> Null] \in rows
    BY DEF WorkingHasRow
  <2>4. /\ signed[arg[c]] = 0 /\ signed'[arg[c]] = 1
        /\ \A r \in Request \ {arg[c]} : signed'[r] = signed[r]
    BY DEF SignedOnce, TypeOK
  <2>5. SignedHasRow'
    BY <2>3, <2>4 DEF SignedHasRow
  <2>6. SignedOnce'
    <3>1. \A d \in Call \ {c} : pc[d] \in {"requested", "sign"} => arg[d] \in Request \ {arg[c]}
      BY DEF OneWorker, BusyHasArgument
    <3>2. \A d \in Call : pc'[d] \in {"requested", "sign"} => d # c /\ pc[d] = pc'[d]
      BY DEF TypeOK
    <3>. QED  BY <2>4, <3>1, <3>2 DEF SignedOnce
  <2>7. \A r \in Request : signed[r] > 0 => signed'[r] > 0
    BY <2>4
  <2>8. Progress'
    BY <2>4, <2>7 DEF Progress, OnRecord, TypeOK, BusyHasArgument
  <2>9. StoredIsOnRecord'
    <3>1. \A w \in rows : w.request \in Request
      BY DEF TypeOK, Row
    <3>. QED  BY <2>7, <3>1 DEF StoredIsOnRecord, OnRecord
  <2>10. AnswersAreOnRecord'
    <3>1. \A d \in Call : answer[d] \notin Refusal \cup {Null} =>
             signed[arg[d]] > 0 /\ signed'[arg[d]] > 0
      <4>1. ASSUME NEW d \in Call, answer[d] \notin Refusal \cup {Null}
            PROVE  arg[d] \in Request
        BY <4>1 DEF TypeOK, AnswersAreOnRecord, BusyHasArgument
      <4>. QED  BY <2>7, <4>1 DEF AnswersAreOnRecord
    <3>. QED  BY <3>1 DEF AnswersAreOnRecord
  <2>. QED  BY <2>1, <2>2, <2>5, <2>6, <2>8, <2>9, <2>10
<1>. QED  BY <1>2, <1>3 DEF Sign

LEMMA AuditCompletedInv ==
  ASSUME Inv, NEW c \in Call, AuditCompleted(c)
  PROVE  Inv'
<1>. DEFINE event == [type |-> "completed", request |-> arg[c]]
<1>. USE DEF Inv
<1>1. /\ pc[c] = "completed" /\ arg[c] \in Request /\ UNCHANGED <<rows, stale, signed, arg>>
      /\ event \in Event
  BY DEF AuditCompleted, BusyHasArgument, Event
<1>2. CASE AuditFails(c, event)
  <2>1. log \subseteq log' /\ log' \subseteq Event /\ Refuse(c, 500)
    BY <1>1, <1>2 DEF AuditFails, TypeOK
  <2>. QED  BY <1>1, <2>1, RefuseInv DEF TypeOK
<1>3. CASE log' = log \cup {event} /\ Goto(c, "complete") /\ UNCHANGED <<held, answer>>
  <2>. USE <1>1, <1>3
  <2>1. TypeOK' /\ BusyHasArgument'
    BY DEF TypeOK, BusyHasArgument
  <2>2. WorkingHasRow' /\ OneWorker' /\ RowsAreUnique' /\ SignedHasRow' /\ SignedOnce'
    BY DEF WorkingHasRow, OneWorker, RowsAreUnique, SignedHasRow, SignedOnce, TypeOK
  <2>3. Progress' /\ StoredIsOnRecord' /\ AnswersAreOnRecord'
    BY DEF Progress, StoredIsOnRecord, AnswersAreOnRecord, TypeOK, OnRecord
  <2>. QED  BY <2>1, <2>2, <2>3
<1>. QED  BY <1>2, <1>3 DEF AuditCompleted

LEMMA CompleteInv ==
  ASSUME Inv, NEW c \in Call, Complete(c)
  PROVE  Inv'
<1>. DEFINE mine == {w \in rows : w.request.key = arg[c].key /\ w.response = Null}
<1>. DEFINE row == [request |-> arg[c], response |-> Null]
<1>. DEFINE answered == [request |-> arg[c], response |-> held[c]]
<1>. USE DEF Inv
<1>1. pc[c] = "complete" /\ arg[c] \in Request /\ UNCHANGED <<log, stale, signed, arg>>
  BY DEF Complete, BusyHasArgument
<1>2. CASE Refuse(c, 500) /\ UNCHANGED rows
  BY <1>1, <1>2, RefuseInv DEF TypeOK
<1>3. CASE /\ rows' = (rows \ mine) \cup {[w EXCEPT !.response = held[c]] : w \in mine}
           /\ Goto(c, "respond") /\ UNCHANGED <<held, answer>>
  <2>1. row \in rows
    BY <1>1 DEF WorkingHasRow
  <2>2. mine = {row}
    BY <2>1 DEF RowsAreUnique
  <2>3. [row EXCEPT !.response = held[c]] = answered
    OBVIOUS
  <2>4. rows' = (rows \ {row}) \cup {answered}
    BY <1>3, <2>2, <2>3
  <2>5. held[c] = signTransaction(arg[c]) /\ OnRecord(arg[c])
    BY <1>1 DEF Progress, OnRecord
  <2>6. answered \in Row
    BY <1>1, <2>5, SignatureType DEF Row
  <2>. HIDE DEF mine
  <2>7. TypeOK' /\ BusyHasArgument'
    BY <1>1, <1>3, <2>4, <2>6 DEF TypeOK, BusyHasArgument
  <2>8. RowsAreUnique'
    BY <2>1, <2>4 DEF RowsAreUnique
  <2>9. SignedHasRow'
    <3>1. ASSUME NEW r \in Request, signed[r] > 0 PROVE \E w \in rows' : w.request = r
      <4>1. PICK w \in rows : w.request = r
        BY <3>1 DEF SignedHasRow
      <4>2. CASE w = row
        <5>1. answered.request = r
          BY <4>1, <4>2
        <5>. QED  BY <2>4, <5>1
      <4>3. CASE w # row
        BY <2>4, <4>1, <4>3
      <4>. QED  BY <4>2, <4>3
    <3>. QED  BY <1>1, <3>1 DEF SignedHasRow
  <2>14. SignedOnce'
    BY <1>1, <1>3 DEF SignedOnce, TypeOK
  <2>10. \A d \in Call : pc[d] \in Working /\ d # c => arg[d] # arg[c]
    BY <1>1 DEF OneWorker
  <2>11. WorkingHasRow' /\ OneWorker'
    BY <1>1, <1>3, <2>4, <2>10 DEF WorkingHasRow, OneWorker, TypeOK
  <2>12. Progress' /\ AnswersAreOnRecord'
    BY <1>1, <1>3, <2>5 DEF Progress, AnswersAreOnRecord, TypeOK, OnRecord
  <2>13. StoredIsOnRecord'
    BY <1>1, <2>4, <2>5 DEF StoredIsOnRecord, OnRecord
  <2>. QED  BY <2>7, <2>8, <2>9, <2>11, <2>12, <2>13, <2>14
<1>. QED  BY <1>2, <1>3 DEF Complete

LEMMA RespondInv ==
  ASSUME Inv, NEW c \in Call, Respond(c)
  PROVE  Inv'
<1>. USE DEF Inv
<1>1. /\ pc[c] = "respond" /\ arg[c] \in Request /\ UNCHANGED <<rows, log, stale, signed, arg, held>>
      /\ Answer(c, held[c]) /\ held[c] = signTransaction(arg[c]) /\ OnRecord(arg[c])
  BY DEF Respond, BusyHasArgument, Progress
<1>. USE <1>1
<1>2. TypeOK' /\ BusyHasArgument'
  BY SignatureType DEF TypeOK, BusyHasArgument
<1>3. WorkingHasRow' /\ OneWorker' /\ RowsAreUnique' /\ SignedHasRow' /\ SignedOnce'
  BY DEF WorkingHasRow, OneWorker, RowsAreUnique, SignedHasRow, SignedOnce, TypeOK
<1>4. Progress' /\ StoredIsOnRecord'
  BY DEF Progress, StoredIsOnRecord, TypeOK, OnRecord
<1>5. AnswersAreOnRecord'
  BY DEF AnswersAreOnRecord, TypeOK, OnRecord
<1>. QED  BY <1>2, <1>3, <1>4, <1>5

\* A crash leaves its calls where no invariant speaks of them, and what they
\* reserved stays reserved.
LEMMA CrashInv ==
  ASSUME Inv, NEW dead \in SUBSET Call, Crash(dead)
  PROVE  Inv'
<1>. USE DEF Inv, Crash
<1>1. TypeOK' /\ BusyHasArgument'
  BY DEF TypeOK, BusyHasArgument
<1>2. WorkingHasRow' /\ OneWorker' /\ RowsAreUnique' /\ SignedHasRow' /\ SignedOnce'
  BY DEF WorkingHasRow, OneWorker, RowsAreUnique, SignedHasRow, SignedOnce, TypeOK
<1>3. Progress' /\ StoredIsOnRecord' /\ AnswersAreOnRecord'
  BY DEF Progress, StoredIsOnRecord, AnswersAreOnRecord, TypeOK, OnRecord
<1>. QED  BY <1>1, <1>2, <1>3

-----------------------------------------------------------------------------
LEMMA NextInv == Inv /\ [Next]_vars => Inv'
<1>. SUFFICES ASSUME Inv, [Next]_vars PROVE Inv'
  OBVIOUS
<1>1. ASSUME NEW c \in Call, Step(c) PROVE Inv'
  <2>1. CASE \E r \in Request : Receive(c, r)
    BY <2>1, ReceiveInv
  <2>. QED
    BY <1>1, <2>1, FindInv, VerifyInv, ReserveInv, AuditRequestedInv, SignInv,
       AuditCompletedInv, CompleteInv, RespondInv DEF Step
<1>2. ASSUME NEW dead \in SUBSET Call, Crash(dead) PROVE Inv'
  BY <1>2, CrashInv
<1>3. ASSUME NEW a \in Approval, Expire(a) PROVE Inv'
  BY <1>3 DEF Expire, Inv, TypeOK, BusyHasArgument, RowsAreUnique, SignedHasRow, SignedOnce,
    WorkingHasRow, OneWorker, Progress, StoredIsOnRecord, AnswersAreOnRecord, OnRecord
<1>4. CASE UNCHANGED vars
  BY <1>4 DEF vars, Inv, TypeOK, BusyHasArgument, RowsAreUnique, SignedHasRow, SignedOnce,
    WorkingHasRow, OneWorker, Progress, StoredIsOnRecord, AnswersAreOnRecord, OnRecord
<1>. QED  BY <1>1, <1>2, <1>3, <1>4 DEF Next

LEMMA InvAlways == Spec => []Inv
<1>1. Init => Inv
  BY InitInv
<1>2. Inv /\ [Next]_vars => Inv'
  BY NextInv
<1>. QED  BY <1>1, <1>2, PTL DEF Spec

\* Every variable keeps its type, however calls interleave, fail and die.
THEOREM TypeCorrect == Spec => []TypeOK
<1>1. Inv => TypeOK
  BY DEF Inv
<1>. QED  BY <1>1, InvAlways, PTL

\* Nothing is ever signed twice, nor two transactions under one idempotency key, for one
\* intent or with one nonce, for any number of calls, processes and crashes
\* (the UNIQUE columns of signer_requests, reserved before signTransaction).
THEOREM SignsOnce == Spec => []OneSignature
<1>1. Inv => OneSignature
  <2>. SUFFICES ASSUME Inv, NEW r \in Request, NEW s \in Request, signed[r] > 0, signed[s] > 0,
                       r.key = s.key \/ r.intentId = s.intentId \/ r.nonce = s.nonce
                PROVE  r = s /\ signed[r] = 1
    BY DEF OneSignature
  <2>1. PICK v \in rows : v.request = r
    BY DEF Inv, SignedHasRow
  <2>2. PICK w \in rows : w.request = s
    BY DEF Inv, SignedHasRow
  <2>3. r = s
    BY <2>1, <2>2 DEF Inv, RowsAreUnique
  <2>4. signed[r] = 1
    BY DEF Inv, SignedOnce, TypeOK
  <2>. QED  BY <2>3, <2>4
<1>. QED  BY <1>1, InvAlways, PTL

\* No signature is answered, first or on a retry, before the events of its
\* request and of its completion are in the audit log.
THEOREM AnswersOnRecord == Spec => []AnswersAreOnRecord
<1>1. Inv => AnswersAreOnRecord
  BY DEF Inv
<1>. QED  BY <1>1, InvAlways, PTL
===============================================================================
