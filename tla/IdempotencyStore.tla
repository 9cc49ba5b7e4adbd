-------------------------- MODULE IdempotencyStore --------------------------
(***************************************************************************)
(* FileBrokerIdempotencyStore (packages/broker/src/idempotency-store.ts):  *)
(* the durable record that makes ExecutionBroker.execute happen at most    *)
(* once per scoped idempotency key.                                        *)
(*                                                                         *)
(* One JSON file is shared by every broker process; each access to it is   *)
(* one read-update-rename under a SQLite lock, so it is one atomic step    *)
(* here.  Each process also keeps a map of the reservations it is serving, *)
(* with the promise that later calls of the same process wait on.          *)
(*                                                                         *)
(* This module defines the store's operations; Broker conjoins them with   *)
(* the steps of the calls that use the store.                              *)
(***************************************************************************)
CONSTANTS
  Proc,         \* broker processes that share the file
  Call,         \* calls of ExecutionBroker.execute
  Intent,       \* trading intents; the payload hash is the intent itself
  Key,          \* scoped idempotency keys
  ScopedKey,    \* the scoped key of each intent: key, principal, action, resource
  Verdict,      \* results an entry can hold
  Event,        \* terminal audit events an entry can hold
  Null          \* undefined

ASSUME StoreAssumption ==
  /\ ScopedKey \in [Intent -> Key]
  /\ Null \notin Intent /\ Null \notin Verdict /\ Null \notin Event /\ Null \notin Call
  /\ Null \notin [owner : Call, payload : Intent]
  /\ Verdict \cap {"open", "broken"} = {}

VARIABLES
  file,         \* the JSON file: an entry per key
  pending,      \* per process, the reservation it serves for each key
  promise       \* the promise created with each reservation

storeVars == <<file, pending, promise>>

-----------------------------------------------------------------------------
(***************************************************************************)
(* Entries of the file.  A key without an entry is "free".                 *)
(***************************************************************************)
Free == [status |-> "free", payload |-> Null, result |-> Null, pendingAudit |-> Null]

InProgress(i) ==
  [status |-> "in_progress", payload |-> i, result |-> Null, pendingAudit |-> Null]

Cached(i, v, e) ==
  [status |-> "cached", payload |-> i, result |-> v, pendingAudit |-> e]

FileEntry ==
  [status : {"free", "in_progress", "cached"}, payload : Intent \cup {Null},
   result : Verdict \cup {Null}, pendingAudit : Event \cup {Null}]

Reservation == [owner : Call, payload : Intent]

StoreTypeOK ==
  /\ file \in [Key -> FileEntry]
  /\ pending \in [Proc -> [Key -> Reservation \cup {Null}]]
  /\ promise \in [Call -> Verdict \cup {"open", "broken"}]

StoreInit ==
  /\ file = [k \in Key |-> Free]
  /\ pending = [p \in Proc |-> [k \in Key |-> Null]]
  /\ promise = [c \in Call |-> "open"]

(***************************************************************************)
(* How withLockedState ends.  It throws without effect when the lock, the  *)
(* read, the write or the fsync fails ("lost"); it throws although the     *)
(* file is already replaced when only the fsync of the directory, which    *)
(* follows the rename, fails ("late").                                     *)
(***************************************************************************)
Outcome == {"ok", "lost", "late"}

WriteEntry(k, entry, o) ==
  file' = IF o = "lost" THEN file ELSE [file EXCEPT ![k] = entry]

Drop(p, k) == pending' = [pending EXCEPT ![p][k] = Null]

-----------------------------------------------------------------------------
(***************************************************************************)
(* begin.  The process map is consulted before the file.                   *)
(***************************************************************************)
Serving(p, i) == pending[p][ScopedKey[i]]

\* The process is already serving the same payload: wait for its promise.
JoinsPending(p, i) == Serving(p, i) # Null /\ Serving(p, i).payload = i

\* IdempotencyConflictError, from the process map or from the file.
Conflicts(p, i) ==
  LET entry == file[ScopedKey[i]] IN
  IF Serving(p, i) # Null
  THEN Serving(p, i).payload # i
  ELSE entry.status # "free" /\ entry.payload # i

\* Another process, or one that has crashed, holds the key.
HeldElsewhere(p, i) ==
  Serving(p, i) = Null /\ file[ScopedKey[i]] = InProgress(i)

FindsCached(p, i) ==
  /\ Serving(p, i) = Null
  /\ file[ScopedKey[i]].status = "cached"
  /\ file[ScopedKey[i]].payload = i

\* Mutant: an entry of the same payload that is held elsewhere is taken over.
TakesOver(p, c, i, o) ==
  LET k == ScopedKey[i] IN
  /\ Serving(p, i) = Null
  /\ file[k] \in {Free, InProgress(i)}
  /\ WriteEntry(k, InProgress(i), o)
  /\ pending' = IF o = "ok"
                THEN [pending EXCEPT ![p][k] = [owner |-> c, payload |-> i]]
                ELSE pending
  /\ UNCHANGED promise

\* The insertion of an in_progress entry and, if it did not throw, of the
\* reservation with a fresh promise.
Reserve(p, c, i, o) ==
  LET k == ScopedKey[i] IN
  /\ Serving(p, i) = Null
  /\ file[k] = Free
  /\ WriteEntry(k, InProgress(i), o)
  /\ pending' = IF o = "ok"
                THEN [pending EXCEPT ![p][k] = [owner |-> c, payload |-> i]]
                ELSE pending
  /\ UNCHANGED promise

-----------------------------------------------------------------------------
(***************************************************************************)
(* Operations of a reservation.  Each is a no-op on the map when the       *)
(* process no longer serves the payload.                                   *)
(***************************************************************************)
Complete(p, i, v, e, o) ==
  LET k == ScopedKey[i] IN
  IF ~JoinsPending(p, i)
  THEN UNCHANGED storeVars
  ELSE /\ WriteEntry(k, Cached(i, v, e), o)
       /\ IF o = "ok" /\ e # Null
          THEN UNCHANGED <<pending, promise>>
          ELSE /\ Drop(p, k)
               /\ promise' = [promise EXCEPT ![Serving(p, i).owner] =
                                IF o = "ok" THEN v ELSE "broken"]

\* completeAudit on the file, the same for the reservation and for a cached entry.
ClearPendingAudit(i, o) ==
  LET k == ScopedKey[i] IN
  IF file[k].status = "cached" /\ file[k].payload = i
  THEN WriteEntry(k, [file[k] EXCEPT !.pendingAudit = Null], o)
  ELSE UNCHANGED file

\* A failing completeAudit breaks the promise but leaves it in the map.
CompleteAudit(p, i, o) ==
  LET k == ScopedKey[i] IN
  /\ ClearPendingAudit(i, o)
  /\ IF ~JoinsPending(p, i)
     THEN UNCHANGED <<pending, promise>>
     ELSE /\ IF o = "ok" THEN Drop(p, k) ELSE UNCHANGED pending
          /\ promise' = [promise EXCEPT ![Serving(p, i).owner] =
                           IF o = "ok" /\ file[k].status = "cached" /\ file[k].payload = i
                           THEN file[k].result ELSE "broken"]

FlushedAudit(i, o) == ClearPendingAudit(i, o) /\ UNCHANGED <<pending, promise>>

\* Mutant: a failing audit write leaves the promise open.
FailAuditSilently(p, i) ==
  /\ IF JoinsPending(p, i) THEN Drop(p, ScopedKey[i]) ELSE UNCHANGED pending
  /\ UNCHANGED <<file, promise>>

FailAudit(p, i) ==
  IF ~JoinsPending(p, i)
  THEN UNCHANGED storeVars
  ELSE /\ Drop(p, ScopedKey[i])
       /\ promise' = [promise EXCEPT ![Serving(p, i).owner] = "broken"]
       /\ UNCHANGED file

Abort(p, i, o) ==
  LET k == ScopedKey[i] IN
  IF ~JoinsPending(p, i)
  THEN UNCHANGED storeVars
  ELSE /\ IF file[k] = InProgress(i) THEN WriteEntry(k, Free, o) ELSE UNCHANGED file
       /\ Drop(p, k)
       /\ promise' = [promise EXCEPT ![Serving(p, i).owner] = "broken"]

\* The map and its promises live in the memory of the process.
ForgetReservations(p) ==
  /\ pending' = [pending EXCEPT ![p] = [k \in Key |-> Null]]
  /\ UNCHANGED <<file, promise>>
=============================================================================
