--------------------------- MODULE BrokerInvariant ---------------------------
(***************************************************************************)
(* The inductive invariant behind the safety properties of Broker.  Its    *)
(* heart: from the reservation to the record, the reserving call is the    *)
(* only one whose key reads in_progress, and a call that has submitted     *)
(* holds its key or has left the entry in a state that nobody can reserve. *)
(***************************************************************************)
EXTENDS Broker

\* Places at which a call holds an unfinished reservation.
Holding == {"precheck", "revalidating", "consume", "executing", "sending",
            "submitted", "complete", "finish", "abort"}

\* Places a call can be at once it has submitted its side effect.
Beyond == {"submitted", "complete", "audit", "auditUnstored", "closeAudit", "done", "crashed"}

Holds(c) == pc[c] \in Holding

\* A call past "idle" has its arguments; before, it has left no trace; it has
\* answered when it is done and not before.
Called ==
  \A c \in Call :
    /\ pc[c] # "done" => answer[c] = Null
    /\ IF pc[c] = "idle"
       THEN decision[c] = Null /\ proc[c] = Null /\ c \notin effects /\ promise[c] = "open"
       ELSE decision[c] \in Decision /\ proc[c] \in Proc

EntriesWellFormed ==
  \A k \in Key :
    \/ file[k] = Free
    \/ \E i \in Intent : ScopedKey[i] = k /\ file[k] = InProgress(i)
    \/ \E i \in Intent, v \in Verdict, e \in Event \cup {Null} :
         ScopedKey[i] = k /\ file[k] = Cached(i, v, e)

\* The file and the map of its process know a reservation and its owner.
HolderKnown ==
  \A c \in Call : Holds(c) =>
    /\ file[KeyOf(c)] = InProgress(IntentOf(c))
    /\ pending[proc[c]][KeyOf(c)] = [owner |-> c, payload |-> IntentOf(c)]

HolderAlone ==
  \A c, d \in Call : Holds(c) /\ Holds(d) /\ KeyOf(c) = KeyOf(d) => c = d

\* The map names calls of this process that reserved the key.
MapSound ==
  \A p \in Proc, k \in Key, o \in Call :
    pending[p][k] # Null /\ pending[p][k].owner = o =>
      pc[o] # "idle" /\ IntentOf(o) = pending[p][k].payload /\ KeyOf(o) = k

SubmittedKeyClosed ==
  \A c \in effects :
    /\ pc[c] \in Beyond
    /\ file[KeyOf(c)].status # "free"
    /\ \A d \in Call : Holds(d) /\ KeyOf(d) = KeyOf(c) => d = c

\* A call whose result could not be stored has left its key closed, too.
UnstoredKeyClosed ==
  \A c \in Call : pc[c] = "auditUnstored" =>
    /\ file[KeyOf(c)].status # "free"
    /\ \A d \in Call : Holds(d) => KeyOf(d) # KeyOf(c)

\* What a call is about to record is true about its side effect.
PlanTruthful ==
  \A c \in Call :
    /\ pc[c] = "submitted" => c \in effects
    /\ pc[c] = "finish" => verdict[c] \in Rejection
    /\ pc[c] = "abort" => verdict[c] \in Transient
    /\ pc[c] = "complete" =>
         /\ verdict[c] \in Terminal
         /\ verdict[c] = "executed" => c \in effects
         /\ verdict[c] = "not_submitted" => c \notin effects

\* What the file says about a key is true about its side effects.
RecordTruthful ==
  \A k \in Key :
    /\ file[k].result \in Unsent => \A c \in effects : KeyOf(c) # k
    /\ file[k].result = "executed" => \E c \in effects : IntentOf(c) = file[k].payload

\* The recorded result of the call's own payload is v.
RecordedFor(c, v) ==
  /\ file[KeyOf(c)].status = "cached"
  /\ file[KeyOf(c)].payload = IntentOf(c)
  /\ file[KeyOf(c)].result = v

\* Whatever is about to be returned, or was, is the recorded result.
AnswersRecorded ==
  \A c \in Call :
    /\ pc[c] \in {"audit", "closeAudit", "flush", "closeFlush"} => RecordedFor(c, verdict[c])
    /\ answer[c] \in Verdict => RecordedFor(c, answer[c])
    /\ promise[c] \in Verdict => RecordedFor(c, promise[c])
    /\ pc[c] = "waiting" =>
         owner[c] \in Call /\ pc[owner[c]] # "idle" /\ IntentOf(owner[c]) = IntentOf(c)

\* The approval of a call that has passed the consumption is its own, and spent.
ApprovalHeld ==
  \A c \in Call :
    LET a == decision[c].approvalId IN
    /\ pc[c] \in {"revalidating", "consume"} /\ a # Null => ApprovalMatches(c)
    /\ pc[c] = "consume" => a # Null
    /\ (pc[c] \in {"executing", "sending"} \/ c \in effects) /\ a # Null
         => approvals[a] = "consumed" /\ ApprovalMatches(c)
    /\ (Holds(c) \/ pc[c] = "begin" \/ c \in effects) /\ decision[c].outcome = "needs_human"
         => a # Null

\* The terminal event of this payload and result.
Describes(e, i, v) ==
  e \in Event /\ e.intent = i /\ (e.type = "broker.executed" <=> v = "executed")

\* Until it is in the log, whoever returns a terminal result still owes it.
AuditOwed ==
  /\ \A c \in Call :
       /\ pc[c] \in {"audit", "auditUnstored", "closeAudit"} => verdict[c] \in Terminal
       /\ pc[c] = "closeAudit" => EventOf(c, verdict[c]) \in trail
       /\ pc[c] \in {"flush", "closeFlush"} => Describes(event[c], IntentOf(c), verdict[c])
       /\ pc[c] = "closeFlush" => event[c] \in trail
       /\ answer[c] \in Terminal => Audited(IntentOf(c), answer[c])
       /\ promise[c] \in Terminal => Audited(IntentOf(c), promise[c])
  /\ \A k \in Key :
       LET entry == file[k] IN
       /\ entry.pendingAudit # Null => Describes(entry.pendingAudit, entry.payload, entry.result)
       /\ entry.pendingAudit = Null /\ entry.result \in Terminal
            => Audited(entry.payload, entry.result)

\* A terminal event of the key that is recorded or that someone may write.
EventFor(k, e) ==
  \/ e \in trail /\ ScopedKey[e.intent] = k
  \/ \E c \in Call : /\ pc[c] \in {"audit", "auditUnstored", "closeAudit"}
                     /\ KeyOf(c) = k /\ e = EventOf(c, verdict[c])
  \/ \E c \in Call : pc[c] \in {"flush", "closeFlush"} /\ KeyOf(c) = k /\ e = event[c]
  \/ e = file[k].pendingAudit

\* There is one at most, and it closes its key.
OneEvent ==
  \A k \in Key, e \in Event : EventFor(k, e) =>
    /\ \A other \in Event : EventFor(k, other) => other = e
    /\ file[k].status # "free"
    /\ \A c \in Call : Holds(c) => KeyOf(c) # k

\* A call between its last check and its request runs, and the switch of its
\* process is still what it saw, unless it only reads or has to await answers.
LastCheckHolds ==
  \A c \in Call :
    pc[c] = "sending" /\ IntentOf(c) \notin Reading \cup Deferred =>
      loop[proc[c]] = c /\ Clear(proc[c], IntentOf(c))

Inv ==
  /\ TypeOK
  /\ Called
  /\ EntriesWellFormed
  /\ HolderKnown
  /\ HolderAlone
  /\ MapSound
  /\ SubmittedKeyClosed
  /\ AtMostOneSubmission
  /\ UnstoredKeyClosed
  /\ PlanTruthful
  /\ RecordTruthful
  /\ AnswersRecorded
  /\ ApprovalHeld
  /\ AuditOwed
  /\ OneEvent
  /\ LastCheckHolds
=============================================================================
