----------------------------- MODULE AuditChain -----------------------------
(***************************************************************************)
(* AuditWriter (packages/audit/src/writer.ts): a hash chain of events in a *)
(* SQLite database, whose head is kept a second time in an anchor file.    *)
(* The row is committed first, the anchor replaced afterwards.             *)
(*                                                                         *)
(* The hash of a row covers everything before it, so the head of the chain *)
(* is modelled by the sequence of its events, and a missing anchor file,   *)
(* which verifies against an empty chain alone, by the empty sequence.     *)
(* One writer is open at a time (docs/deployment-profiles.md); it may be a *)
(* process that restarts, or the fresh writer of an operator's command.    *)
(***************************************************************************)
EXTENDS Naturals, Sequences, Functions

CONSTANTS
  Event,        \* event ids; an id stands for its content
  Anonymous,    \* events written without an id of their own: never retried
  MaxRewinds    \* how often the database may be restored from a backup

ASSUME ChainAssumption ==
  /\ Anonymous \subseteq Event
  /\ MaxRewinds \in Nat

VARIABLES
  rows,         \* audit_events
  anchor,       \* the head kept in the anchor file
  writer,       \* where the open writer is
  toAnchor,     \* committedHash of the write in progress
  toRepair,     \* pendingAnchorRepairHash; empty when undefined
  current,      \* the event being written
  tried,        \* events whose write has begun
  acked,        \* events whose write returned (history)
  excused,      \* acknowledged events that a repair gave up (history)
  rewinds       \* restores so far (bound)

vars == <<rows, anchor, writer, toAnchor, toRepair, current, tried, acked, excused, rewinds>>

None == <<>>

Written == Range(rows)

TypeOK ==
  /\ rows \in Seq(Event) /\ anchor \in Seq(Event)
  /\ writer \in {"closed", "ready", "anchoring"}
  /\ toAnchor \in Seq(Event) /\ toRepair \in Seq(Event)
  /\ IF writer = "anchoring" THEN current \in Event ELSE current = None
  /\ tried \subseteq Event /\ acked \subseteq tried /\ excused \subseteq acked
  /\ rewinds \in 0..MaxRewinds

Init ==
  /\ rows = <<>> /\ anchor = <<>>
  /\ writer = "closed" /\ toAnchor = None /\ toRepair = None /\ current = None
  /\ tried = {} /\ acked = {} /\ excused = {} /\ rewinds = 0

-----------------------------------------------------------------------------
(***************************************************************************)
(* The constructor: recoverLastHash, then verifyAnchoredHash(repair).      *)
(***************************************************************************)
\* Mutant: an anchor must exist, whatever it says.
AnchorExists == rows = <<>> \/ anchor # <<>>

Verified == anchor = rows

\* Mutant: the constructor does not verify the anchor.
OpenUnverified ==
  /\ writer = "closed"
  /\ writer' = "ready"
  /\ UNCHANGED <<rows, anchor, toAnchor, toRepair, current, tried, acked, excused, rewinds>>

Open ==
  /\ writer = "closed" /\ Verified
  /\ writer' = "ready"
  /\ UNCHANGED <<rows, anchor, toAnchor, toRepair, current, tried, acked, excused, rewinds>>

\* An operator repairs the anchor: what the chain has lost is lost knowingly.
OpenRepairing ==
  /\ writer = "closed" /\ ~Verified
  /\ anchor' = rows
  /\ excused' = acked \ Written
  /\ writer' \in {"ready", "closed"}
  /\ UNCHANGED <<rows, toAnchor, toRepair, current, tried, acked, rewinds>>

-----------------------------------------------------------------------------
(***************************************************************************)
(* write: one IMMEDIATE transaction, then the anchor.  A write that throws *)
(* inside the transaction changes nothing.                                 *)
(***************************************************************************)
Acknowledge(e) ==
  /\ acked' = acked \cup {e}
  /\ excused' = excused \ {e}

\* Anonymous events get a fresh id with every write.
MayWrite(e) == writer = "ready" /\ ~(e \in Anonymous /\ e \in tried)

\* Mutants: the anchor is not verified before a row is added; nor the id looked up.
WriteUnverified(e) ==
  /\ MayWrite(e) /\ e \notin Written
  /\ rows' = Append(rows, e)
  /\ toAnchor' = Append(rows, e)
  /\ current' = e
  /\ tried' = tried \cup {e}
  /\ writer' = "anchoring"
  /\ UNCHANGED <<anchor, toRepair, acked, excused, rewinds>>

WriteTwice(e) ==
  /\ MayWrite(e) /\ Verified
  /\ rows' = Append(rows, e)
  /\ toAnchor' = Append(rows, e)
  /\ current' = e
  /\ tried' = tried \cup {e}
  /\ writer' = "anchoring"
  /\ UNCHANGED <<anchor, toRepair, acked, excused, rewinds>>

\* The event is new: the chain is extended from an anchored head alone.
WriteNew(e) ==
  /\ MayWrite(e) /\ e \notin Written /\ Verified
  /\ rows' = Append(rows, e)
  /\ toAnchor' = Append(rows, e)
  /\ current' = e
  /\ tried' = tried \cup {e}
  /\ writer' = "anchoring"
  /\ UNCHANGED <<anchor, toRepair, acked, excused, rewinds>>

\* The event is the head whose anchor this writer failed to replace.
Repairable(e) == e = rows[Len(rows)] /\ toRepair = rows

WriteAgain(e) ==
  /\ MayWrite(e) /\ e \in Written /\ Repairable(e)
  /\ toAnchor' = rows
  /\ current' = e
  /\ tried' = tried \cup {e}
  /\ writer' = "anchoring"
  /\ UNCHANGED <<rows, anchor, toRepair, acked, excused, rewinds>>

\* Mutant: a known event is acknowledged without a look at the anchor.
WriteKnownUnverified(e) ==
  /\ MayWrite(e) /\ e \in Written
  /\ Acknowledge(e)
  /\ tried' = tried \cup {e}
  /\ UNCHANGED <<rows, anchor, writer, toAnchor, toRepair, current, rewinds>>

\* The event is in the chain, and the chain is anchored.
WriteKnown(e) ==
  /\ MayWrite(e) /\ e \in Written /\ ~Repairable(e) /\ Verified
  /\ Acknowledge(e)
  /\ tried' = tried \cup {e}
  /\ UNCHANGED <<rows, anchor, writer, toAnchor, toRepair, current, rewinds>>

WriteFails(e) ==
  /\ MayWrite(e)
  /\ tried' = tried \cup {e}
  /\ UNCHANGED <<rows, anchor, writer, toAnchor, toRepair, current, acked, excused, rewinds>>

Settled == toAnchor' = None /\ current' = None /\ writer' = "ready"

AnchorSucceeds ==
  /\ writer = "anchoring"
  /\ anchor' = toAnchor
  /\ toRepair' = IF toRepair = toAnchor THEN None ELSE toRepair
  /\ Acknowledge(current)
  /\ Settled
  /\ UNCHANGED <<rows, tried, rewinds>>

\* The file is not replaced, or it is and only the sync of its directory fails.
AnchorFails ==
  /\ writer = "anchoring"
  /\ anchor' \in {anchor, toAnchor}
  /\ toRepair' = toAnchor
  /\ Settled
  /\ UNCHANGED <<rows, tried, acked, excused, rewinds>>

-----------------------------------------------------------------------------
(***************************************************************************)
(* The environment.                                                        *)
(***************************************************************************)
Crash ==
  /\ writer # "closed"
  /\ writer' = "closed" /\ toAnchor' = None /\ toRepair' = None /\ current' = None
  /\ UNCHANGED <<rows, anchor, tried, acked, excused, rewinds>>

\* The database is restored from a copy that is missing its newest rows.
Rewind(n) ==
  /\ rewinds < MaxRewinds /\ writer = "closed"
  /\ n < Len(rows)
  /\ rows' = SubSeq(rows, 1, n)
  /\ rewinds' = rewinds + 1
  /\ UNCHANGED <<anchor, writer, toAnchor, toRepair, current, tried, acked, excused>>

Next ==
  \/ Open \/ OpenRepairing \/ AnchorSucceeds \/ AnchorFails \/ Crash
  \/ \E e \in Event : WriteNew(e) \/ WriteAgain(e) \/ WriteKnown(e) \/ WriteFails(e)
  \/ \E n \in 0..(Len(rows) - 1) : Rewind(n)

Spec == Init /\ [][Next]_vars

-----------------------------------------------------------------------------
\* The chain is never extended past an event that is not anchored: as long as
\* the database is not restored, the anchor is the chain or all but its head.
AnchorIsAtMostOneBehind ==
  rewinds = 0 => \/ anchor = rows
                 \/ rows # <<>> /\ anchor = SubSeq(rows, 1, Len(rows) - 1)

\* A write that returned has its event in the chain and under the anchor,
\* whether it wrote the event, found it, or replaced its anchor.
AckedIsAnchored ==
  acked \ excused \subseteq Range(anchor)

\* No event is in the chain twice, however often it was retried.
NoEventTwice == IsInjective(rows)

\* Once acknowledged rows are lost no write succeeds, until an operator repairs
\* the anchor and thereby gives them up.
LossStopsWriting ==
  [][acked' # acked \/ Len(rows') > Len(rows) => acked \ excused \subseteq Written]_vars

\* A chain that lost rows is told apart from one that did not: no writer is
\* open on it unless it is the chain that was anchored, or ends in the one
\* event this writer has still to anchor.
OpenOnlyOnItsChain ==
  writer = "ready" => Verified \/ toRepair = rows

\* An open writer works on a chain that holds every acknowledged event.
WriterMissesNothing ==
  writer # "closed" => acked \ excused \subseteq Written

\* The write in progress is the head of the chain.
AnchoringTheHead ==
  writer = "anchoring" => rows # <<>> /\ toAnchor = rows /\ current \in Written \cap tried

\* The parts of the inductive invariant.
Inv ==
  /\ TypeOK /\ NoEventTwice
  /\ AnchorIsAtMostOneBehind /\ AckedIsAnchored /\ OpenOnlyOnItsChain
  /\ WriterMissesNothing /\ AnchoringTheHead
=============================================================================
