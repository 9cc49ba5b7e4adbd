-------------------------- MODULE AuditChainProofs --------------------------
(***************************************************************************)
(* Proofs about AuditChain: its invariant, and that a chain which lost     *)
(* acknowledged events is not written to.                                  *)
(***************************************************************************)
EXTENDS AuditChain, SequenceTheorems, TLAPS

\* What appending does to the set of events, to the prefix and to injectivity.
LEMMA AppendFacts ==
  ASSUME NEW S, NEW s \in Seq(S), NEW e \in S
  PROVE  /\ Append(s, e) \in Seq(S) /\ Append(s, e) # <<>>
         /\ Range(Append(s, e)) = Range(s) \cup {e}
         /\ SubSeq(Append(s, e), 1, Len(Append(s, e)) - 1) = s
         /\ IsInjective(s) /\ e \notin Range(s) => IsInjective(Append(s, e))
<1>. DEFINE t == Append(s, e)
<1>1. /\ t \in Seq(S) /\ t # <<>> /\ Len(s) \in Nat
      /\ Len(t) = Len(s) + 1
      /\ \A i \in 1..Len(s) : t[i] = s[i]
      /\ t[Len(s) + 1] = e
  BY AppendProperties
<1>2. DOMAIN s = 1..Len(s) /\ DOMAIN t = 1..(Len(s) + 1)
  BY <1>1
<1>3. DOMAIN t = DOMAIN s \cup {Len(s) + 1}
  BY <1>1, <1>2
<1>4. Range(t) = Range(s) \cup {e}
  BY <1>1, <1>2, <1>3, Zenon DEF Range
<1>5. SubSeq(t, 1, Len(t) - 1) = s
  <2>. DEFINE u == SubSeq(t, 1, Len(s))
  <2>1. u \in Seq(S) /\ Len(u) = Len(s) /\ \A i \in 1..Len(s) : u[i] = s[i]
    BY <1>1
  <2>2. u = s
    BY <2>1, SeqEqual
  <2>. QED  BY <2>2, <1>1
<1>6. ASSUME IsInjective(s), e \notin Range(s) PROVE IsInjective(t)
  <2>1. \A i \in DOMAIN s : s[i] # e
    BY <1>6, Zenon DEF Range
  <2>. QED  BY <2>1, <1>1, <1>2, <1>6 DEF IsInjective
<1>. QED  BY <1>1, <1>4, <1>5, <1>6

\* A prefix of a chain without repetitions has none.
LEMMA PrefixFacts ==
  ASSUME NEW S, NEW s \in Seq(S), NEW n \in Nat, n < Len(s)
  PROVE  /\ SubSeq(s, 1, n) \in Seq(S)
         /\ IsInjective(s) => IsInjective(SubSeq(s, 1, n))
<1>. DEFINE t == SubSeq(s, 1, n)
<1>1. t \in Seq(S) /\ Len(t) = n /\ \A i \in 1..n : t[i] = s[i]
  BY SubSeqProperties
<1>2. DOMAIN t = 1..n /\ DOMAIN s = 1..Len(s)
  BY <1>1
<1>. QED  BY <1>1, <1>2 DEF IsInjective

LEMMA InitInv == Init => Inv
<1>. SUFFICES ASSUME Init PROVE Inv
  OBVIOUS
<1>1. TypeOK
  BY ChainAssumption DEF Init, TypeOK, None
<1>2. NoEventTwice
  BY DEF Init, NoEventTwice, IsInjective
<1>. QED
  BY <1>1, <1>2 DEF Init, Inv, AnchorIsAtMostOneBehind, AckedIsAnchored,
     OpenOnlyOnItsChain, WriterMissesNothing, AnchoringTheHead

\* A step that leaves the chain alone keeps it free of repetitions.
LEMMA SameRows ==
  ASSUME Inv, UNCHANGED rows PROVE NoEventTwice'
BY DEF Inv, NoEventTwice, IsInjective

\* Opening a verified chain: whatever is anchored is in it.
LEMMA OpenKeepsInv == Inv /\ Open => Inv'
<1>. SUFFICES ASSUME Inv, Open PROVE Inv'
  OBVIOUS
<1>1. NoEventTwice'
  BY SameRows DEF Open
<1>. QED
  BY <1>1 DEF Inv, Open, Verified, Written, TypeOK, None, AnchorIsAtMostOneBehind,
     AckedIsAnchored, OpenOnlyOnItsChain, WriterMissesNothing, AnchoringTheHead

\* A repair gives up what the chain does not hold.
LEMMA OpenRepairingKeepsInv == Inv /\ OpenRepairing => Inv'
<1>. SUFFICES ASSUME Inv, OpenRepairing PROVE Inv'
  OBVIOUS
<1>1. NoEventTwice'
  BY SameRows DEF OpenRepairing
<1>2. anchor' = rows /\ rows' = rows /\ acked' = acked /\ excused' = acked \ Range(rows)
  BY DEF OpenRepairing, Written
<1>3. (acked \ excused)' \subseteq Range(rows)
  BY <1>2
<1>4. AckedIsAnchored' /\ WriterMissesNothing' /\ AnchorIsAtMostOneBehind'
  BY <1>2, <1>3 DEF AckedIsAnchored, WriterMissesNothing, Written, AnchorIsAtMostOneBehind
<1>5. TypeOK' /\ OpenOnlyOnItsChain' /\ AnchoringTheHead'
  BY DEF Inv, OpenRepairing, TypeOK, None, OpenOnlyOnItsChain, AnchoringTheHead, Verified
<1>. QED  BY <1>1, <1>4, <1>5 DEF Inv

\* A new event extends an anchored chain: the anchor is then one behind.
LEMMA WriteNewKeepsInv ==
  ASSUME NEW e \in Event, Inv, WriteNew(e) PROVE Inv'
<1>. USE DEF Inv
<1>1. rows \in Seq(Event) /\ anchor = rows /\ e \notin Range(rows)
  BY DEF TypeOK, WriteNew, Verified, Written
<1>2. rows' = Append(rows, e) /\ anchor' = rows /\ toAnchor' = rows' /\ current' = e
  BY <1>1 DEF WriteNew
<1>3. /\ rows' \in Seq(Event) /\ rows' # <<>>
      /\ Range(rows') = Range(rows) \cup {e}
      /\ SubSeq(rows', 1, Len(rows') - 1) = rows
      /\ IsInjective(rows) => IsInjective(rows')
  BY <1>1, <1>2, AppendFacts
<1>4. TypeOK'
  BY <1>2, <1>3 DEF TypeOK, WriteNew
<1>5. NoEventTwice'
  BY <1>3 DEF NoEventTwice
<1>6. AnchorIsAtMostOneBehind'
  BY <1>2, <1>3 DEF AnchorIsAtMostOneBehind
<1>7. AckedIsAnchored' /\ WriterMissesNothing'
  BY <1>1, <1>2, <1>3 DEF WriteNew, AckedIsAnchored, WriterMissesNothing, Written
<1>8. OpenOnlyOnItsChain' /\ AnchoringTheHead'
  BY <1>2, <1>3 DEF WriteNew, OpenOnlyOnItsChain, AnchoringTheHead, Written
<1>. QED  BY <1>4, <1>5, <1>6, <1>7, <1>8

\* The head is anchored once more.
LEMMA WriteAgainKeepsInv ==
  ASSUME NEW e \in Event, Inv, WriteAgain(e) PROVE Inv'
<1>1. NoEventTwice'
  BY SameRows DEF WriteAgain
<1>2. rows # <<>>
  BY DEF WriteAgain, Written, Range
<1>3. TypeOK'
  BY DEF Inv, TypeOK, WriteAgain
<1>4. AnchorIsAtMostOneBehind' /\ AckedIsAnchored' /\ WriterMissesNothing'
  BY DEF Inv, WriteAgain, MayWrite, AnchorIsAtMostOneBehind, AckedIsAnchored,
     WriterMissesNothing, Written
<1>5. OpenOnlyOnItsChain' /\ AnchoringTheHead'
  BY <1>2 DEF WriteAgain, OpenOnlyOnItsChain, AnchoringTheHead, Written
<1>. QED  BY <1>1, <1>3, <1>4, <1>5 DEF Inv

\* A known event is acknowledged only when the whole chain is anchored.
LEMMA WriteKnownKeepsInv ==
  ASSUME NEW e \in Event, Inv, WriteKnown(e) PROVE Inv'
<1>1. NoEventTwice'
  BY SameRows DEF WriteKnown
<1>2. /\ rows' = rows /\ anchor' = rows /\ anchor = rows /\ e \in Range(rows)
      /\ acked' = acked \cup {e} /\ excused' = excused \ {e}
      /\ acked \ excused \subseteq Range(rows)
  BY DEF Inv, WriteKnown, Verified, Acknowledge, Written, AckedIsAnchored
<1>3. AckedIsAnchored' /\ WriterMissesNothing' /\ AnchorIsAtMostOneBehind'
  BY <1>2 DEF AckedIsAnchored, WriterMissesNothing, Written, AnchorIsAtMostOneBehind
<1>4. TypeOK'
  BY <1>2 DEF Inv, TypeOK, WriteKnown
<1>5. OpenOnlyOnItsChain' /\ AnchoringTheHead'
  BY <1>2 DEF WriteKnown, MayWrite, OpenOnlyOnItsChain, AnchoringTheHead, Verified
<1>. QED  BY <1>1, <1>3, <1>4, <1>5 DEF Inv

\* An exception inside the transaction changes nothing but the events tried.
LEMMA WriteFailsKeepsInv ==
  ASSUME NEW e \in Event, Inv, WriteFails(e) PROVE Inv'
<1>1. NoEventTwice'
  BY SameRows DEF WriteFails
<1>. QED
  BY <1>1 DEF Inv, WriteFails, TypeOK, AnchorIsAtMostOneBehind, AckedIsAnchored,
     OpenOnlyOnItsChain, WriterMissesNothing, AnchoringTheHead, Verified, Written

\* The anchor is the chain, and with it holds every event that is acknowledged.
LEMMA AnchorSucceedsKeepsInv == Inv /\ AnchorSucceeds => Inv'
<1>. SUFFICES ASSUME Inv, AnchorSucceeds PROVE Inv'
  OBVIOUS
<1>1. NoEventTwice'
  BY SameRows DEF AnchorSucceeds
<1>2. /\ rows' = rows /\ anchor' = rows /\ current \in Range(rows)
      /\ acked' = acked \cup {current} /\ excused' = excused \ {current}
      /\ acked \ excused \subseteq Range(rows)
      /\ writer' = "ready" /\ toAnchor' = <<>> /\ current' = <<>>
      /\ toRepair' \in {toRepair, <<>>}
  BY DEF Inv, AnchorSucceeds, AnchoringTheHead, Acknowledge, Settled, Written,
     WriterMissesNothing, None
<1>3. AckedIsAnchored' /\ WriterMissesNothing' /\ AnchorIsAtMostOneBehind'
  BY <1>2 DEF AckedIsAnchored, WriterMissesNothing, Written, AnchorIsAtMostOneBehind
<1>4. TypeOK'
  <2>1. tried' = tried /\ rewinds' = rewinds
    BY DEF AnchorSucceeds
  <2>2. current \in tried
    BY DEF Inv, AnchorSucceeds, AnchoringTheHead
  <2>3. /\ rows' \in Seq(Event) /\ anchor' \in Seq(Event)
        /\ toAnchor' \in Seq(Event) /\ toRepair' \in Seq(Event)
    <3>1. <<>> \in Seq(Event)
      OBVIOUS
    <3>2. toRepair \in Seq(Event) /\ rows \in Seq(Event)
      BY DEF Inv, TypeOK
    <3>. QED  BY <1>2, <3>1, <3>2, Zenon
  <2>4. tried' \subseteq Event /\ acked' \subseteq tried' /\ excused' \subseteq acked'
    BY <1>2, <2>1, <2>2 DEF Inv, TypeOK
  <2>. QED  BY <1>2, <2>1, <2>3, <2>4 DEF Inv, TypeOK, None
<1>5. OpenOnlyOnItsChain' /\ AnchoringTheHead'
  BY <1>2 DEF OpenOnlyOnItsChain, AnchoringTheHead, Verified
<1>. QED  BY <1>1, <1>3, <1>4, <1>5 DEF Inv

\* The writer remembers that the head may still have to be anchored.
LEMMA AnchorFailsKeepsInv == Inv /\ AnchorFails => Inv'
<1>. SUFFICES ASSUME Inv, AnchorFails PROVE Inv'
  OBVIOUS
<1>1. NoEventTwice'
  BY SameRows DEF AnchorFails
<1>2. /\ rows' = rows /\ anchor' \in {anchor, rows} /\ toRepair' = rows
      /\ writer' = "ready" /\ toAnchor' = <<>> /\ current' = <<>>
      /\ UNCHANGED <<tried, acked, excused, rewinds>>
      /\ acked \ excused \subseteq Range(rows)
  BY DEF Inv, AnchorFails, AnchoringTheHead, Settled, None, WriterMissesNothing, Written
<1>3. AckedIsAnchored' /\ WriterMissesNothing' /\ AnchorIsAtMostOneBehind'
  BY <1>2 DEF Inv, AckedIsAnchored, WriterMissesNothing, Written, AnchorIsAtMostOneBehind
<1>4. TypeOK'
  BY <1>2 DEF Inv, TypeOK, None
<1>5. OpenOnlyOnItsChain' /\ AnchoringTheHead'
  BY <1>2 DEF OpenOnlyOnItsChain, AnchoringTheHead
<1>. QED  BY <1>1, <1>3, <1>4, <1>5 DEF Inv

LEMMA CrashKeepsInv == Inv /\ Crash => Inv'
<1>. SUFFICES ASSUME Inv, Crash PROVE Inv'
  OBVIOUS
<1>1. NoEventTwice'
  BY SameRows DEF Crash
<1>. QED
  BY <1>1 DEF Inv, Crash, TypeOK, None, AnchorIsAtMostOneBehind, AckedIsAnchored,
     OpenOnlyOnItsChain, WriterMissesNothing, AnchoringTheHead

\* A restored database: the anchor still holds what was acknowledged.
LEMMA RewindKeepsInv ==
  ASSUME NEW n \in 0..(Len(rows) - 1), Inv, Rewind(n) PROVE Inv'
<1>1. /\ rows' \in Seq(Event)
      /\ IsInjective(rows) => IsInjective(rows')
  BY PrefixFacts DEF Inv, TypeOK, Rewind
<1>2. TypeOK' /\ NoEventTwice'
  BY <1>1, ChainAssumption DEF Inv, TypeOK, NoEventTwice, Rewind
<1>3. AnchorIsAtMostOneBehind'
  BY ChainAssumption DEF Inv, TypeOK, Rewind, AnchorIsAtMostOneBehind
<1>4. /\ AckedIsAnchored' /\ WriterMissesNothing'
      /\ OpenOnlyOnItsChain' /\ AnchoringTheHead'
  BY DEF Inv, Rewind, AckedIsAnchored, WriterMissesNothing, OpenOnlyOnItsChain, AnchoringTheHead
<1>. QED  BY <1>2, <1>3, <1>4 DEF Inv

LEMMA StepInv == Inv /\ [Next]_vars => Inv'
<1>. SUFFICES ASSUME Inv, [Next]_vars PROVE Inv'
  OBVIOUS
<1>1. CASE Open  BY <1>1, OpenKeepsInv
<1>2. CASE OpenRepairing  BY <1>2, OpenRepairingKeepsInv
<1>3. CASE AnchorSucceeds  BY <1>3, AnchorSucceedsKeepsInv
<1>4. CASE AnchorFails  BY <1>4, AnchorFailsKeepsInv
<1>5. CASE Crash  BY <1>5, CrashKeepsInv
<1>6. ASSUME NEW e \in Event, WriteNew(e) \/ WriteAgain(e) \/ WriteKnown(e) \/ WriteFails(e)
      PROVE  Inv'
  BY <1>6, WriteNewKeepsInv, WriteAgainKeepsInv, WriteKnownKeepsInv, WriteFailsKeepsInv
<1>7. ASSUME NEW n \in 0..(Len(rows) - 1), Rewind(n) PROVE Inv'
  BY <1>7, RewindKeepsInv
<1>8. CASE UNCHANGED vars
  <2>1. NoEventTwice'
    BY <1>8, SameRows DEF vars
  <2>. QED
    BY <1>8, <2>1 DEF vars, Inv, TypeOK, AnchorIsAtMostOneBehind, AckedIsAnchored,
       OpenOnlyOnItsChain, WriterMissesNothing, AnchoringTheHead, Verified, Written
<1>. QED  BY <1>1, <1>2, <1>3, <1>4, <1>5, <1>6, <1>7, <1>8 DEF Next

\* The writer's invariant, for every number of events and restores.
THEOREM ChainInvariance == Spec => []Inv
<1>. QED  BY InitInv, StepInv, PTL DEF Spec

\* The rows, the anchor and the writer are well typed.
THEOREM ChainTypeCorrect == Spec => []TypeOK
<1>1. Inv => TypeOK  BY DEF Inv
<1>. QED  BY <1>1, ChainInvariance, PTL

\* A writer is open on the chain that was anchored, or one event past it
\* (openChain, writer.ts:355-375).
THEOREM OpensItsChain == Spec => []OpenOnlyOnItsChain
<1>1. Inv => OpenOnlyOnItsChain  BY DEF Inv
<1>. QED  BY <1>1, ChainInvariance, PTL

\* A write that returned is under the anchor (writer.ts:315 before it returns,
\* 273 and 277 when the event is known), whatever failed before it.
THEOREM AckedStaysAnchored == Spec => []AckedIsAnchored
<1>1. Inv => AckedIsAnchored  BY DEF Inv
<1>. QED  BY <1>1, ChainInvariance, PTL

\* No retry adds an event a second time (writer.ts:239-282).
THEOREM EventsAreUnique == Spec => []NoEventTwice
<1>1. Inv => NoEventTwice  BY DEF Inv
<1>. QED  BY <1>1, ChainInvariance, PTL

\* The chain is never extended past an unanchored row (writer.ts:283).
THEOREM AnchorKeepsUp == Spec => []AnchorIsAtMostOneBehind
<1>1. Inv => AnchorIsAtMostOneBehind  BY DEF Inv
<1>. QED  BY <1>1, ChainInvariance, PTL

\* A chain that lost acknowledged events is not extended, nor does a write to
\* it return, before an operator repairs the anchor (writer.ts:355-375).
THEOREM LossIsNoticed == Spec => LossStopsWriting
<1>1. ASSUME Inv, [Next]_vars
      PROVE  [acked' # acked \/ Len(rows') > Len(rows) => acked \ excused \subseteq Written]_vars
  <2>1. CASE writer # "closed"
    BY <1>1, <2>1 DEF Inv, WriterMissesNothing
  <2>2. CASE writer = "closed"
    <3>1. ASSUME NEW n \in 0..(Len(rows) - 1), Rewind(n)
          PROVE  acked' = acked /\ ~(Len(rows') > Len(rows))
      <4>1. Len(rows) \in Nat /\ n \in Nat /\ n < Len(rows)
        BY <1>1, <3>1 DEF Inv, TypeOK
      <4>2. Len(SubSeq(rows, 1, n)) = n
        BY <1>1, <4>1, SubSeqProperties DEF Inv, TypeOK
      <4>. QED  BY <3>1, <4>1, <4>2 DEF Rewind
    <3>2. ASSUME Open \/ OpenRepairing PROVE acked' = acked /\ rows' = rows
      BY <3>2 DEF Open, OpenRepairing
    <3>3. ~AnchorSucceeds /\ ~AnchorFails /\ ~Crash
      BY <2>2 DEF AnchorSucceeds, AnchorFails, Crash
    <3>4. \A e \in Event : ~WriteNew(e) /\ ~WriteAgain(e) /\ ~WriteKnown(e) /\ ~WriteFails(e)
      BY <2>2 DEF WriteNew, WriteAgain, WriteKnown, WriteFails, MayWrite
    <3>5. rows' = rows => ~(Len(rows') > Len(rows))
      BY <1>1 DEF Inv, TypeOK
    <3>. QED  BY <1>1, <3>1, <3>2, <3>3, <3>4, <3>5 DEF Next, vars
  <2>. QED  BY <2>1, <2>2
<1>. QED  BY <1>1, ChainInvariance, PTL DEF Spec, LossStopsWriting
=============================================================================
