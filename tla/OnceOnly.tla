------------------------------ MODULE OnceOnly ------------------------------
(***************************************************************************)
(* What the execution broker promises its callers about one idempotency    *)
(* key: the side effect happens at most once, one result is recorded, the  *)
(* record is true about the side effect, nothing happens after it, and     *)
(* whoever is told a result is told that one.                              *)
(*                                                                         *)
(* A key may be left performed but unrecorded for ever: the process died   *)
(* or could not write.  It is then closed to everyone.                     *)
(***************************************************************************)
CONSTANTS Key, Call, Verdict, Unsent, Null

VARIABLES
  performed,    \* per key, the calls that caused the side effect
  recorded,     \* per key, the recorded result
  told          \* per call, the recorded result it returned

vars == <<performed, recorded, told>>

Init ==
  /\ performed = [k \in Key |-> {}]
  /\ recorded = [k \in Key |-> Null]
  /\ told = [c \in Call |-> Null]

Perform(k, c) ==
  /\ performed[k] = {} /\ recorded[k] = Null
  /\ performed' = [performed EXCEPT ![k] = {c}]
  /\ UNCHANGED <<recorded, told>>

\* The record may be returned to the recording call in the same step.
Record(k, v) ==
  /\ recorded[k] = Null
  /\ v \in Unsent => performed[k] = {}
  /\ v = "executed" => performed[k] # {}
  /\ recorded' = [recorded EXCEPT ![k] = v]
  /\ told' \in {told} \cup {[told EXCEPT ![c] = v] : c \in {d \in Call : told[d] = Null}}
  /\ UNCHANGED performed

Tell(k, c) ==
  /\ recorded[k] # Null /\ told[c] = Null
  /\ told' = [told EXCEPT ![c] = recorded[k]]
  /\ UNCHANGED <<performed, recorded>>

Next ==
  \E k \in Key :
    \/ \E c \in Call : Perform(k, c) \/ Tell(k, c)
    \/ \E v \in Verdict : Record(k, v)

Spec == Init /\ [][Next]_vars
=============================================================================
