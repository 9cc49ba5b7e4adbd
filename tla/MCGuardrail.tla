----------------------------- MODULE MCGuardrail -----------------------------
(***************************************************************************)
(* Constants for model checking Guardrail: two payloads share one scope,   *)
(* one of them of unsafe content; a third intent is refused before it is   *)
(* recorded.                                                               *)
(***************************************************************************)
EXTENDS Guardrail, TLC

CONSTANTS i1, bait, bad, s1

Scopes == [i \in Intent |-> s1]

Identical == Permutations(Call) \cup Permutations(Approval)
=============================================================================
