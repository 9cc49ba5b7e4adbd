---------------------------- MODULE MCAuditChain ----------------------------
(***************************************************************************)
(* Constants for model checking AuditChain.                                *)
(***************************************************************************)
EXTENDS AuditChain, TLC

Identical == Permutations(Event \ Anonymous)
=============================================================================
