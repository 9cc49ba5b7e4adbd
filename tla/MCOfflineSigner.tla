--------------------------- MODULE MCOfflineSigner ---------------------------
(***************************************************************************)
(* A request, its retry with other fees, with the next nonce and after a   *)
(* second decision, another intent on the same nonce, the same intent      *)
(* under another key, and a request that is not genuine.                   *)
(***************************************************************************)
EXTENDS OfflineSigner, TLC
CONSTANTS first, again

Base ==
  [key |-> 1, intentId |-> 1, nonce |-> 0, fees |-> 1, approval |-> first,
   genuine |-> TRUE, eligible |-> TRUE, affordable |-> TRUE]

MCRequest ==
  {Base, [Base EXCEPT !.fees = 2], [Base EXCEPT !.nonce = 1], [Base EXCEPT !.approval = again],
   [Base EXCEPT !.key = 2, !.intentId = 2], [Base EXCEPT !.key = 2, !.nonce = 1],
   [Base EXCEPT !.genuine = FALSE]}

Identical == Permutations(Call)
==============================================================================
