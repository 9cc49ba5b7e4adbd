-------------------------- MODULE ConnectorInterface --------------------------
(***************************************************************************)
(* What every ExecutionConnector shares (broker/src/interfaces.ts): the    *)
(* broker hands execute a callback, beforeSideEffect, which throws when    *)
(* the kill switch is active or a receipt the order carries has expired.   *)
(***************************************************************************)
CONSTANT Null
VARIABLE halted   \* beforeSideEffect would throw

InitHalted == halted = FALSE

\* An operator stops or resumes, or receipts grow too old.
Switch == halted' = ~halted
===============================================================================
