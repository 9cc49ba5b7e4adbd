----------------------------- MODULE MCConnectors -----------------------------
(***************************************************************************)
(* The constants of the connectors, together.                              *)
(***************************************************************************)
EXTENDS Connectors, MCBinanceConnector, MCOnchain
===============================================================================
