------------------------------ MODULE Connectors ------------------------------
(***************************************************************************)
(* The connectors behind the broker: a process is built with one of them   *)
(* (ExecutionBroker's connector), and all of them share the broker's kill  *)
(* switch through beforeSideEffect.                                        *)
(***************************************************************************)
EXTENDS BinanceConnector, OnchainConnector

VARIABLE connector  \* the connector of this process

onchainState == <<evmVars, solanaVars, executeVars>>
binanceState == <<settings, exchange, network, call>>
connectorVars == <<connector, halted, onchainState, binanceState>>

\* What another connector's state is, is of no consequence.
InitConnectors ==
  /\ connector \in {"binance", "onchain"}
  /\ Init /\ InitOnchain
  /\ connector = "binance" => chain = "ethereum" /\ fork = CHOOSE f \in Fork : TRUE
  /\ connector = "onchain" =>
       /\ product = "spot" /\ permitted = CHOOSE p \in Permissions : TRUE
       /\ chain = "solana" => fork = CHOOSE f \in Fork : TRUE

ByBinance == connector = "binance" /\ Next /\ UNCHANGED <<connector, onchainState>>
OnChain == connector = "onchain" /\ NextOnchain /\ UNCHANGED <<connector, binanceState>>

NextConnectors == ByBinance \/ OnChain

SpecConnectors == InitConnectors /\ [][NextConnectors]_connectorVars

-----------------------------------------------------------------------------
\* Whatever a call awaits before it acts, and however long: when a spot order
\* or a signature leaves, nothing halts it, and the quote the order was
\* compared with was asked for at most 10 s ago.
ActsOnFreshFacts ==
  [][/\ \A c \in Call :
          OrderLeaves(c) /\ product = "spot" => ~halted /\ age[c] <= MaxAge
     /\ ~sent /\ sent' => ~halted]_connectorVars
===============================================================================
