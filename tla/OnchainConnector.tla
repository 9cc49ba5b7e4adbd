--------------------------- MODULE OnchainConnector ---------------------------
(***************************************************************************)
(* EvmConnector.execute and SolanaConnector.execute (their connector.ts),  *)
(* with the provider each simulates with and the signer each signs with.   *)
(* The broker calls execute with beforeSideEffect, which throws when the   *)
(* kill switch is active.  Nothing but the simulation is awaited between   *)
(* the validation of the intent and the call of the signer.                *)
(***************************************************************************)
EXTENDS EvmSimulation, SolanaSimulation, BalanceDeltas

CONSTANTS
  Request,         \* the intents execute may be given
  Environment,     \* config.chainEnvironment: "mainnet" or a test network
  Signer,          \* the signer's account; config.fromAddress without a signer
  CanSign,         \* a signer is configured
  AllowedContracts, AllowedFunctions, AllowedTokens, AllowedSpenders, AllowedRecipients,
  AllowedPrograms, AllowedMints, AllowedAccounts,
  Unlimited,       \* the amount 2^256 - 1
  MaxReorgs        \* bound: reorganisations during one simulation

VARIABLES
  chain,       \* the connector of this process: "ethereum" or "solana"
  place,       \* where the call is
  request,     \* its intent
  sent,        \* the signer was called
  ended        \* how execute ended

executeVars == <<chain, place, request, sent, ended>>
onchainVars == <<evmVars, solanaVars, halted, executeVars>>

Expectation == [holder : Account \cup Key, asset : Token \cup {"ETH", "SOL"} \cup AllowedMints,
                min : Int, max : Int]

\* expected = Null when the intent has no expectedDeltas.
ASSUME OnchainAssumption ==
  /\ \A r \in Request :
       /\ r.action \in {"simulate", "sign"}
       /\ r.chain \in {"ethereum", "solana"} /\ r.live \in BOOLEAN
       /\ r.expected # Null => IsFiniteSet(r.expected) /\ r.expected \subseteq Expectation
       /\ r.chain = "ethereum" /\ r.expected # Null => \A e \in r.expected : e.holder \in Account
  /\ {Signer} \cup AllowedContracts \cup AllowedRecipients \cup AllowedSpenders \subseteq Account
  /\ MaxReorgs \in Nat /\ CanSign \in BOOLEAN

InitOnchain ==
  /\ InitEvm /\ InitSolana
  /\ chain \in {"ethereum", "solana"}
  /\ InitHalted /\ place = "idle" /\ request = Null /\ sent = FALSE /\ ended = Null

-----------------------------------------------------------------------------
expectedDeltas(r) == IF r.expected = Null THEN {} ELSE r.expected

\* The checks revalidate makes of any intent.
appliesHere(r) ==
  /\ r.chain = chain /\ r.chainEnvironment = Environment
  /\ r.action = "sign" /\ Environment = "mainnet" => r.live

(***************************************************************************)
(* EvmConnector.revalidate.  r.fn is the decoded function: Null without a  *)
(* selector, "malformed" when the calldata of a selector is, or another    *)
(* selector's; tokens, spenders and recipients are those decodeTransaction *)
(* finds in approve and transfer.                                          *)
(***************************************************************************)
validateRecipient(r) ==
  r.fn = "transfer" =>
    /\ r.recipient \in AllowedRecipients
    /\ r.expected # Null /\ \E e \in r.expected : e.holder = r.recipient

validateApproval(r) ==
  r.fn = "approve" => r.amount # Unlimited /\ r.cap # Null /\ r.amount <= r.cap

\* validateContract, validateFunction, validateToken and validateSpender.
allowlisted(r) ==
  /\ r.to \in AllowedContracts
  /\ IF r.fn = Null THEN r.action = "simulate" ELSE r.fn \in AllowedFunctions \cap {"approve", "transfer"}
  /\ r.fn \in {"approve", "transfer"} => r.to \in AllowedTokens
  /\ r.fn = "approve" => r.spender \in AllowedSpenders

validateEthereum(r) ==
  /\ allowlisted(r)
  /\ r.action = "sign" => expectedDeltas(r) # {}
  /\ validateRecipient(r) /\ validateApproval(r)

(***************************************************************************)
(* SolanaConnector.revalidate over the parsed instructions: a set of       *)
(* [program, type, mint, accounts], where accounts are the writable keys   *)
(* and the named parties.  parseInstructions refuses encoded data it       *)
(* cannot decode, type "unsupported".                                      *)
(***************************************************************************)
hasAuthorityChange(r) == \E i \in r.instructions : i.type = "setAuthority"

\* What parseInstructions does not refuse.
decodable(i) == i.type # "unsupported"

\* validatePrograms, validateTokenMints and validateAccounts.
listed(i) ==
  /\ i.program \in AllowedPrograms
  /\ i.mint # None => i.mint \in AllowedMints
  /\ i.accounts \subseteq AllowedAccounts

validateSolana(r) ==
  /\ r.instructions # {}
  /\ \A i \in r.instructions : decodable(i) /\ listed(i)
  /\ ~hasAuthorityChange(r)
  /\ r.action = "sign" => expectedDeltas(r) # {}

revalidate(r) ==
  appliesHere(r) /\ IF chain = "ethereum" THEN validateEthereum(r) ELSE validateSolana(r)

\* The accounts an Ethereum simulation observes.
observedAddresses(r) ==
  {Signer, r.to} \cup {e.holder : e \in expectedDeltas(r)} \cup AllowedRecipients \cup AllowedSpenders

-----------------------------------------------------------------------------
Finish(how) == place' = "ended" /\ ended' = how

\* execute revalidates; a refusal is a ConnectorRevalidationError.
Execute(r) ==
  /\ place = "idle"
  /\ request' = r
  /\ CASE ~revalidate(r) -> Finish("not_submitted") /\ UNCHANGED <<evmVars, solanaVars>>
       [] revalidate(r) /\ r.action = "sign" /\ ~CanSign ->
            Finish("threw") /\ UNCHANGED <<evmVars, solanaVars>>
       [] OTHER ->
            /\ place' = "simulating" /\ UNCHANGED ended
            /\ IF chain = "ethereum" THEN BeginEvm(observedAddresses(r)) /\ UNCHANGED solanaVars
               ELSE BeginSolana /\ UNCHANGED evmVars
  /\ UNCHANGED <<chain, halted, sent>>

\* One request of the provider is answered.
ProviderStep ==
  /\ place = "simulating"
  /\ IF chain = "ethereum" THEN EvmStep(Signer) /\ UNCHANGED solanaVars
     ELSE SolanaStep /\ UNCHANGED evmVars
  /\ UNCHANGED <<chain, halted, place, request, sent, ended>>

result == IF chain = "ethereum" THEN evidence ELSE simulated

\* assertAllowlistedSimulationAssets and assertExpectedDeltas.
asExpected(r) ==
  /\ chain = "solana" /\ result.reliable =>
       \A c \in result.changes : c.asset \in AllowedMints \cup {"SOL"}
  /\ r.expected # Null =>
       /\ r.expected # {} \/ chain = "ethereum"
       /\ result.reliable
       /\ matches(result.changes, r.expected)

\* beforeSideEffect.
mayExecute == ~halted

\* The simulation has returned: its evidence is the answer, or the signer is
\* called in the same turn as beforeSideEffect.
Decide ==
  /\ place = "simulating"
  /\ result \notin {Null, None}
  /\ IF ~result.success \/ ~asExpected(request) THEN Finish("threw") /\ UNCHANGED sent
     ELSE \/ request.action = "simulate" /\ Finish("simulated") /\ UNCHANGED sent
          \/ /\ request.action = "sign"
             /\ IF mayExecute THEN place' = "signing" /\ sent' = TRUE /\ UNCHANGED ended
                ELSE Finish("not_submitted") /\ UNCHANGED sent
  /\ UNCHANGED <<evmVars, solanaVars, chain, halted, request>>

\* signAndBroadcast answers with a hash, or throws: then the transaction may
\* have been broadcast or not.
SignerAnswers ==
  /\ place = "signing"
  /\ \E how \in {"executed", "threw"} : Finish(how)
  /\ UNCHANGED <<evmVars, solanaVars, chain, halted, request, sent>>

-----------------------------------------------------------------------------
\* The operator, and the two networks.
Surroundings ==
  \/ /\ place # "ended" /\ Switch
     /\ UNCHANGED <<evmVars, solanaVars, chain, place, request, sent, ended>>
  \/ /\ place = "simulating" /\ chain = "ethereum" /\ Reorganise(MaxReorgs)
     /\ UNCHANGED <<solanaVars, chain, halted, place, request, sent, ended>>
  \/ /\ place = "simulating" /\ chain = "solana" /\ Finalise
     /\ UNCHANGED <<evmVars, chain, halted, place, request, sent, ended>>

ConnectorStep == (\E r \in Request : Execute(r)) \/ ProviderStep \/ Decide \/ SignerAnswers

NextOnchain == ConnectorStep \/ Surroundings

-----------------------------------------------------------------------------
effect == IF chain = "ethereum" THEN evmEffect ELSE solanaEffect

\* The provider reports reliable changes only when all of them are what the
\* transaction does on one block, or at one slot: no reorganisation, lagging
\* node, unusual storage layout or unnoticed storage write gets into them.
ReliableEvidenceIsTrue ==
  result \notin {Null, None} => (result.reliable =>
    /\ {c \in result.changes : c.delta # 0} = {c \in effect : c.delta # 0}
    /\ chain = "ethereum" =>
         /\ pinned \notin Reverting
         /\ evmFootprint \subseteq slotIndex(observed))

\* What was signed does to every observed holder, in the state it was
\* simulated in, what the approved intent says, and nothing to anyone else.
SignedAsApproved == sent => request.expected # Null /\ matches(effect, request.expected)
===============================================================================
