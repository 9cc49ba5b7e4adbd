--------------------------- MODULE SolanaSimulation ---------------------------
(***************************************************************************)
(* SolanaJsonRpcProvider.simulateTransaction (solana-connector/src/        *)
(* rpc-provider.ts) and diffObservedBalances (account-state.ts).  Accounts *)
(* are read at one finalized slot and the transaction is simulated by      *)
(* another request, which a node may answer at a later slot: minContextSlot *)
(* is only a lower bound.  What the transaction does at slot s is before[s] *)
(* and after[s], a snapshot of every account its message names.            *)
(***************************************************************************)
EXTENDS Integers, FiniteSets

CONSTANTS
  MaxSlot,        \* bound: slots 1..MaxSlot are finalized
  Key,            \* the account keys of the message
  before, after,  \* [1..MaxSlot -> [Key -> Snapshot]]
  Failing,        \* the slots at which the transaction fails
  None            \* no account, no mint

VARIABLES
  tip,       \* the last finalized slot
  at,        \* where simulateTransaction is
  readAt,    \* the slot of the account snapshots
  ranAt,     \* the slot of the simulation
  simulated    \* the result of simulateTransaction

solanaVars == <<tip, at, readAt, ranAt, simulated>>

SolanaStages == {"idle", "network", "accounts", "blockhash", "simulate", "ended"}

InitSolana ==
  /\ tip = 1 /\ at = "idle" /\ readAt = 0 /\ ranAt = 0 /\ simulated = None

-----------------------------------------------------------------------------
lamports(s) == IF s = None THEN 0 ELSE s.lamports
mint(s) == IF s = None THEN None ELSE s.mint
amount(s) == IF mint(s) = None THEN 0 ELSE s.amount

\* diffObservedBalances: SOL for every account, and the token of each that is
\* a token account before or after.
diffObservedBalances(pre, post) ==
  {[holder |-> k, asset |-> "SOL", delta |-> lamports(post[k]) - lamports(pre[k])] : k \in Key}
  \cup {[holder |-> k, asset |-> IF mint(post[k]) # None THEN mint(post[k]) ELSE mint(pre[k]),
         delta |-> amount(post[k]) - amount(pre[k])] :
          k \in {j \in Key : mint(pre[j]) # None \/ mint(post[j]) # None}}

\* "Token account mint changed during simulation."
mintChanged(pre, post) ==
  \E k \in Key : mint(pre[k]) # None /\ mint(post[k]) # None /\ mint(pre[k]) # mint(post[k])

-----------------------------------------------------------------------------
Return(success, reliable, changes) ==
  /\ at' = "ended"
  /\ simulated' = [success |-> success, reliable |-> reliable, changes |-> changes]

failClosed == Return(FALSE, FALSE, {})

BeginSolana ==
  /\ at = "idle" /\ at' = "network"
  /\ UNCHANGED <<tip, readAt, ranAt, simulated>>

\* Any request may fail, be malformed or come from another network.
SolanaRequestFails ==
  /\ at \notin {"idle", "ended"}
  /\ failClosed /\ UNCHANGED <<tip, readAt, ranAt>>

AssertNetwork ==
  /\ at = "network" /\ at' = "accounts"
  /\ UNCHANGED <<tip, readAt, ranAt, simulated>>

\* A node answers at a slot it has finalized, which need not be the last.
ReadAccounts ==
  /\ at = "accounts" /\ at' = "blockhash"
  /\ readAt' \in 1..tip
  /\ UNCHANGED <<tip, ranAt, simulated>>

\* The nodes that have not reached minContextSlot answer with an error.
ReadBlockhash ==
  /\ at = "blockhash" /\ at' = "simulate"
  /\ UNCHANGED <<tip, readAt, ranAt, simulated>>

\* Mutant: minContextSlot is taken for the slot of the simulation.
SimulateSinceSlot ==
  /\ at = "simulate"
  /\ \E s \in readAt..tip :
       /\ ranAt' = s
       /\ IF s \in Failing THEN failClosed
          ELSE Return(TRUE, TRUE, diffObservedBalances(before[readAt], after[s]))
  /\ UNCHANGED <<tip, readAt>>

Simulate ==
  /\ at = "simulate"
  /\ \E s \in readAt..tip :
       /\ ranAt' = s
       /\ CASE s \in Failing -> Return(FALSE, FALSE, {})
            [] s \notin Failing /\ s # readAt -> Return(TRUE, FALSE, {})
            [] OTHER -> \/ Return(TRUE, FALSE, {})  \* the snapshot is truncated
                        \/ /\ mintChanged(before[readAt], after[s])
                           /\ failClosed
                        \/ /\ ~mintChanged(before[readAt], after[s])
                           /\ Return(TRUE, TRUE, diffObservedBalances(before[readAt], after[s]))
  /\ UNCHANGED <<tip, readAt>>

\* The cluster finalizes another slot.
Finalise ==
  /\ at # "ended" /\ tip < MaxSlot /\ tip' = tip + 1
  /\ UNCHANGED <<at, readAt, ranAt, simulated>>

SolanaStep ==
  \/ SolanaRequestFails \/ AssertNetwork \/ ReadAccounts \/ ReadBlockhash \/ Simulate

-----------------------------------------------------------------------------
\* What the transaction does in the state it was simulated in.
solanaEffect == diffObservedBalances(before[ranAt], after[ranAt])
===============================================================================
