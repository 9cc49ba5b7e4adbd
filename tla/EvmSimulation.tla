----------------------------- MODULE EvmSimulation -----------------------------
(***************************************************************************)
(* EvmJsonRpcProvider.simulateTransaction (evm-connector/src/              *)
(* rpc-provider.ts) and classifyAndExtract (trace-balances.ts): one        *)
(* transaction is traced and its balance changes are taken from the state  *)
(* diff, in many requests that all name the number of the pinned block.    *)
(* Which block has that number is up to the node: its chain may be         *)
(* reorganised between two requests.                                       *)
(*                                                                         *)
(* A fork is a block of that number.  What the transaction does on it is   *)
(* pre[f] and post[f], the value of every place of the state before and    *)
(* after: <<"eth", a>>, <<"code", a>> and the storage slots of contracts,  *)
(* <<kind, contract, ...>>.                                                *)
(***************************************************************************)
EXTENDS Integers, FiniteSets, ConnectorInterface

CONSTANTS
  Fork, Account, Token,
  StatePlace,           \* the places of the state, as above
  pre, post,       \* [Fork -> [StatePlace -> Nat]]
  balanceOfReads,  \* [Fork -> [Token \X Account -> StatePlace]]: what balanceOf returns
  Reverting,       \* the forks on which the transaction reverts
  HasAllowance, HasSupply \* the tokens with a configured allowanceSlot, totalSupplySlot

ASSUME EvmAssumption ==
  /\ pre \in [Fork -> [StatePlace -> Nat]] /\ post \in [Fork -> [StatePlace -> Nat]]
  /\ balanceOfReads \in [Fork -> [Token \X Account -> StatePlace]]
  /\ \A a \in Account : <<"eth", a>> \in StatePlace
  /\ \A p \in StatePlace : p[2] \in Account
  /\ "ETH" \notin Token

VARIABLES
  fork,       \* the block the node has at the pinned number now
  abandoned,  \* the blocks it had before
  stage,      \* where simulateTransaction is
  observed,   \* the accounts whose tokens are observed
  pinned,     \* the block whose hash was read first
  traced,     \* the block the state diff is of
  todo,       \* what is still to be probed
  word,       \* the last balanceOf that was read
  evidence    \* the result of simulateTransaction

evmVars == <<fork, abandoned, stage, observed, pinned, traced, todo, word, evidence>>

EvmStages == {"idle", "chain", "block", "execution", "diff", "native", "balanceOf", "slot",
              "override", "recheck", "ended"}

InitEvm ==
  /\ fork \in Fork /\ abandoned = {}
  /\ stage = "idle" /\ observed = {}
  /\ pinned = Null /\ traced = Null /\ todo = {} /\ word = Null
  /\ evidence = Null

-----------------------------------------------------------------------------
(***************************************************************************)
(* classifyAndExtract on the state diff of fork f.                         *)
(***************************************************************************)
changed(f) == {p \in StatePlace : pre[f][p] # post[f][p]}

delta(f, p) == post[f][p] - pre[f][p]

\* The accounts in the diff; the nonce of the sender always changes.
diffAccounts(f, from) == {from} \cup {p[2] : p \in changed(f)}

\* buildSlotIndex: every slot that may change.
slotIndex(accounts) ==
  {<<"balance", t, a>> : t \in Token, a \in accounts}
  \cup {<<"allowance", t, o, s>> : t \in HasAllowance, o \in accounts, s \in accounts}
  \cup {<<"supply", t>> : t \in HasSupply}

\* codeDelta, and "Unclassified storage slot changed".
refused(f, accounts) ==
  \E p \in changed(f) :
    p[1] = "code" \/ (p[1] # "eth" /\ p \notin slotIndex(accounts))

balanceChanges(f, from, accounts) ==
  {[holder |-> a, asset |-> "ETH", delta |-> delta(f, <<"eth", a>>)] :
     a \in diffAccounts(f, from) \cup accounts}
  \cup {[holder |-> x[2], asset |-> x[1], delta |-> delta(f, <<"balance", x[1], x[2]>>)] :
          x \in Token \X accounts}

\* stateOverrides: the places the diff replaces in an eth_call.
overridden(f, p) == IF p \in changed(traced) THEN post[traced][p] ELSE pre[f][p]

-----------------------------------------------------------------------------
Conclude(success, reliable, changes) ==
  /\ stage' = "ended"
  /\ evidence' = [success |-> success, reliable |-> reliable, changes |-> changes]

\* The catch of simulateTransaction.
Refuse == Conclude(FALSE, FALSE, {}) /\ UNCHANGED <<observed, pinned, traced, todo, word>>

GoOn(s) == stage' = s /\ UNCHANGED evidence

BeginEvm(accounts) ==
  /\ stage = "idle"
  /\ GoOn("chain") /\ observed' = accounts
  /\ UNCHANGED <<fork, abandoned, pinned, traced, todo, word>>

\* Any request may fail, or return something malformed; and the endpoint may
\* be of another network.
EvmRequestFails ==
  /\ stage \notin {"idle", "ended"}
  /\ Refuse /\ UNCHANGED <<fork, abandoned>>

AssertConfiguredChain ==
  /\ stage = "chain" /\ GoOn("block")
  /\ UNCHANGED <<fork, abandoned, observed, pinned, traced, todo, word>>

PinBlock ==
  /\ stage = "block" /\ GoOn("execution")
  /\ pinned' = fork
  /\ UNCHANGED <<fork, abandoned, observed, traced, todo, word>>

\* debug_traceCall with callTracer.
TraceExecution ==
  /\ stage = "execution"
  /\ IF fork \in Reverting THEN Refuse
     ELSE GoOn("diff") /\ UNCHANGED <<observed, pinned, traced, todo, word>>
  /\ UNCHANGED <<fork, abandoned>>

\* debug_traceCall with prestateTracer.
TraceDiff(from) ==
  /\ stage = "diff"
  /\ IF refused(fork, observed) THEN Refuse
     ELSE /\ GoOn("native")
          /\ traced' = fork
          /\ todo' = diffAccounts(fork, from)
          /\ UNCHANGED <<observed, pinned, word>>
  /\ UNCHANGED <<fork, abandoned>>

\* eth_getBalance of every account in the diff.
ProbeNative(a) ==
  /\ stage = "native" /\ a \in todo
  /\ IF pre[fork][<<"eth", a>>] # pre[traced][<<"eth", a>>] THEN Refuse
     ELSE LET left == todo \ {a} IN
          /\ IF left # {} THEN GoOn("native") /\ todo' = left
             ELSE GoOn("balanceOf") /\ todo' = Token \X observed
          /\ UNCHANGED <<observed, pinned, traced, word>>
  /\ UNCHANGED <<fork, abandoned>>

\* Per token and observed account: balanceOf, the slot it should read, and
\* balanceOf over the state the transaction leaves.
ProbeBalanceOf(x) ==
  /\ stage = "balanceOf" /\ x \in todo
  /\ GoOn("slot")
  /\ todo' = todo
  /\ word' = [of |-> x, value |-> pre[fork][balanceOfReads[fork][x]]]
  /\ UNCHANGED <<fork, abandoned, observed, pinned, traced>>

ProbeSlot ==
  LET slot == <<"balance", word.of[1], word.of[2]>> IN
  /\ stage = "slot"
  /\ IF word.value # pre[fork][slot]
        \/ (slot \in changed(traced) /\ word.value # pre[traced][slot])
     THEN Refuse
     ELSE GoOn("override") /\ UNCHANGED <<observed, pinned, traced, todo, word>>
  /\ UNCHANGED <<fork, abandoned>>

ProbeOverride ==
  LET slot == <<"balance", word.of[1], word.of[2]>>
      read == overridden(fork, balanceOfReads[fork][word.of])
      left == todo \ {word.of}
  IN /\ stage = "override"
     /\ IF read - word.value # delta(traced, slot) THEN Refuse
        ELSE /\ GoOn(IF left = {} THEN "recheck" ELSE "balanceOf")
             /\ todo' = left /\ word' = Null
             /\ UNCHANGED <<observed, pinned, traced>>
     /\ UNCHANGED <<fork, abandoned>>

\* Mutant: the hash is not read again.
TrustBlock(from) ==
  /\ stage = "recheck"
  /\ Conclude(TRUE, TRUE, balanceChanges(traced, from, observed))
  /\ UNCHANGED <<fork, abandoned, observed, pinned, traced, todo, word>>

RecheckBlock(from) ==
  /\ stage = "recheck"
  /\ IF fork # pinned THEN Refuse
     ELSE /\ Conclude(TRUE, TRUE, balanceChanges(traced, from, observed))
          /\ UNCHANGED <<observed, pinned, traced, todo, word>>
  /\ UNCHANGED <<fork, abandoned>>

\* The node adopts another block of that number.  It never returns to one it
\* has left: the hashes of the first and the last request could not tell.
Reorganise(limit) ==
  /\ stage # "ended" /\ Cardinality(abandoned) < limit
  /\ fork' \in Fork \ (abandoned \cup {fork})
  /\ abandoned' = abandoned \cup {fork}
  /\ UNCHANGED <<stage, observed, pinned, traced, todo, word, evidence>>

EvmStep(from) ==
  \/ EvmRequestFails \/ AssertConfiguredChain \/ PinBlock \/ TraceExecution
  \/ TraceDiff(from) \/ (\E a \in Account : ProbeNative(a))
  \/ (\E x \in Token \X Account : ProbeBalanceOf(x)) \/ ProbeSlot \/ ProbeOverride
  \/ RecheckBlock(from)

-----------------------------------------------------------------------------
\* What the transaction really does on the pinned block: to the ether of
\* every account and, as balanceOf tells, to the tokens of those observed.
evmEffect ==
  {[holder |-> a, asset |-> "ETH", delta |-> delta(pinned, <<"eth", a>>)] : a \in Account}
  \cup {[holder |-> x[2], asset |-> x[1], delta |-> delta(pinned, balanceOfReads[pinned][x])] :
          x \in Token \X observed}

\* The places it may change beside ether.
evmFootprint == {p \in changed(pinned) : p[1] # "eth"}
================================================================================
