# Verification of the trading guardrails

TLA+ models of the services that stand between a trading agent and an exchange
or a chain, checked with TLC and proved about with TLAPS.  Definitions are
translated from the TypeScript under `packages/`; PROJECT.json maps each of them
to the lines it stands for.

## 1. The system

An agent asks the **guardrail service** whether it may act; the service consults
reviewer, risk engine and policy and returns a signed decision, possibly with an
**approval request** that a human must grant.  The agent presents the decision to
the **execution broker**, the only component that causes side effects, through a
**connector**.  Everything is recorded in a hash-chained **audit log**.

| component | state it keeps | operations | talks to |
|---|---|---|---|
| ExecutionBroker (`broker/src/broker.ts`) | none of its own between calls | `execute`, `dryRun` | all stores below, connector |
| FileBrokerIdempotencyStore | one JSON file shared by all broker processes; per process a map of reservations and their promises | `begin`, `complete`, `completeAudit`, `failAudit`, `abort` | SQLite lock |
| InMemoryKillSwitch, LiveModePreflightCheck | active scopes, in memory | `activate`, `deactivate`, `isActive`, `run` | audit |
| ApprovalStore (`approval/src/store.ts`) | SQLite database shared by all processes; allowlist file | `create`, `approve`, `deny`, `consumeOneTime`, `checkTimeouts`, `delete`, `waitForApproval` | audit, allowlist |
| AuditWriter (`audit/src/writer.ts`) | SQLite hash chain, anchor file | `write`, `verify`, constructor with repair | -- |
| GuardrailService (`guardrail-service/src/service.ts`) | in-memory idempotency | `evaluate` | reviewer, risk, OPA, approvals, audit |
| Policy (`policy/src/*.rego`, `opa-transform.ts`) | none | rules, transformation to an outcome | -- |
| Risk engine, BinanceRiskDataProvider | the facts pinned for one evaluation | `evaluate`: twelve checks; `getDailyStats`, `getMarketData`, `getPortfolio` | exchange |
| Binance connector | none between calls; orders, leverage and margin mode are at the exchange | `revalidate`, `execute`, `acknowledgeLiveOrder`, `getRiskHistory` | exchange |
| EVM and Solana connectors | none between calls | `revalidate`, `execute`, `simulateTransaction` | RPC nodes, signer |
| Offline signer (`runtime/src/signer-runtime.ts`) | SQLite table of reserved keys, intents and nonces | `POST /sign` | audit |
| Reviewer, agent adapters, broker HTTP server, secrets, schemas, deployment | configuration | clients and I/O | the services above |

At this commit the runtime builds a broker over the Binance connector or the paper
connector (`createRuntimeConnector`); the EVM and Solana connectors are packages
with the same `ExecutionConnector` interface, and the offline signer is a process
of its own.

What is hard here: several broker processes share a file and a database; each
process interleaves its calls at every `await`; a process may die between any two
writes; a write may fail, or fail after it took effect; the kill switch and the
approval may change between their check and their use; audit and record are
separate stores and neither write is atomic with the side effect.  Towards the
outside, an answer may be lost although the request was carried out; a history is
read in many requests while it grows; a chain is reorganised, and a cluster moves
on, between two requests of one simulation.

What makes each component correct:

* broker and idempotency store: at most one side effect per scoped key, one
  result per key, a record that is true, an audit event before any answer, no
  side effect against the kill switch, one submission per approval;
* approval store: one decision per request, taken in time, audited, and an
  allowlist entry exactly for approved onboardings;
* audit log: an append-only chain that a crash leaves repairable, and a writer
  that never extends a chain it has not verified;
* guardrail service: no approval request without a decision, the same decision
  for a repeated request, deny on every fault;
* policy and risk: limits are compared with what really happened, on facts that
  are current, and only an intent inside the automatic envelope executes without a
  human, whatever one field of OPA's answer says;
* connectors: a call reported as not submitted left nothing at the exchange, no
  order runs at more leverage than its intent admits, and nothing is signed but what
  was simulated as expected;
* offline signer: one signature per key, intent and nonce, none without its events.

## 2. Modules

| module | models |
|---|---|
| `IdempotencyStore` | the file, the map and the promises of FileBrokerIdempotencyStore, each operation with a write that succeeds, fails, or fails late |
| `ApprovalLifecycle` | an approval request as the services that share it see it; used by `Broker` and `Guardrail` |
| `ApprovalDecisions` | the same life cycle with each decision in two steps, taken before the timeout and written later; implemented by `ApprovalStore` |
| `Broker` | `ExecutionBroker.execute` step by step, for calls in several processes, with the kill switch, crashes and the environment |
| `OnceOnly` | the abstract promise of the broker: side effect, record and answers of a key |
| `BrokerInvariant`, `BrokerProofs` | its inductive invariant and the proofs |
| `ApprovalStore`, `ApprovalStoreProofs` | the transactions of the approval database with the audit log and the allowlist file written inside them; proofs |
| `AuditChain`, `AuditChainProofs` | `AuditWriter`: chain, anchor, retries, repair, crashes, restored backups; proofs |
| `Guardrail`, `GuardrailProofs` | `GuardrailService.evaluate` with its idempotency, failing stores and restarts; proofs |
| `Policy` | the Rego rules, the facts they are given, `transformOpaOutput` |
| `RiskChecks` | the checks of `risk-engine/src/checks.ts` and which of them an intent meets |
| `BinanceHistory`, `BinanceHistoryProofs` | an account that trades, and `getRiskHistory`, which reads it page by page; proofs |
| `LiveDecision`, `LiveDecisionProofs` | the risk and the policy stage of an evaluation over that account; composes the three above; proofs |
| `ConnectorInterface` | what a connector shares with the broker: the kill switch at `beforeSideEffect` |
| `Reconciliation` | the comparison of an acknowledged order with its status |
| `BinanceConnector` | `BinanceConnector.execute` over `BinanceRestClient`, and the orders at the exchange |
| `BalanceDeltas` | the comparison of simulated with expected balance changes |
| `EvmSimulation`, `SolanaSimulation` | `simulateTransaction` of the two RPC providers |
| `OnchainConnector` | `revalidate` and `execute` of the EVM and the Solana connector |
| `Connectors`, `ConnectorsProofs` | the connectors behind the one interface; proofs |
| `OfflineSigner`, `OfflineSignerProofs` | the signer's server over its database; proofs |
| `MC...` | constants for TLC |

How they fit together.  `Broker` and `Guardrail` use the requests of
`ApprovalLifecycle` and not its implementation; `ApprovalStore` is shown to
implement its two-step form `ApprovalDecisions` (the decision is taken while the
request is in time and saved after the writes in between, by when it may have timed
out), so what the two assume of a request (one decision, taken in time, one
consumption) is what the database gives them under every crash and failing write.  `Broker` and `Guardrail` see the audit log as a set of events whose write
may fail after it took effect: that is what `AuditChain` shows of a writer, whose
row may be committed when its anchor is not, and whose retry with the same id
adds no second row.  In deployment each process writes a chain of its own
(docs/deployment-profiles.md); the trail of `Broker` is the union of them.

`Guardrail` takes the answers of the risk engine and of the policy as arbitrary,
so its properties hold for every one of them; `LiveDecision` is the inside of
these two stages.  `Broker` in the same way takes every result a connector may
return; `Connectors` is the inside of `connector.execute`.  Its contract with the
broker is the error type: `Broker` records an unsent result for a
`ConnectorRevalidationError` and nothing else, and `NotSubmittedMeansNothingSent`
is what makes that record true.  Between `beforeSideEffect` and the request a
connector may keep the event loop, as it does for spot orders, cancellations and
signatures, or await other answers, as it does for futures orders (`Deferred`); a
connector that only reads does not call `beforeSideEffect` (`Reading`).  What that
means for the kill switch is the subject of `HeldByStop` and of run `killed`.

### Broker

A call is at a place `pc`; one action takes it to its next access to shared
state.  `loop[p]` is the call that runs in the event loop of process `p`: only an
`await` (`Awaits`) or the end of the call (`Returns`) lets another call of the
process run, so steps between two awaits do not interleave within a process but
do across processes and with crashes.

| place | code |
|---|---|
| `idle` -> `lookup` | parsing, outcome, token, freshness, environment, preflight (`Receive`, 116-231) |
| `lookup` -> `begin` | `findApprovalForIntent` (233-253) |
| `begin` | `idempotency.begin` (255-274): reserves, joins a pending call, conflicts, fails, or finds a cached result |
| `flush`, `closeFlush` | `flushPendingTerminalAudit` (803-809) |
| `precheck` | canary receipt, approval, kill switch, then `await revalidate` (287-395) |
| `revalidating` | its result, the second kill switch check, `dry_run_expired` (391-458) |
| `consume` | `consumeOneTime` (460-470) |
| `executing` | `connector.execute` up to `beforeSideEffect`, which passes (`LastCheck`) or throws (472-486) |
| `sending` | the request leaves (`Submit`) or never does (`NeverSent`); the futures connector sets margin type and leverage first, and its order leaves in a later turn |
| `submitted` | its answer (487-550) |
| `complete`, `audit`, `auditUnstored`, `closeAudit` | `finishExecutionWithAudit` (779-801) |
| `finish`, `abort` | `finish` (276-285) and the catch blocks (360-365, 573-578) |
| `waiting` | a joined call awaits the promise of the reserving call |

Abstractions: the payload hash is the intent itself; the result of a call is its
status and rule; the terminal event id is the record of what it hashes.  A check
whose inputs the model does not hold (freshness of the decision, health of audit
and approval store, the receipt of a canary dry run) may fail at any time.
`effects` is a history variable: the calls whose request left the process.

Two facts of the code that the model keeps and a reader may not expect.  A failed
`completeAudit` leaves the broken promise in the process map, so later calls of
that process throw until it restarts although the result is in the file.  And a
recorded result of a status query that is not "executed" cannot be replayed: the
store rejects the cached entry as invalid and every retry throws.

### ApprovalStore

`txn[p]` is the transaction process `p` is in.  IMMEDIATE transactions take the
write lock before they read, so each operation starts when all are idle
(`Unlocked`).  Operations that touch the database alone are one step; `approve`,
`deny` and `expire` are one step per write to another store: the allowlist file
(`AddEntry`), its event (`AuditEntry`), the event of the decision
(`AuditDecision`), `Save`, `Commit`, and the `RollBack` of the catch clause.  An
exception ends the transaction, and SQLite undoes the database part alone.
`checkTimeouts` and `waitForApproval` decide through `expire`; `checkHealth`
leaves nothing behind and is left out.  No service at this commit creates
onboarding requests; the store handles them all the same, and so does the model.
`stranded` is a history variable: onboardings whose process died, or whose commit
or rollback failed, with the entry in the file.

### AuditChain

A hash covers everything before it, so the head of the chain is the sequence of
its events, and the anchor is the sequence it was taken from.  `WriteNew`,
`WriteAgain` and `WriteKnown` are the three ways through `write`; between the
committed row and the replaced anchor the writer is `anchoring`, and it may crash
or fail there, before or after the rename.  `Anonymous` events have no id of their
own and are never retried: when the anchor of one fails, that writer refuses every
later event until an operator repairs the anchor, which the runtime never does by
itself.  One writer is open at a time, as deployment demands.  `Rewind` is the
database restored from an older copy; an acknowledged event that a repair gave up
is `excused`.

### Guardrail

The service has one thread.  A call interleaves with the others while it is at
`health`, `review`, `risk`, `policy` (it awaits a service) or `waiting` (the
promise of another call); at the `Synchronous` places it keeps the thread (`Runs`)
and only humans, through the database, and a crash come between.  What reviewer,
risk engine and policy answer is arbitrary, and an answer that is late, malformed
or missing denies (`Unavailable`).  `entries` is the in-memory `IdempotencyStore`;
a reservation's promise is not a variable: setting or aborting it moves the calls
that wait for it.  `life` is the life of the process a call started in.

### LiveDecision

An evaluation has a risk engine and a provider of its own, which pin what they
read: `pc` is the await it is in (`history`, `snapshot`, `market`, `portfolio`,
`policy`), `facts` what is pinned, `collect` the state of `getRiskHistory`: the
symbol it reads, the page or the stack of windows that are still to be read, and
the rows kept so far.  A request that only reads is one step, whose answer is what
the exchange shows at some instant before it arrives; between two requests the
owner orders, orders are filled, and time passes.  `timeWindow` of the code is
recursive; the model keeps its stack (`windows`).  An amount is an integer, an
order is for one unit, and commissions are part of its amounts; a tick is the
smallest unit of time, and a day is a few ticks.  A faulty OPA returns its document
with one field missing or replaced by a value of `Garbled` (`faulty`), which is what
`transformOpaOutput` is there to survive.  `books` is what the exchange itself would
say of a spot account, fill by fill; the code never sees it, and `StatsAreReal`
compares with it.  The pages of an answer are in the order of their ids (`sorted`,
which is `SetToSortSeq` in terms the prover knows).
Rego's undefined is `Absent`: a rule one of whose inputs is absent does not fire.

### Connectors

In `BinanceConnector` each await of `execute` is a place.  A write is on the `wire`
until the exchange carries it out (`CarryOut`), its answer is in `reply`, and
`LoseReply` ends the wait at any instant: the request, or its answer, is then still
wherever it was and may take effect later.  What Binance does with orders --
refuses a client order id an open order has, fills at any price the limit admits,
ends them -- is external and modelled from how the client reads it.  A price is an
integer, and a quotient of doubles is the exact one but for the pairs of `RoundedUp`
and `RoundedDown`, which say where it lies above or below the limit it equals; for
futures, whose average price Binance itself computes, they stand for its rounding.  In
`EvmSimulation` a fork is a block of the pinned number; every request names that
number and is answered from the block the node has at that moment, and
`Reorganise` changes it.  What the transaction does on each fork is a constant, so
that the properties compare evidence with the truth.  In `SolanaSimulation` the
accounts are read at one slot and the transaction is simulated at another, which
`simulateTransaction` must notice.

### OfflineSigner

Each statement of `sign` is a step: within one process only the await of
`signTransaction` lets another call in, but two processes over one file interleave
anywhere, so the model allows it always.  `signed` is a history variable: how often a
signature was made for each request, published or not.

## 3. What TLC checks

| run | instance | shows |
|---|---|---|
| `human` | 2 calls, 2 processes, 2 intents with a key each, 1 approval | `UnsentStaysUnsent`, `ApprovalSpentOnce` with the approval granted, denied, expired, consumed by a rival, and carried by decisions it was not given for; the rival is a status query, so its results replay only when executed |
| `retries` | 3 calls, 2 processes, 1 key, 2 payloads, 2 correlation ids | `AtMostOneSubmission`, `TerminalIsAudited`, `AnswersAgree` and `ImplementsOnceOnly`, which also says that a record is written once and is true |
| `stop` | 2 calls, 1 process, a canary order, a cancellation and a futures order, 1 scope, canary live | `HeldByStop`: a call that kept the event loop since its last check submits nothing after the switch is set; `EveryCallEnds` under fairness |
| `store` | 2 processes, a one-time request and two onboardings, every fault, two requests at a time | `DecisionIsAudited`, `OnboardedHasEntry`, `EntryOnlyIfApproved`, and `ImplementsLifecycle`: the transactions implement what the other services assume |
| `hidden` | an onboarding, crashes | a counterexample to `EntryIsRecorded` |
| `chain` | 3 retried events, an anonymous one, 2 restored backups | `AnchorIsAtMostOneBehind`, `AckedIsAnchored`, `NoEventTwice`, `OpenOnlyOnItsChain`, `LossStopsWriting` |
| `evaluate` | 2 calls, 2 payloads of one scope, one of them with unsafe content, and a refused intent, previews, 1 restart; audit writes, creation and deletion of a request fail | no decision without its record, its stages or its request; one decision per scope and life of the process; no request that nobody was told of; `EveryCallEnds` under fairness |
| `forgotten` | 2 calls, 1 restart, no fault | a counterexample to `RepeatsGetOneResult`: an intent denied because a service was out of reach is allowed after the restart |
| `decide` | spot and futures accounts with 2 symbols and 3 earlier orders, 1 more order, pages of 2 rows, days of 4 ticks; 6 orders, 73 variants of signatures, 1 field of OPA's answer wrong or missing | what is compared with the limits is what happened (`HistoryIsComplete`, `StatsAreReal`), orders pass on current facts and within the day, automatic execution stays inside its envelope (also in leverage and on the allowlist); `EvaluationEnds` under fairness |
| `connectors` | a purchase, a sale with the same key, a cancellation or query, lost and late answers; 9 forks, 2 reorganisations; 4 slots | `FalseAlarmOnlyByRounding`, `NotSubmittedMeansNothingSent`, `LeverageIsBounded`, `ActsOnFreshFacts`, `ReliableEvidenceIsTrue`, `SignedAsApproved` |
| `killed` | the Binance part of `connectors` | a counterexample to `OrderLeavesWhenClear` |
| `signer` | 3 calls, 7 requests: retries with other fees, another nonce, another decision, another key, another intent on the nonce, and a forged one | `OneSignature`, `AnswersAreOnRecord` |

Bounds.  Calls are the main resource, and each runs once: two make a race and a
retry after it, the third is a late retry that meets what the race left behind.
Two processes are enough because a process matters only as "mine" or "another's";
a crash may hit either at every step.  In `ApprovalStore` nothing is bounded but
the requests: a second onboarding is what a rollback of the first might remove, and
a one-time request is what can be consumed; `AtMostTwoRequests` keeps one of the
three uncreated at any time, whichever it is.
`MaxRewinds` = 2 lets a backup be restored, the anchor be repaired, and the
repaired chain be lost again.  `MaxRestarts` = 1 gives one life before and one
after, which is all a property that compares two calls can tell apart.  `Fault` names the stores that may fail, so that a run
can say which failures its property survives.

In `decide` a page of two rows is filled, and overflows, with three orders, so every
way through the paging happens: a short page, a full one, a window that is split, a
millisecond that cannot be.  `MaxTime` = 9 reaches from one UTC day across midnight
into the next and past the age of a collection; `MaxOrders` and `MaxFills` leave
room for the order of the evaluation or one of the owner.  One evaluation is
enough: evaluations share nothing but the account, whose owner trades all the while.
In `connectors` two orders of one key and a cancellation are what can disturb each
other at the exchange; `AccountLeverage` = {3}, above `MaxLeverage` = 2, is a
leverage the account was left with; `MaxAge` = 0 and a tick of more make a quote current or
stale; the nine forks differ in each way a state diff can mislead (another amount,
another starting balance, a fee to a stranger, code, ether, a revert, a balance
elsewhere, an allowance), and `MaxReorgs` = 2 lets the node leave the pinned block
and go on to a third.  `MaxSlot` = 4 gives four different states to read at.  A
connector process has one connector, so the parts do not multiply.  In `signer`
three calls of seven requests make a race and a retry after it.

Deadlock checking is off because
finite sets of calls, requests and events come to rest.

Fairness.  `EveryCallEnds` of the broker assumes that each call takes its next
step when it can: the code awaits only connector requests, which carry timeouts,
and promises of its own process; all else is synchronous.  That of the guardrail
assumes the same of `Step`: requests to reviewer, market data and policy are aborted by
timeouts of their clients, and the event loop goes on.  `EvaluationEnds` assumes
that of the requests of an evaluation (`Evaluate`), which carry `AbortSignal.timeout`.  A call that waits for another has no step of
its own, so that it ends is the work of the reserving call and of nothing else.
Callers, operators, humans, crashes and restarts are not assumed to act.

### Disagreements between code and documentation

* `EntryIsRecorded`: `docs/threat-model.md:168` wants durable allowlist changes
  recorded, not hidden runtime state; the file is written before the event
  (store.ts:280), and a crash in between leaves an entry no event records.
* `RepeatsGetOneResult`: `docs/threat-model.md:209-213` wants a repeated request
  to get the same result, and idempotency records kept; the guardrail service
  keeps them in a Map of the process (service.ts:50) and forgets them at a restart.
* `OrderLeavesWhenClear`: `docs/live-trading-safety.md:53` wants the kill state
  checked "immediately before connector side effects"; a futures order awaits two
  more requests, the margin type and the leverage, between the last check
  (connector.ts:329) and the order (rest-client.ts:436).

Four that no run is spent on. `docs/live-trading-safety.md:127-128` calls later
fills legitimate, and a test (reconciliation.test.ts:48-57) expects a complete fill
at the approved price to be matched; but the average price of a spot order is a
quotient of doubles (rest-client.ts:386-391), which may lie beside the limit when
the fill is at it, and is compared strictly (reconciliation.ts:135-142), so a
correct course is then reported as a discrepancy: a purchase of 3 at 0.7 is 2.1 / 3
= 0.7000000000000001. `FalseAlarmOnlyByRounding` says that there is no other false
alarm. `approval_consumed` ("Human approval has already been used.", broker.ts:467)
is also the answer when the approval expired while the connector revalidated;
`docs/threat-model.md:67` says that the kill switch halts all execution, from which
the code exempts cancellations (preflight.ts:55), as `HeldByStop` does; and
`docs/threat-model.md:132` lets an action execute without a human only when the
matching rule "explicitly sets `requiresHumanApproval: false`", while a rule that
does not set it is matched as well (allowlist.rego:101-103; an entry of `decide` is
of that kind). Every rule of the policy.json of this commit sets it.

## 4. What is proved

All theorems hold for every value of the constants that satisfies the named
assumptions.  Most of these give the constants their types and say that `Null` and
its like are no element (`StoreAssumption`, `ApprovalAssumption`, `BrokerAssumption`,
`ChainAssumption`, `GuardrailAssumption`, `BinanceAssumption`, `EvmAssumption`,
`OnchainAssumption`, `SignerAssumption`, `HistoryAssumption`, `NullAssumption`,
`LimitsAssumption`, `DecisionAssumption`, `FactsAssumption`).  The others say what
they rest on:

* `SymbolsAssumption`: the history universe is not empty and names no symbol twice;
  the constructor of the provider refuses any other.
* `RequestsAssumption`: an intent has the numbers its schema asks for, an order
  always a notional and a price; `validate` lets nothing else through.
* `BoundsAssumption`: policy.json has the bounds of each environment it names.
* `HistoriesAssumption`: at the exchange ids follow time, a fill is of an order, and
  nothing is dated in the future.  This is what the code relies on; it is not checked
  by it.
* `BooksAssumption`: a spot account holds what its trades of the history symbols left
  it, and sold nothing it did not hold.  Of an account with deposits the exchange has
  no gains to compare with; when its balance differs from its trades, `reconciles`
  denies.

**Broker** (`BrokerProofs`): `TypeCorrect`, `Invariance`, `AtMostOnce`,
`UnsentIsFinal`, `ExecutedIsTrue`, `ApprovalIsSpentOnce`, `AuditComesFirst`,
`AuditedOnce`, `AnswersNeverDiffer`, `VerdictNeverChanges`, `StopHolds` and
`ImplementsPromise`.  None of these is inductive alone.  "At most one submission"
needs to know why a second call cannot be past the reservation: `HolderKnown` ties
a call between reservation and record to the in_progress entry and to the map of
its process, `HolderAlone` makes it the only one of its key, and
`SubmittedKeyClosed` says that after a submission the key is never free again,
whatever failed.  That the record is true follows the plan of the call
(`PlanTruthful`) into the file (`RecordTruthful`); that answers agree follows each
way an answer travels -- its own record, a promise, a cached entry -- back to the
file (`AnswersRecorded`).  `StopHolds` needs that a call which is `sending`, and is no
read and no futures order, still has the event loop and a clear switch
(`LastCheckHolds`): operators act between turns of the loop.  `AuditOwed` and `OneEvent` follow the terminal event
from the call that owes it, through the entry, into the log.  The lemmas at
the head of `BrokerProofs` say what each store operation does to the keys it does
not touch; then each group of steps is shown to keep each part.

**Approval store** (`ApprovalStoreProofs`): `StoreInvariance`,
`DecisionsAreAudited`, `OnboardedHaveEntries`, `EntriesAreEarned` and
`StoreImplementsLifecycle`.  The strengthening is `TransactionSound`: the one
transaction that is open decides a request that is still pending, the file is what
it read at its start plus at most its own entry, and the events it has written so
far are in the log.  `InsideKeepsInv` states once what any step inside a
transaction must do; each action is then one application of it.

**Audit chain** (`AuditChainProofs`): `ChainTypeCorrect`, `OpensItsChain`,
`AnchorKeepsUp`, `AckedStaysAnchored`, `EventsAreUnique` and `LossIsNoticed`.  The
strengthening says that an open writer is on its chain (`OpenOnlyOnItsChain`),
misses no acknowledged event (`WriterMissesNothing`), and that the hash it is about
to anchor is the head (`AnchoringTheHead`).

**Guardrail** (`GuardrailProofs`): `AnswersAreAudited`, `AnswersNameTheirRequest`,
`EvaluationsAreRecorded`, `DecidedOnce`, `RequestsGetAnswers`, `TypeCorrect` and
`ReservationsHaveOwners`.  What a call may be told depends on what it has written at
each place (`CallSound`) and on what a completed entry holds (`EntrySound`), for a
decision reaches a waiting or a later call through the entry alone.  `ReservedByOne`
gives each reservation its one call; `RequestedByOne` says that a request which is
not issued yet is known to that call alone, so that taking it back, when a later
write fails, takes it from nobody.

**Connectors** (`ConnectorsProofs`): `NothingSentIsTrue`, `LeverageBounded`,
`ActsFresh`, `EvidenceIsTrue`, `FalseAlarmsAreRounding`, `SignsAsApproved` and
`ConnectorTypeCorrect`.  `CallSound` says at which places (`Quiet`) nothing
of a call can be at the exchange or on its way.  `EvmInv` is the argument of the
simulation: as long as the node still has the pinned block, everything it has
answered was about that block, because a block it abandons does not come back
within one simulation (`abandoned`); so one comparison at the end vouches for all
requests before it.  `SignsAsApproved` adds what the evidence is worth: a holder a
diff or a slot did not report has not changed, so the deltas that were computed are
those of the effect, for any tokens and holders.  `FalseAlarmsAreRounding` follows an order
from its acknowledgement to the status that is compared with it: the quantities only
grow, the average price stays within the limit, and each status an order may have
later is one `LEGAL_TRANSITIONS` allows from the earlier one.  What is left is the
quotient: an alarm is raised only for an average price that equals the limit and whose
double does not.  `LeverageBounded` follows the setting of the symbol: between the
request that sets it and the order another call, or a late request, may set it again,
but each sets a leverage that was admitted.

**Live account** (`BinanceHistoryProofs`, `LiveDecisionProofs`).
`HistoriesAreComplete` rests on `HistoryInv`, which says of every collection what it
has read and what it has not: the windows left are a partition of the rest of the day
(`Partition`); the rows kept are those before the first of them (`HeldBefore`); on
spot the trades taken of a symbol are closed downwards by id; a page of income is a
range of ranks (`IncomeSound`); the latest order is no older than any order before
the cutoff of a symbol that was asked for it (`LastSound`).  It is inductive because
the account only grows (`Grows`): a new row has the time of now, so it is not settled
at any cutoff, and its id is beyond every page read.  `AccountStep` is that argument,
once, for every action of the account.

`DecisionInv` adds what an evaluation has by the place it is at: past the snapshot its
collection is done, past the risk stage it has the statistics and a symbol that was
read, and an `allow` is in the envelope.  `AutomaticInsideTheEnvelope` needs
`OneFieldDoesNotAllow`: of the seven fields of OPA's document any one may be missing
or wrong, and the others still keep `transformOpaOutput` from reading an `allow` the
policy did not compute.  `PassesOnlyCurrent` needs `OnlyOnFacts`: there are two steps
in which an order can pass, and both judge in the turn in which the last fact is
pinned.

`RealInv` adds the money.  `BooksOK` keeps the books of the exchange with its trades,
and `LossIsRecorded` is the heart of it: the replay of `spotLoss`, over those trades
only that were collected, gives for each symbol the same lots as the books, because
the collected trades of a symbol are closed downwards, and so its losses of the day
are those the exchange recorded.  `StatsAlwaysReal` and `PassesInsideTheDay` follow:
once pinned, statistics stay between the settled and the present sums of the day,
for the first do not change and the second only grow.  TLC has checked `RealInv`,
with all its parts, on the instance of `decide`.

**Offline signer** (`OfflineSignerProofs`): `SignsOnce`, `AnswersOnRecord` and
`TypeCorrect`.  The three UNIQUE columns (`RowsAreUnique`) make the reservation the
lock; a call between reservation and stored answer holds an unanswered row that no
other call works on (`WorkingHasRow`, `OneWorker`), and who is about to sign is the
first to (`SignedOnce`); `Progress` follows what it has
signed and logged.

Induction over data.  The induction theorems of the library take an operator as a
parameter; `NatSetInduction` and `FiniteSetInduction` of `BinanceHistoryProofs` take
the set of the numbers, or of the subsets, that have the property, and are proved from
the well-foundedness of the naturals.  With them sums over sets, ranks and pages, the
replay of trades and the books are proved about for data of any size.

What the proofs changed in the models.  Some CASE expressions of the connectors had
arms whose conditions overlapped, of which TLC takes the first and TLA+ any; they
exclude each other now.  That the chain's own asset is no token was used and not said
(`EvmAssumption`).

Only model-checked: the three properties of liveness, which, under fairness, are
out of the prover's reach.

## 5. State of the work

Done: the broker, its stores and approvals, the approval store, the audit chain, the
guardrail service, policy and risk over a live account, the three connectors, the
offline signer.  What would come next, in this order:

1. A composition of agent, guardrail, approval, broker and connector, for what no
   part shows alone: a submission has a decision on record that allowed it.
2. The canary dry-run receipt, bound to an intent and an age; at present one more
   reason for `beforeSideEffect` to throw.
3. The in-memory idempotency store of paper trading as a second implementation of
   `OnceOnly`.

### Not modelled

The reviewer and its HTTP client: one request and the validation of its answer,
without state; every verdict and every failure of it is in `Guardrail`.  The agent
adapters are clients outside the trusted boundary; the services take any calls
instead.  The paper simulator acts on nothing.  HTTP servers parse and authenticate;
secrets are read from a vault; schemas are data types.  Of the modelled components:
the migration of audit databases without hashes, the redaction of text, decimal and
hexadecimal formats, the signing of requests, the commissions in other assets, and
the starting of the OPA binary.
