--------------------------- MODULE BinanceConnector ---------------------------
(***************************************************************************)
(* BinanceConnector.execute (packages/binance-connector/src/connector.ts)  *)
(* over BinanceRestClient (rest-client.ts), in live mode.  The broker      *)
(* calls execute once it has reserved the idempotency key and hands it     *)
(* beforeSideEffect, which throws when the kill switch is active or the    *)
(* dry-run receipt has expired.                                            *)
(*                                                                         *)
(* A request that writes is on the wire until the exchange carries it out; *)
(* its answer may be lost, and a request the client has given up may still *)
(* arrive.  A request that only reads is one step: the answer is what the  *)
(* exchange shows at some instant before it arrives.                       *)
(***************************************************************************)
EXTENDS Reconciliation, ConnectorInterface

CONSTANTS
  Call,            \* calls of execute
  Intent,          \* the intents each may be given
  AllowedSymbols,  \* BINANCE_SYMBOLS
  HistorySymbols,  \* BINANCE_HISTORY_SYMBOLS
  MaxLeverage,     \* config.maxFuturesLeverage
  AccountLeverage, \* the leverages the futures symbol may have been left at
  Testnet,         \* config.testnet
  Permissions,     \* the sets of permissions the API key may have
  MaxAge,          \* the age in ticks a quote may have: 10 s
  Prices           \* market prices

VARIABLES
  product,    \* config.accountMode: each process serves one product
  permitted,  \* the permissions of the API key
  margin,     \* the margin mode of the futures symbol at Binance
  leverage,   \* the leverage of the futures symbol at Binance
  book,       \* per call, the order it created at Binance
  wire,       \* per call, a write on its way to Binance
  reply,      \* per call, an answer on its way back
  pc,         \* where each call is
  intent,     \* its argument
  age,        \* per call, the ticks since it asked for a quote
  acked,      \* per call, the order as Binance acknowledged it
  outcome     \* per call, how execute ended

exchange == <<leverage, book>>
network == <<wire, reply>>
settings == <<product, permitted, margin>>
call == <<pc, intent, age, acked, outcome>>
vars == <<settings, halted, exchange, network, call>>

Place == {"idle", "permissions", "margin", "quote", "quoted", "marginAgain", "marginLast",
          "leverage", "order", "lookup", "cancel", "status", "done"}

\* "not_submitted" is a ConnectorRevalidationError, "threw" any other error.
Outcome == {"not_submitted", "threw", "matched", "discrepancy", "unavailable",
            "canceled", "status"}

IntentRecord ==
  [action : {"place", "cancel", "status"}, symbol : AllowedSymbols \cup HistorySymbols,
   key : Nat, otherMode : BOOLEAN, side : {"BUY", "SELL"},
   quantity : Nat \ {0}, price : Nat \ {0}, maxNotional : Nat, slippageBps : Nat,
   leverage : Nat \ {0}, isolated : BOOLEAN, target : Call]

Order == [status : OrderStatus, filled : Nat, quote : Nat, leverage : Nat]

Reply == [kind : {"error", "leverage", "order"}, order : Order \cup {Null}]

ASSUME BinanceAssumption ==
  /\ Intent \in [Call -> SUBSET IntentRecord]
  /\ AllowedSymbols \subseteq HistorySymbols
  /\ MaxLeverage \in Nat \ {0} /\ AccountLeverage \subseteq Nat /\ MaxAge \in Nat
  /\ Testnet \in BOOLEAN
  /\ Prices \subseteq Nat \ {0} /\ Prices # {}
  /\ Null \notin Outcome \cup {"leverage", "order", "cancel"} \cup Order \cup Reply

TypeOK ==
  /\ product \in {"spot", "usdm_futures"}
  /\ permitted \in Permissions
  /\ margin \in {"isolated", "cross"}
  /\ halted \in BOOLEAN
  /\ leverage \in Nat
  /\ book \in [Call -> Order \cup {Null}]
  /\ wire \in [Call -> {"leverage", "order", "cancel", Null}]
  /\ reply \in [Call -> Reply \cup {Null}]
  /\ pc \in [Call -> Place]
  /\ intent \in [Call -> {Null} \cup UNION {Intent[c] : c \in Call}]
  /\ age \in [Call -> 0..(MaxAge + 1)]
  /\ acked \in [Call -> Order \cup {Null}]
  /\ outcome \in [Call -> Outcome \cup {Null}]

Init ==
  /\ product \in {"spot", "usdm_futures"}
  /\ permitted \in Permissions
  /\ margin \in IF product = "spot" THEN {"isolated"} ELSE {"isolated", "cross"}
  /\ InitHalted
  /\ leverage \in AccountLeverage
  /\ book = [c \in Call |-> Null]
  /\ wire = [c \in Call |-> Null] /\ reply = [c \in Call |-> Null]
  /\ pc = [c \in Call |-> "idle"] /\ intent = [c \in Call |-> Null]
  /\ age = [c \in Call |-> 0]
  /\ acked = [c \in Call |-> Null] /\ outcome = [c \in Call |-> Null]

-----------------------------------------------------------------------------
(***************************************************************************)
(* Validation of an intent, from validation.ts and validateExecutableIntent.*)
(* otherMode is an accountMode other than config.accountMode, the margin    *)
(* modes among them.                                                       *)
(***************************************************************************)
validateIntent(i) ==
  /\ i.action = "place" =>
       /\ ~i.otherMode
       /\ i.symbol \in AllowedSymbols
       /\ product = "usdm_futures" => i.isolated /\ i.leverage <= MaxLeverage
  /\ i.action # "place" => i.symbol \in HistorySymbols

\* i.quantity * i.price is the notional of the limit order.
validateExecutableIntent(i) ==
  /\ validateIntent(i)
  /\ i.action = "place" => i.quantity * i.price <= i.maxNotional

validateLiveKeyPermissions(i) ==
  /\ "withdraw" \notin permitted
  /\ "ip" \in permitted
  /\ i.action \in {"place", "status"} => "reading" \in permitted
  /\ i.action \in {"place", "cancel"} => product \in permitted

deviates(i, market) ==
  LET distance == IF i.price > market THEN i.price - market ELSE market - i.price
  IN  distance * 10000 > i.slippageBps * market

-----------------------------------------------------------------------------
Goto(c, p) == pc' = [pc EXCEPT ![c] = p]

End(c, o) == Goto(c, "done") /\ outcome' = [outcome EXCEPT ![c] = o]

\* Mutant: the switch and the receipts are not read again after the awaits.
MayAlwaysAct(i) == TRUE

\* beforeSideEffect: assertKillSwitchAllowsExecution lets cancellations pass,
\* and only orders carry a dry-run receipt.
mayAct(i) == i.action = "place" => ~halted

\* One write leaves; what it answers is received, or lost, in later steps.
Send(c, write) == wire' = [wire EXCEPT ![c] = write] /\ Goto(c, write)

\* revalidate up to its first await.
Begin(c, i) ==
  LET next == IF ~Testnet THEN "permissions"
              ELSE IF i.action # "place" THEN i.action
              ELSE IF product = "spot" THEN "quote" ELSE "margin"
  IN /\ pc[c] = "idle"
     /\ intent' = [intent EXCEPT ![c] = i]
     /\ IF ~validateExecutableIntent(i) THEN End(c, "not_submitted") /\ UNCHANGED wire
        ELSE /\ UNCHANGED outcome
             /\ IF next = "cancel" THEN Send(c, "cancel") ELSE Goto(c, next) /\ UNCHANGED wire
     /\ UNCHANGED <<settings, halted, exchange, reply, age, acked>>

\* verifyLiveApiKey answered, or failed.  A cancellation is sent and a status
\* query made without another await of revalidate.
VerifyApiKey(c) ==
  LET i == intent[c] IN
  /\ pc[c] = "permissions"
  /\ \E answered \in BOOLEAN :
       IF ~answered \/ ~validateLiveKeyPermissions(i)
       THEN End(c, "not_submitted") /\ UNCHANGED wire
       ELSE /\ UNCHANGED outcome
            /\ \/ i.action = "cancel" /\ Send(c, "cancel")
               \/ i.action = "status" /\ Goto(c, "status") /\ UNCHANGED wire
               \/ /\ i.action = "place" /\ UNCHANGED wire
                  /\ Goto(c, IF product = "spot" THEN "quote" ELSE "margin")
  /\ UNCHANGED <<settings, intent, halted, exchange, reply, age, acked>>

\* verifyFuturesIsolatedMargin: in revalidate a failure is a revalidation
\* failure; again before beforeSideEffect, which runs when it has passed; and
\* once more inside placeFuturesOrder, whose leverage request follows.
VerifyMargin(c) ==
  /\ pc[c] \in {"margin", "marginAgain", "marginLast"}
  /\ \E answered \in BOOLEAN :
       IF ~answered \/ margin # "isolated"
       THEN /\ End(c, IF pc[c] = "margin" THEN "not_submitted" ELSE "threw")
            /\ UNCHANGED wire
       ELSE \/ pc[c] = "margin" /\ Goto(c, "quote") /\ UNCHANGED <<wire, outcome>>
            \/ /\ pc[c] = "marginAgain" /\ UNCHANGED wire
               /\ IF mayAct(intent[c]) THEN Goto(c, "marginLast") /\ UNCHANGED outcome
                  ELSE End(c, "not_submitted")
            \/ pc[c] = "marginLast" /\ Send(c, "leverage") /\ UNCHANGED outcome
  /\ UNCHANGED <<settings, intent, halted, exchange, reply, age, acked>>

\* getPrice is called; the spot ticker has no event time, so its answer is
\* stamped with this instant.
AskPrice(c) ==
  /\ pc[c] = "quote"
  /\ Goto(c, "quoted")
  /\ UNCHANGED <<settings, intent, halted, exchange, network, age, acked, outcome>>

\* The quote arrives: its age and distance end revalidate.  A spot order is
\* sent in the same turn, after beforeSideEffect.
ReceivePrice(c) ==
  LET i == intent[c] IN
  /\ pc[c] = "quoted"
  /\ age' = [age EXCEPT ![c] = 0]
  /\ \E answered \in BOOLEAN, market \in Prices, ageMs \in 0..age[c] :
       /\ product = "spot" => ageMs = age[c]
       /\ IF ~answered \/ ageMs > MaxAge \/ deviates(i, market)
          THEN End(c, "not_submitted") /\ UNCHANGED wire
          ELSE \/ product = "usdm_futures" /\ Goto(c, "marginAgain") /\ UNCHANGED <<wire, outcome>>
               \/ /\ product = "spot"
                  /\ IF mayAct(i) THEN Send(c, "order") /\ UNCHANGED outcome
                     ELSE End(c, "not_submitted") /\ UNCHANGED wire
  /\ UNCHANGED <<settings, intent, halted, exchange, reply, acked>>

\* Mutant: the order is placed although its leverage was refused.
OrderAnyway(c) ==
  /\ pc[c] \in {"leverage", "order", "cancel"}
  /\ reply[c] # Null
  /\ reply' = [reply EXCEPT ![c] = Null]
  /\ \/ /\ reply[c].kind = "error" /\ pc[c] # "leverage"
        /\ End(c, "threw") /\ UNCHANGED <<wire, acked>>
     \/ pc[c] = "leverage" /\ Send(c, "order") /\ UNCHANGED <<acked, outcome>>
     \/ /\ reply[c].kind = "order" /\ UNCHANGED wire
        /\ IF pc[c] = "order"
           THEN /\ acked' = [acked EXCEPT ![c] = reply[c].order]
                /\ Goto(c, "lookup") /\ UNCHANGED outcome
           ELSE End(c, "canceled") /\ UNCHANGED acked
  /\ UNCHANGED <<settings, intent, halted, exchange, age>>

\* An answer to a write.  After leverage comes the order itself; an error
\* code, or an acknowledgement that never came, is thrown.
ReceiveReply(c) ==
  /\ pc[c] \in {"leverage", "order", "cancel"}
  /\ reply[c] # Null
  /\ reply' = [reply EXCEPT ![c] = Null]
  /\ \/ reply[c].kind = "error" /\ End(c, "threw") /\ UNCHANGED <<wire, acked>>
     \/ reply[c].kind = "leverage" /\ Send(c, "order") /\ UNCHANGED <<acked, outcome>>
     \/ /\ reply[c].kind = "order"
        /\ IF pc[c] = "order"
           THEN /\ acked' = [acked EXCEPT ![c] = reply[c].order]
                /\ Goto(c, "lookup") /\ UNCHANGED <<wire, outcome>>
           ELSE End(c, "canceled") /\ UNCHANGED <<wire, acked>>
  /\ UNCHANGED <<settings, intent, halted, exchange, age>>

\* Mutant: a timeout is taken for a refusal.
TimeoutMeansRefused(c) ==
  /\ pc[c] \in {"leverage", "order", "cancel"}
  /\ End(c, "not_submitted")
  /\ UNCHANGED <<settings, intent, halted, exchange, network, age, acked>>

\* AbortSignal.timeout, or a broken connection: "execution may be unknown".
\* The request, or its answer, is still wherever it was.
LoseReply(c) ==
  /\ pc[c] \in {"leverage", "order", "cancel"}
  /\ End(c, "threw")
  /\ UNCHANGED <<settings, intent, halted, exchange, network, age, acked>>

\* acknowledgeLiveOrder: the status is looked up once.
LookUp(c) ==
  LET i == intent[c] IN
  /\ pc[c] = "lookup"
  /\ \/ End(c, "unavailable")
     \/ End(c, reconcileAcceptedOrder(acked[c], book[c], i.side, i.quantity, i.price))
  /\ acked' = [acked EXCEPT ![c] = Null]
  /\ UNCHANGED <<settings, intent, halted, exchange, network, age>>

\* cex.get_order_status: an unknown order is an error of Binance.
GetStatus(c) ==
  /\ pc[c] = "status"
  /\ \/ End(c, "threw")
     \/ book[intent[c].target] # Null /\ End(c, "status")
  /\ UNCHANGED <<settings, intent, halted, exchange, network, age, acked>>

-----------------------------------------------------------------------------
(***************************************************************************)
(* Binance: orders, their fills and their ends.                            *)
(***************************************************************************)
open(o) == o # Null /\ o.status \notin Ended

\* A client order id is derived from the scoped idempotency key.
clientOrderId(c) == intent[c].key

\* Binance refuses an order whose client order id an open order has.
duplicate(c) == \E d \in Call : open(book[d]) /\ clientOrderId(d) = clientOrderId(c)

fillPrices(i) == {p \in Prices : IF i.side = "BUY" THEN p <= i.price ELSE p >= i.price}

\* o after n more units are filled at price p.
filledBy(o, i, n, p) ==
  [o EXCEPT !.filled = @ + n, !.quote = @ + n * p,
            !.status = IF o.filled + n = i.quantity THEN "FILLED"
                       ELSE IF o.status = "PENDING_CANCEL" THEN @ ELSE "PARTIALLY_FILLED"]

\* What a new order can be by the time it is acknowledged.
NewOrders(i) ==
  LET fresh == [status |-> "NEW", filled |-> 0, quote |-> 0, leverage |-> leverage]
  IN  {[fresh EXCEPT !.status = s] : s \in {"NEW", "PENDING_NEW", "REJECTED"}}
      \cup {filledBy(fresh, i, n, p) : n \in 1..i.quantity, p \in fillPrices(i)}

\* The answer goes to a call that still waits for it.
Answer(c, k, o) ==
  reply' = [reply EXCEPT ![c] = IF pc[c] = wire[c] THEN [kind |-> k, order |-> o] ELSE Null]

CarryOut(c) ==
  LET i == intent[c] IN
  /\ wire[c] # Null
  /\ wire' = [wire EXCEPT ![c] = Null]
  /\ \/ Answer(c, "error", Null) /\ UNCHANGED <<leverage, book>>
     \/ /\ wire[c] = "leverage"
        /\ leverage' = i.leverage
        /\ Answer(c, "leverage", Null) /\ UNCHANGED book
     \/ /\ wire[c] = "order" /\ ~duplicate(c)
        /\ \E o \in NewOrders(i) : book' = [book EXCEPT ![c] = o] /\ Answer(c, "order", o)
        /\ UNCHANGED leverage
     \/ /\ wire[c] = "cancel" /\ open(book[i.target])
        /\ \E s \in {"CANCELED", "PENDING_CANCEL"} :
             /\ book' = [book EXCEPT ![i.target].status = s]
             /\ Answer(c, "order", book'[i.target])
        /\ UNCHANGED leverage
  /\ UNCHANGED <<settings, halted, call>>

\* o after the market has filled more of it.
furtherFills(o, i) ==
  {filledBy(o, i, n, p) : n \in 1..(i.quantity - o.filled), p \in fillPrices(i)}

\* o once Binance has accepted, refused, cancelled or expired it.
furtherStatuses(o) ==
  {[o EXCEPT !.status = s] :
     s \in CASE o.status = "PENDING_NEW" -> {"NEW", "REJECTED"}
             [] o.status = "PENDING_CANCEL" -> {"CANCELED"}
             [] OTHER -> {"EXPIRED", "EXPIRED_IN_MATCH"}}

OrderAdvances(c) ==
  /\ open(book[c])
  /\ \E o \in furtherFills(book[c], intent[c]) \cup furtherStatuses(book[c]) :
       book' = [book EXCEPT ![c] = o]
  /\ UNCHANGED <<settings, halted, leverage, network, call>>

\* Time passes for the calls that wait for a quote.
Tick ==
  LET waiting == {c \in Call : pc[c] = "quoted" /\ age[c] <= MaxAge} IN
  /\ waiting # {}
  /\ age' = [c \in Call |-> IF c \in waiting THEN age[c] + 1 ELSE age[c]]
  /\ UNCHANGED <<settings, halted, exchange, network, pc, intent, acked, outcome>>

-----------------------------------------------------------------------------
Step(c) ==
  \/ (\E i \in Intent[c] : Begin(c, i)) \/ VerifyApiKey(c) \/ VerifyMargin(c) \/ AskPrice(c) \/ ReceivePrice(c)
  \/ ReceiveReply(c) \/ LoseReply(c) \/ LookUp(c) \/ GetStatus(c)

Next ==
  \/ \E c \in Call : Step(c) \/ CarryOut(c) \/ OrderAdvances(c)
  \/ Tick
  \/ Switch /\ UNCHANGED <<settings, exchange, network, call>>

\* Every request of the client is aborted by a timeout, so a call that has
\* begun goes on; the exchange and the operator need not act.
Spec == Init /\ [][Next]_vars /\ \A c \in Call : WF_vars(Step(c) /\ pc[c] # "idle")

-----------------------------------------------------------------------------
\* The order has cost exactly its limit, and the double that orderResult makes
\* of its average price lies beyond it.
Misrounded(o, i) ==
  /\ o.quote = i.price * o.filled
  /\ <<o.quote, o.filled>> \in IF i.side = "BUY" THEN RoundedUp ELSE RoundedDown

\* A status query between an acknowledgement and the end of an order races
\* its fills and its cancellation.  What an honest exchange can show is
\* reported as a discrepancy for one reason only, the rounding of an average
\* price that equals the limit: LEGAL_TRANSITIONS and inconsistentFill allow
\* every way an order may go on, however many steps it has taken.
FalseAlarmOnlyByRounding ==
  [][\A c \in Call : outcome[c] = Null /\ outcome'[c] = "discrepancy" =>
                     Misrounded(book[c], intent[c])]_vars

\* ConnectorRevalidationError tells the broker that nothing was submitted:
\* the call has no order, and nothing of it is on its way to Binance.
NotSubmittedMeansNothingSent ==
  \A c \in Call : outcome[c] = "not_submitted" => book[c] = Null /\ wire[c] = Null

\* Binance keeps one leverage per symbol, set by whoever asked last: another
\* call, or a request that was given up and arrives late.  Whatever it was
\* before, and however the calls interleave, no order is placed at a leverage
\* above maxFuturesLeverage.
LeverageIsBounded ==
  \A c \in Call : product = "usdm_futures" /\ book[c] # Null => book[c].leverage <= MaxLeverage

\* c's order leaves for Binance in this step.
OrderLeaves(c) == wire[c] # "order" /\ wire'[c] = "order"

\* docs/live-trading-safety.md:53: the kill state is checked again
\* "immediately before connector side effects".
OrderLeavesWhenClear == [][\A c \in Call : OrderLeaves(c) => ~halted]_vars
===============================================================================
