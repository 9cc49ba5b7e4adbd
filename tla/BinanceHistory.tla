---------------------------- MODULE BinanceHistory ----------------------------
(***************************************************************************)
(* A Binance account that goes on trading, and BinanceRestClient           *)
(* .getRiskHistory (packages/binance-connector/src/rest-client.ts), which  *)
(* collects the trades and orders of its day page by page meanwhile.       *)
(*                                                                         *)
(* A request is one step: its answer is what Binance shows at some instant *)
(* before it arrives.  An order is for one unit, and its amounts include   *)
(* what commission it pays in the quote asset.                             *)
(***************************************************************************)
EXTENDS Integers, FiniteSets, SequencesExt

CONSTANTS
  Call,            \* evaluations of an intent
  historySymbols,  \* BINANCE_HISTORY_SYMBOLS, a sequence
  PAGE_SIZE,
  DayLength,       \* ticks of a UTC day
  Histories,       \* what the account may have done before: see Init
  MaxTime, MaxOrders, MaxFills,  \* bounds of the model
  Gains,           \* the income a futures fill may bring
  Price,           \* prices
  Null

ASSUME HistoryAssumption ==
  /\ PAGE_SIZE \in Nat \ {0} /\ DayLength \in Nat \ {0}
  /\ MaxTime \in Nat /\ MaxOrders \in Nat /\ MaxFills \in Nat
  /\ Gains \subseteq Int /\ Price \subseteq Nat \ {0}

Symbol == ToSet(historySymbols)

\* The constructor of the provider refuses an empty universe and one that
\* names a symbol twice.
ASSUME SymbolsAssumption ==
  /\ historySymbols \in Seq(Symbol)
  /\ historySymbols # <<>> /\ IsInjective(historySymbols)

VARIABLES
  product,  \* "spot" or "usdm_futures"
  clock,
  orders,   \* the orders of the account, in the order of their ids
  fills,    \* its trades
  lots,     \* per symbol, the units held and what they cost
  collect   \* per call, the collection of its history

account == <<orders, fills, lots>>

Collection ==
  [cutoff : Nat, step : {"trades", "orders", "latest", "income", "done"},
   symbol : Nat, from : Nat, windows : Seq(Nat \X Nat), page : Nat,
   trades : Seq(Nat), orders : Seq(Nat), income : Seq(Nat), last : Int]

ASSUME NullAssumption == Null \notin Collection

AnOrder == [symbol : Symbol, side : {"BUY", "SELL"}, price : Nat, time : Nat]
AFill == [order : Nat, time : Nat, gain : Int]
Lots == [Symbol -> [quantity : Int, cost : Nat]]

HistoryTypeOK ==
  /\ product \in {"spot", "usdm_futures"}
  /\ clock \in 0..MaxTime
  /\ orders \in Seq(AnOrder) /\ Len(orders) <= MaxOrders
  /\ fills \in Seq(AFill) /\ Len(fills) <= MaxFills
  /\ lots \in Lots
  /\ collect \in [Call -> {Null} \cup Collection]

\* What Binance says of its rows: a fill is of an order there is, and the ids
\* of fills follow time, which has not passed now.
Chronicle(os, fs, now) ==
  /\ \A k \in DOMAIN fs : fs[k].order \in DOMAIN os /\ fs[k].time <= now
  /\ \A j, k \in DOMAIN fs : j < k => fs[j].time <= fs[k].time
  /\ \A k \in DOMAIN os : os[k].time <= now

ASSUME HistoriesAssumption ==
  \A h \in Histories :
    /\ h.clock \in 0..MaxTime
    /\ h.orders \in Seq(AnOrder) /\ Len(h.orders) <= MaxOrders
    /\ h.fills \in Seq(AFill) /\ Len(h.fills) <= MaxFills
    /\ h.lots \in Lots
    /\ Chronicle(h.orders, h.fills, h.clock)

-----------------------------------------------------------------------------
(***************************************************************************)
(* The account at Binance.  lots is its average cost, kept fill by fill.   *)
(***************************************************************************)
day(t) == t \div DayLength

dayStart(t) == day(t) * DayLength

\* A fill of o: the lot it leaves and, for a sale on spot, its gain.
bought(lot, o) == [quantity |-> lot.quantity + 1, cost |-> lot.cost + o.price]
averageCost(lot) == lot.cost \div lot.quantity
sold(lot) ==
  IF lot.quantity = 1 THEN [quantity |-> 0, cost |-> 0]
  ELSE [quantity |-> lot.quantity - 1, cost |-> lot.cost - averageCost(lot)]
netted(lot, o) == [lot EXCEPT !.quantity = IF o.side = "BUY" THEN @ + 1 ELSE @ - 1]

\* The books of a spot account: what it holds after each of its fills.
NoLots == [s \in Symbol |-> [quantity |-> 0, cost |-> 0]]

booked(held, o) ==
  LET lot == held[o.symbol]
  IN  [held EXCEPT ![o.symbol] = IF o.side = "BUY" THEN bought(lot, o) ELSE sold(lot)]

books(os, fs) ==
  LET held[n \in 0..Len(fs)] == IF n = 0 THEN NoLots ELSE booked(held[n - 1], os[fs[n].order])
  IN  held

\* All it holds it has traded for: ls is what its fills left, and a sale was of
\* something held and gained what it brought more than that had cost.
InTheBooks(os, fs, ls) ==
  LET held == books(os, fs) IN
  /\ ls = held[Len(fs)]
  /\ \A n \in DOMAIN fs :
       LET o == os[fs[n].order]
           lot == held[n - 1][o.symbol]
       IN IF o.side = "BUY" THEN fs[n].gain = 0
          ELSE lot.quantity > 0 /\ fs[n].gain = o.price - averageCost(lot)

ASSUME BooksAssumption ==
  \A h \in Histories : h.product = "spot" => InTheBooks(h.orders, h.fills, h.lots)

unfilled == {k \in DOMAIN orders : \A j \in DOMAIN fills : fills[j].order # k}

\* Init: Histories are the orders and fills of an account before, each fill
\* with the gain the exchange recorded and lots what they left.
InitAccount ==
  /\ product \in {"spot", "usdm_futures"}
  /\ \E h \in Histories :
       /\ h.product = product
       /\ clock = h.clock /\ orders = h.orders /\ fills = h.fills /\ lots = h.lots
  /\ collect = [c \in Call |-> Null]

\* An order reaches Binance: of an evaluation, or of the owner of the account.
Order(symbol, side, price) ==
  /\ Len(orders) < MaxOrders
  /\ orders' = Append(orders, [symbol |-> symbol, side |-> side, price |-> price, time |-> clock])

OwnerOrders ==
  /\ \E s \in Symbol, side \in {"BUY", "SELL"}, p \in Price : Order(s, side, p)
  /\ UNCHANGED <<product, clock, fills, lots, collect>>

Fill ==
  /\ Len(fills) < MaxFills
  /\ \E k \in unfilled :
       LET o == orders[k]
           lot == lots[o.symbol]
           fill(gain) == fills' = Append(fills, [order |-> k, time |-> clock, gain |-> gain])
       IN \/ /\ product = "usdm_futures"
             /\ \E gain \in Gains : fill(gain)
             /\ lots' = [lots EXCEPT ![o.symbol] = netted(lot, o)]
          \/ /\ product = "spot" /\ o.side = "BUY"
             /\ fill(0)
             /\ lots' = [lots EXCEPT ![o.symbol] = bought(lot, o)]
          \/ /\ product = "spot" /\ o.side = "SELL" /\ lot.quantity > 0
             /\ fill(o.price - averageCost(lot))
             /\ lots' = [lots EXCEPT ![o.symbol] = sold(lot)]
  /\ UNCHANGED <<product, clock, orders, collect>>

Tick ==
  /\ clock < MaxTime
  /\ clock' = clock + 1
  /\ UNCHANGED <<product, account, collect>>

-----------------------------------------------------------------------------
(***************************************************************************)
(* What a request is answered.                                             *)
(***************************************************************************)
tradesOf(s) == {k \in DOMAIN fills : orders[fills[k].order].symbol = s}

ordersOf(s) == {k \in DOMAIN orders : orders[k].symbol = s}

\* SetToSortSeq, in terms the prover knows.
rank(k, ids) == Cardinality({j \in ids : j <= k})

sorted(ids) == [n \in 1..Cardinality(ids) |-> CHOOSE k \in ids : rank(k, ids) = n]

\* The n-th page of the rows with these ids; without a number, the first.
pageNumber(n, ids) ==
  SubSeq(sorted(ids), (n - 1) * PAGE_SIZE + 1, Min({n * PAGE_SIZE, Cardinality(ids)}))

page(ids) == pageNumber(1, ids)

within(rows, ids, w) == {k \in ids : rows[k].time \in w[1]..w[2]}

-----------------------------------------------------------------------------
(***************************************************************************)
(* getRiskHistory: for each symbol its trades, the orders of the day and   *)
(* the latest order; then, on futures, the income of the day.              *)
(***************************************************************************)
wholeDay(t) == <<dayStart(t), t>>

Collect(c) ==
  collect' = [collect EXCEPT ![c] =
    [cutoff |-> clock, step |-> "trades", symbol |-> 1, from |-> 1,
     windows |-> <<wholeDay(clock)>>, page |-> 1,
     trades |-> <<>>, orders |-> <<>>, income |-> <<>>, last |-> -1]]

symbolOf(h) == historySymbols[h.symbol]

\* spotTrades: pages by id, until one is short or passes the cutoff.
spotTrades(h) ==
  LET rows == page({k \in tradesOf(symbolOf(h)) : k >= h.from})
      taken == sorted({k \in ToSet(rows) : fills[k].time <= h.cutoff})
      beyondCutoff == \E k \in ToSet(rows) : fills[k].time > h.cutoff
      more == Len(rows) = PAGE_SIZE /\ ~beyondCutoff
  IN [h EXCEPT !.trades = @ \o taken,
               !.from = IF more THEN Last(rows) + 1 ELSE 1,
               !.step = IF more THEN @ ELSE "orders"]

\* Mutant: the windows overlap in their middle.
OverlappingSplit(w) ==
  LET middle == w[1] + (w[2] - w[1]) \div 2
  IN  <<<<w[1], middle>>, <<middle, w[2]>>>>

\* timeWindow: a full page is ambiguous, so its inclusive window is split; what
\* was taken is the rows of the windows that were not full.
split(w) ==
  LET middle == w[1] + (w[2] - w[1]) \div 2
  IN  <<<<w[1], middle>>, <<middle + 1, w[2]>>>>

saturated(rows, w) == Len(rows) = PAGE_SIZE /\ w[1] = w[2]

\* The next windows after the first of h was answered with rows.
timeWindow(h, rows) ==
  IF Len(rows) = PAGE_SIZE THEN split(Head(h.windows)) \o Tail(h.windows) ELSE Tail(h.windows)

\* Mutant: the rows of a full page are kept, and read again.
KeptAll(rows) == rows

kept(rows) == IF Len(rows) = PAGE_SIZE THEN <<>> ELSE rows

\* The window of h has been read into field f; when none is left, step is next.
windowRead(h, f, rows, next) ==
  LET windows == timeWindow(h, rows)
      read == [h EXCEPT ![f] = @ \o kept(rows)]
  IN IF windows # <<>> THEN [read EXCEPT !.windows = windows]
     ELSE [read EXCEPT !.windows = <<wholeDay(h.cutoff)>>, !.step = next]

ReadSpotTrades(c) ==
  /\ product = "spot" /\ collect[c].step = "trades"
  /\ collect' = [collect EXCEPT ![c] = spotTrades(@)]

ReadFuturesTrades(c) ==
  LET h == collect[c]
      w == Head(h.windows)
      rows == page(within(fills, tradesOf(symbolOf(h)), w))
  IN /\ product = "usdm_futures" /\ h.step = "trades"
     /\ ~saturated(rows, w)
     /\ collect' = [collect EXCEPT ![c] = windowRead(h, "trades", rows, "orders")]

ReadOrders(c) ==
  LET h == collect[c]
      w == Head(h.windows)
      rows == page(within(orders, ordersOf(symbolOf(h)), w))
  IN /\ h.step = "orders"
     /\ ~saturated(rows, w)
     /\ collect' = [collect EXCEPT ![c] = windowRead(h, "orders", rows, "latest")]

ReadLatest(c) ==
  LET h == collect[c]
      times == {orders[k].time : k \in ordersOf(symbolOf(h))}
      step == IF h.symbol < Len(historySymbols) THEN "trades"
              ELSE IF product = "spot" THEN "done" ELSE "income"
  IN /\ h.step = "latest"
     /\ collect' = [collect EXCEPT ![c] =
          [h EXCEPT !.last = Max(times \cup {h.last}), !.symbol = @ + 1, !.step = step]]

\* Numbered pages of the income of the day; a row that appears twice is refused.
ReadIncome(c) ==
  LET h == collect[c]
      rows == pageNumber(h.page, within(fills, DOMAIN fills, wholeDay(h.cutoff)))
  IN /\ h.step = "income"
     /\ ToSet(rows) \cap ToSet(h.income) = {}
     /\ collect' = [collect EXCEPT ![c] =
          [h EXCEPT !.income = @ \o rows, !.page = @ + 1,
                    !.step = IF Len(rows) < PAGE_SIZE THEN "done" ELSE @]]

ReadHistory(c) ==
  \/ ReadSpotTrades(c) \/ ReadFuturesTrades(c) \/ ReadOrders(c)
  \/ ReadLatest(c) \/ ReadIncome(c)

\* A millisecond with more rows than a page has no complete answer.
Incomplete(h) ==
  LET w == Head(h.windows) IN
  \/ /\ h.step = "orders"
     /\ saturated(page(within(orders, ordersOf(symbolOf(h)), w)), w)
  \/ /\ h.step = "trades" /\ product = "usdm_futures"
     /\ saturated(page(within(fills, tradesOf(symbolOf(h)), w)), w)

-----------------------------------------------------------------------------
\* The rows a complete history of the day shows: the fills before the cutoff,
\* and perhaps some of the cutoff's own tick.
todays(rows, cutoff) == {k \in DOMAIN rows : rows[k].time \in dayStart(cutoff)..cutoff}
settled(rows, cutoff) == {k \in todays(rows, cutoff) : rows[k].time < cutoff}

\* A collection that has ended holds every trade and order of its day before
\* the cutoff exactly once, however the pages fell and whatever was traded in
\* the meantime; the latest order it knows is no older than any of them.
HistoryIsComplete ==
  \A c \in Call :
    collect[c] # Null /\ collect[c].step = "done" =>
      LET h == collect[c] IN
      /\ IsInjective(h.trades) /\ IsInjective(h.orders) /\ IsInjective(h.income)
      /\ settled(fills, h.cutoff) \subseteq ToSet(h.trades)
      /\ settled(orders, h.cutoff) \subseteq ToSet(h.orders)
      /\ product = "usdm_futures" => settled(fills, h.cutoff) \subseteq ToSet(h.income)
      /\ \A k \in ToSet(h.orders) : orders[k].time <= h.last
      /\ ToSet(h.orders) \subseteq todays(orders, h.cutoff)
===============================================================================
