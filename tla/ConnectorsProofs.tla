---------------------------- MODULE ConnectorsProofs ----------------------------
(***************************************************************************)
(* Proofs about Connectors: what a call has awaited when it acts, and what *)
(* it leaves at the exchange when it says that nothing was submitted.      *)
(***************************************************************************)
EXTENDS Connectors, TLAPS

\* Places of a call that has sent nothing yet.
Quiet == {"idle", "permissions", "margin", "quote", "quoted", "marginAgain", "marginLast",
          "status"}

\* Places only an order passes, and those only a futures order passes.
Ordering == {"margin", "quote", "quoted", "marginAgain", "marginLast", "leverage"}
Levering == {"marginAgain", "marginLast", "leverage"}

Domains ==
  /\ DOMAIN book = Call /\ DOMAIN wire = Call /\ DOMAIN reply = Call /\ DOMAIN pc = Call
  /\ DOMAIN intent = Call /\ DOMAIN outcome = Call /\ DOMAIN age = Call

CallSound(c) ==
  /\ pc[c] \in Quiet => book[c] = Null /\ wire[c] = Null
  /\ outcome[c] = "not_submitted" => pc[c] = "done" /\ book[c] = Null /\ wire[c] = Null
  /\ pc[c] # "idle" => intent[c] \in IntentRecord
  /\ pc[c] \in Ordering => intent[c].action = "place"
  /\ pc[c] \in Levering => product = "usdm_futures"
  /\ reply[c] # Null /\ reply[c].kind = "leverage" => product = "usdm_futures"
  /\ wire[c] = "leverage" => product = "usdm_futures"

Inv == Domains /\ (\A c \in Call : CallSound(c))

-----------------------------------------------------------------------------
LEMMA InitInv == InitConnectors => Inv
<1>. SUFFICES ASSUME InitConnectors PROVE Inv
  OBVIOUS
<1>. USE BinanceAssumption DEF InitConnectors, Init, Outcome
<1>1. Domains
  BY DEF Domains
<1>2. \A c \in Call : CallSound(c)
  BY DEF CallSound, Quiet, Ordering, Levering
<1>. QED  BY <1>1, <1>2 DEF Inv

-----------------------------------------------------------------------------
\* The other calls, when one call moves on.
LEMMA Frame ==
  ASSUME Inv, NEW c \in Call, UNCHANGED <<book, product>>,
         Domains', CallSound(c)',
         \A d \in Call \ {c} : /\ wire'[d] = wire[d] /\ reply'[d] = reply[d] /\ pc'[d] = pc[d]
                               /\ intent'[d] = intent[d] /\ outcome'[d] = outcome[d]
  PROVE  Inv'
<1>1. \A d \in Call : CallSound(d)'
  BY DEF Inv, CallSound
<1>. QED  BY <1>1 DEF Inv

LEMMA BeginInv ==
  ASSUME Inv, NEW c \in Call, NEW i \in Intent[c], Begin(c, i)
  PROVE  Inv'
<1>1. i \in IntentRecord /\ i.action \in {"place", "cancel", "status"}
  BY BinanceAssumption DEF IntentRecord
<1>2. /\ pc[c] = "idle" /\ book[c] = Null /\ wire[c] = Null /\ outcome[c] # "not_submitted"
      /\ UNCHANGED <<book, product, reply, age>> /\ intent' = [intent EXCEPT ![c] = i]
  BY DEF Begin, Inv, CallSound, Quiet, settings, exchange
<1>3. Domains /\ intent'[c] = i
  BY <1>2 DEF Inv, Domains
<1>4. CallSound(c)
  BY DEF Inv
<1>5. PICK next \in {"permissions", "margin", "quote", "cancel", "status"} :
        /\ next \in {"margin", "quote"} => i.action = "place"
        /\ \/ End(c, "not_submitted") /\ UNCHANGED wire
           \/ next = "cancel" /\ Send(c, "cancel") /\ UNCHANGED outcome
           \/ next # "cancel" /\ Goto(c, next) /\ UNCHANGED <<wire, outcome>>
  BY <1>1 DEF Begin
<1>6. Domains' /\ \A d \in Call \ {c} :
        /\ wire'[d] = wire[d] /\ reply'[d] = reply[d] /\ pc'[d] = pc[d]
        /\ intent'[d] = intent[d] /\ outcome'[d] = outcome[d]
  BY <1>2, <1>3, <1>5 DEF Domains, End, Send, Goto
<1>7. CallSound(c)'
  BY <1>1, <1>2, <1>3, <1>4, <1>5 DEF CallSound, Quiet, Ordering, Levering, Domains, End, Send, Goto
<1>. QED  BY <1>2, <1>6, <1>7, Frame

\* A call that has sent nothing goes on, ends, or sends.
LEMMA QuietInv ==
  ASSUME Inv, NEW c \in Call, VerifyApiKey(c) \/ VerifyMargin(c) \/ AskPrice(c) \/ ReceivePrice(c)
  PROVE  Inv'
<1>1. /\ Domains /\ CallSound(c) /\ pc[c] \in Quiet \ {"idle", "status"}
      /\ UNCHANGED <<book, product, reply, intent>> /\ DOMAIN age' = Call
  BY DEF Inv, Domains, VerifyApiKey, VerifyMargin, AskPrice, ReceivePrice, Quiet, settings, exchange, network
<1>2. /\ book[c] = Null /\ wire[c] = Null /\ outcome[c] # "not_submitted"
      /\ intent[c] \in IntentRecord /\ intent[c].action \in {"place", "cancel", "status"}
  BY <1>1 DEF CallSound, Quiet, IntentRecord
<1>3. \/ \E how \in {"not_submitted", "threw"} : End(c, how) /\ UNCHANGED wire
      \/ \E p \in {"status", "margin", "quote", "quoted", "marginAgain", "marginLast"} :
           /\ Goto(c, p) /\ UNCHANGED <<wire, outcome>>
           /\ p \in Ordering => intent[c].action = "place"
           /\ p \in Levering => product = "usdm_futures"
      \/ \E w \in {"cancel", "leverage", "order"} :
           /\ Send(c, w) /\ UNCHANGED outcome
           /\ w = "leverage" => product = "usdm_futures" /\ intent[c].action = "place"
  <2>1. CASE VerifyApiKey(c)
    BY <1>2, <2>1 DEF VerifyApiKey, Ordering, Levering
  <2>2. CASE VerifyMargin(c)
    BY <1>1, <1>2, <2>2 DEF VerifyMargin, CallSound, Ordering, Levering
  <2>3. CASE AskPrice(c)
    BY <1>1, <2>3 DEF AskPrice, CallSound, Ordering, Levering, network
  <2>4. CASE ReceivePrice(c)
    BY <1>1, <2>4 DEF ReceivePrice, CallSound, Ordering, Levering
  <2>. QED  BY <2>1, <2>2, <2>3, <2>4
<1>4. Domains' /\ \A d \in Call \ {c} :
        /\ wire'[d] = wire[d] /\ reply'[d] = reply[d] /\ pc'[d] = pc[d]
        /\ intent'[d] = intent[d] /\ outcome'[d] = outcome[d]
  BY <1>1, <1>3 DEF Domains, End, Send, Goto
<1>5. CallSound(c)'
  BY <1>1, <1>2, <1>3 DEF CallSound, Quiet, Ordering, Levering, Domains, End, Send, Goto
<1>. QED  BY <1>1, <1>4, <1>5, Frame

\* A call that has sent something never says that it has not.
LEMMA SentInv ==
  ASSUME Inv, NEW c \in Call, ReceiveReply(c) \/ LoseReply(c) \/ LookUp(c) \/ GetStatus(c)
  PROVE  Inv'
<1>1. /\ Domains /\ CallSound(c) /\ pc[c] \in {"leverage", "order", "cancel", "lookup", "status"}
      /\ UNCHANGED <<book, product, intent, age>>
  BY DEF Inv, Domains, ReceiveReply, LoseReply, LookUp, GetStatus, settings, exchange, network
<1>2. /\ DOMAIN reply' = Call
      /\ reply'[c] \in {reply[c], Null} /\ \A d \in Call \ {c} : reply'[d] = reply[d]
  BY <1>1 DEF Domains, ReceiveReply, LoseReply, LookUp, GetStatus, network
<1>3. \/ \E how \in {"threw", "canceled", "unavailable", "discrepancy", "matched", "status"} :
           End(c, how) /\ UNCHANGED wire
      \/ Goto(c, "lookup") /\ UNCHANGED <<wire, outcome>>
      \/ Send(c, "order") /\ UNCHANGED outcome
  BY DEF ReceiveReply, LoseReply, LookUp, GetStatus, network, reconcileAcceptedOrder
<1>4. Domains' /\ \A d \in Call \ {c} :
        /\ wire'[d] = wire[d] /\ reply'[d] = reply[d] /\ pc'[d] = pc[d]
        /\ intent'[d] = intent[d] /\ outcome'[d] = outcome[d]
  BY <1>1, <1>2, <1>3 DEF Domains, End, Send, Goto
<1>5. CallSound(c)'
  BY <1>1, <1>2, <1>3 DEF CallSound, Quiet, Ordering, Levering, Domains, End, Send, Goto
<1>. QED  BY <1>1, <1>4, <1>5, Frame

-----------------------------------------------------------------------------
LEMMA CarryOutInv ==
  ASSUME Inv, NEW c \in Call, CarryOut(c)
  PROVE  Inv'
<1>1. /\ Domains /\ wire[c] # Null /\ wire' = [wire EXCEPT ![c] = Null]
      /\ UNCHANGED <<product, pc, intent, outcome, age>>
  BY DEF CarryOut, Inv, settings, call
<1>2. pc[c] \notin Quiet /\ outcome[c] # "not_submitted"
  BY <1>1 DEF Inv, CallSound
<1>3. PICK k, o :
        /\ k \in {"error", "leverage", "order"} /\ Answer(c, k, o)
        /\ k = "leverage" => wire[c] = "leverage"
  BY DEF CarryOut
<1>4. /\ DOMAIN reply' = Call /\ \A d \in Call \ {c} : reply'[d] = reply[d]
      /\ reply'[c] # Null /\ reply'[c].kind = "leverage" => wire[c] = "leverage"
  <2>. DEFINE answer == IF pc[c] = wire[c] THEN [kind |-> k, order |-> o] ELSE Null
  <2>1. reply' = [reply EXCEPT ![c] = answer]
    BY <1>3 DEF Answer
  <2>2. answer # Null /\ answer.kind = "leverage" => k = "leverage"
    OBVIOUS
  <2>. HIDE DEF answer
  <2>. QED  BY <1>1, <1>3, <2>1, <2>2 DEF Domains
<1>5. /\ DOMAIN book' = Call
      /\ \A d \in Call \ {c} : book'[d] = book[d] \/ open(book[d])
  <2>1. CASE UNCHANGED book
    BY <1>1, <2>1 DEF Domains
  <2>2. CASE \E o2 \in NewOrders(intent[c]) : book' = [book EXCEPT ![c] = o2]
    BY <1>1, <2>2 DEF Domains
  <2>3. CASE /\ open(book[intent[c].target])
             /\ \E s \in {"CANCELED", "PENDING_CANCEL"} :
                  book' = [book EXCEPT ![intent[c].target].status = s]
    BY <1>1, <2>3 DEF Domains
  <2>. QED  BY <2>1, <2>2, <2>3 DEF CarryOut
<1>6. \A d \in Call : book[d] = Null /\ d # c => book'[d] = Null
  BY <1>5 DEF open
<1>7. \A d \in Call \ {c} : wire'[d] = wire[d]
  BY <1>1 DEF Domains
<1>8. \A d \in Call : CallSound(d)'
  <2>1. CallSound(c)'
    <3>1. Null # "leverage"
      BY BinanceAssumption
    <3>2. CallSound(c) /\ wire'[c] = Null
      BY <1>1 DEF Inv, Domains
    <3>. QED  BY <1>1, <1>2, <1>4, <3>1, <3>2 DEF CallSound, Quiet
  <2>2. ASSUME NEW d \in Call \ {c} PROVE CallSound(d)'
    BY <1>1, <1>4, <1>6, <1>7 DEF CallSound, Inv
  <2>. QED  BY <2>1, <2>2
<1>9. Domains'
  BY <1>1, <1>4, <1>5 DEF Domains
<1>. QED  BY <1>8, <1>9 DEF Inv

LEMMA OrderAdvancesInv ==
  ASSUME Inv, NEW c \in Call, OrderAdvances(c)
  PROVE  Inv'
<1>1. /\ open(book[c]) /\ DOMAIN book' = Call /\ \A d \in Call \ {c} : book'[d] = book[d]
      /\ UNCHANGED <<product, wire, reply, pc, intent, outcome, age>>
  BY DEF OrderAdvances, Inv, Domains, settings, network, call
<1>2. Domains'
  BY <1>1 DEF Inv, Domains
<1>3. \A d \in Call : CallSound(d)'
  BY <1>1 DEF Inv, CallSound, open
<1>. QED  BY <1>2, <1>3 DEF Inv

LEMMA NextInv == Inv /\ [NextConnectors]_connectorVars => Inv'
<1>. SUFFICES ASSUME Inv, [NextConnectors]_connectorVars PROVE Inv'
  OBVIOUS
<1>1. ASSUME NEW c \in Call, Step(c) PROVE Inv'
  BY <1>1, BeginInv, QuietInv, SentInv DEF Step
<1>2. ASSUME NEW c \in Call, CarryOut(c) \/ OrderAdvances(c) PROVE Inv'
  BY <1>2, CarryOutInv, OrderAdvancesInv
<1>3. ASSUME UNCHANGED <<book, product, wire, reply, pc, intent, outcome>>, DOMAIN age' = Call
      PROVE  Inv'
  BY <1>3 DEF Inv, Domains, CallSound
<1>4. CASE Tick
  BY <1>3, <1>4 DEF Tick, settings, exchange, network
<1>5. CASE Switch /\ UNCHANGED <<settings, exchange, network, call>>
  BY <1>3, <1>5 DEF settings, exchange, network, call, Inv, Domains
<1>6. CASE UNCHANGED binanceState
  BY <1>3, <1>6 DEF binanceState, settings, exchange, network, call, Inv, Domains
<1>. QED
  BY <1>1, <1>2, <1>4, <1>5, <1>6 DEF NextConnectors, ByBinance, OnChain, Next, connectorVars

LEMMA InvAlways == SpecConnectors => []Inv
BY InitInv, NextInv, PTL DEF SpecConnectors

-----------------------------------------------------------------------------
(***************************************************************************)
(* The types of the calls, of their orders and of what is on its way.      *)
(***************************************************************************)
LEMMA IntentsAreRecords == UNION {Intent[c] : c \in Call} \subseteq IntentRecord
BY BinanceAssumption

LEMMA FilledIsOrder ==
  ASSUME NEW i \in IntentRecord, NEW o \in Order, NEW n \in Nat, NEW p \in fillPrices(i)
  PROVE  filledBy(o, i, n, p) \in Order
<1>. DEFINE s == IF o.filled + n = i.quantity THEN "FILLED"
                 ELSE IF o.status = "PENDING_CANCEL" THEN "PENDING_CANCEL" ELSE "PARTIALLY_FILLED"
<1>1. p \in Nat /\ o.filled \in Nat /\ o.quote \in Nat
  BY BinanceAssumption DEF fillPrices, Order
<1>2. o.filled + n \in Nat /\ o.quote + n * p \in Nat
  BY <1>1
<1>3. filledBy(o, i, n, p) = [o EXCEPT !.filled = o.filled + n, !.quote = o.quote + n * p, !.status = s]
  BY DEF filledBy, Order
<1>4. s \in OrderStatus
  BY DEF OrderStatus
<1>. HIDE DEF s
<1>. QED  BY <1>2, <1>3, <1>4 DEF Order

LEMMA NewOrdersAreOrders ==
  ASSUME NEW i \in IntentRecord, leverage \in Nat
  PROVE  NewOrders(i) \subseteq Order
<1>. DEFINE fresh == [status |-> "NEW", filled |-> 0, quote |-> 0, leverage |-> leverage]
<1>1. fresh \in Order /\ \A s \in {"NEW", "PENDING_NEW", "REJECTED"} : [fresh EXCEPT !.status = s] \in Order
  BY DEF Order, OrderStatus
<1>2. ASSUME NEW n \in 1..i.quantity, NEW p \in fillPrices(i) PROVE filledBy(fresh, i, n, p) \in Order
  <2>1. n \in Nat
    BY DEF IntentRecord
  <2>. QED  BY <1>1, <2>1, FilledIsOrder
<1>. QED  BY <1>1, <1>2 DEF NewOrders

LEMMA TypeInit == InitConnectors => TypeOK
<1>. SUFFICES ASSUME InitConnectors PROVE TypeOK
  OBVIOUS
<1>. USE DEF InitConnectors, Init
<1>1. /\ product \in {"spot", "usdm_futures"} /\ permitted \in Permissions
      /\ margin \in {"isolated", "cross"} /\ halted \in BOOLEAN /\ leverage \in Nat
  BY BinanceAssumption DEF InitHalted
<1>2. /\ book \in [Call -> Order \cup {Null}] /\ reply \in [Call -> Reply \cup {Null}]
      /\ wire \in [Call -> {"leverage", "order", "cancel", Null}]
      /\ acked \in [Call -> Order \cup {Null}] /\ outcome \in [Call -> Outcome \cup {Null}]
  OBVIOUS
<1>3. /\ pc \in [Call -> Place] /\ age \in [Call -> 0..(MaxAge + 1)]
      /\ intent \in [Call -> {Null} \cup UNION {Intent[c] : c \in Call}]
  BY BinanceAssumption DEF Place
<1>. QED  BY <1>1, <1>2, <1>3 DEF TypeOK

\* The steps of a call.
LEMMA StepType ==
  ASSUME TypeOK, Inv, NEW c \in Call, Step(c)
  PROVE  TypeOK'
<1>. DEFINE Same == UNCHANGED <<product, permitted, margin, halted, leverage, book>>
<1>1. Same
  BY DEF Step, Begin, VerifyApiKey, VerifyMargin, AskPrice, ReceivePrice, ReceiveReply, LoseReply,
    LookUp, GetStatus, settings, exchange
<1>2. /\ intent' \in [Call -> {Null} \cup UNION {Intent[d] : d \in Call}]
      /\ age' \in [Call -> 0..(MaxAge + 1)]
  BY BinanceAssumption DEF TypeOK, Step, Begin, VerifyApiKey, VerifyMargin, AskPrice, ReceivePrice,
    ReceiveReply, LoseReply, LookUp, GetStatus
<1>3. reply' \in [Call -> Reply \cup {Null}]
  BY DEF TypeOK, Step, Begin, VerifyApiKey, VerifyMargin, AskPrice, ReceivePrice, ReceiveReply,
    LoseReply, LookUp, GetStatus, network
<1>4. acked' \in [Call -> Order \cup {Null}]
  <2>1. CASE UNCHANGED acked
    BY <2>1 DEF TypeOK
  <2>2. CASE ReceiveReply(c)
    <3>1. reply[c] \in Reply
      BY <2>2 DEF ReceiveReply, TypeOK
    <3>2. reply[c].order \in Order \cup {Null}
      BY <3>1 DEF Reply
    <3>. QED  BY <2>2, <3>2 DEF ReceiveReply, TypeOK
  <2>3. CASE LookUp(c)
    BY <2>3 DEF LookUp, TypeOK
  <2>. QED
    BY <2>1, <2>2, <2>3 DEF Step, Begin, VerifyApiKey, VerifyMargin, AskPrice, ReceivePrice, LoseReply, GetStatus
<1>5. /\ \/ UNCHANGED wire
         \/ \E w \in {"leverage", "order", "cancel"} : wire' = [wire EXCEPT ![c] = w]
      /\ \E p \in Place : pc' = [pc EXCEPT ![c] = p]
      /\ UNCHANGED outcome \/ \E o \in Outcome : outcome' = [outcome EXCEPT ![c] = o]
  <2>. USE DEF End, Goto, Send, Place, Outcome
  <2>1. ASSUME NEW i \in Intent[c], Begin(c, i) PROVE <1>5
    <3>1. i.action \in {"place", "cancel", "status"}
      BY BinanceAssumption DEF IntentRecord
    <3>. QED  BY <2>1, <3>1 DEF Begin
  <2>2. CASE VerifyApiKey(c)
    BY <2>2 DEF VerifyApiKey
  <2>3. CASE VerifyMargin(c)
    BY <2>3 DEF VerifyMargin
  <2>4. CASE AskPrice(c) \/ LoseReply(c) \/ GetStatus(c)
    BY <2>4 DEF AskPrice, LoseReply, GetStatus, network
  <2>5. CASE ReceivePrice(c)
    BY <2>5 DEF ReceivePrice
  <2>6. CASE ReceiveReply(c)
    BY <2>6 DEF ReceiveReply
  <2>7. CASE LookUp(c)
    BY <2>7 DEF LookUp, network, reconcileAcceptedOrder
  <2>. QED  BY <2>1, <2>2, <2>3, <2>4, <2>5, <2>6, <2>7 DEF Step
<1>6. /\ wire' \in [Call -> {"leverage", "order", "cancel", Null}]
      /\ pc' \in [Call -> Place] /\ outcome' \in [Call -> Outcome \cup {Null}]
  BY <1>5 DEF TypeOK
<1>. QED  BY <1>1, <1>2, <1>3, <1>4, <1>6 DEF TypeOK

\* A request reaches Binance.
LEMMA CarryOutType ==
  ASSUME TypeOK, Inv, NEW c \in Call, CarryOut(c)
  PROVE  TypeOK'
<1>1. /\ wire[c] # Null /\ wire' = [wire EXCEPT ![c] = Null]
      /\ UNCHANGED <<product, permitted, margin, halted, pc, intent, age, acked, outcome>>
  BY DEF CarryOut, settings, call
<1>2. intent[c] \in IntentRecord
  BY <1>1 DEF Inv, CallSound, Quiet
<1>3. /\ leverage' \in Nat /\ book' \in [Call -> Order \cup {Null}]
      /\ \E k \in {"error", "leverage", "order"}, o \in Order \cup {Null} : Answer(c, k, o)
  <2>1. CASE Answer(c, "error", Null) /\ UNCHANGED <<leverage, book>>
    BY <2>1 DEF TypeOK
  <2>2. CASE leverage' = intent[c].leverage /\ Answer(c, "leverage", Null) /\ UNCHANGED book
    BY <1>2, <2>2 DEF TypeOK, IntentRecord
  <2>3. CASE /\ \E o \in NewOrders(intent[c]) : book' = [book EXCEPT ![c] = o] /\ Answer(c, "order", o)
             /\ UNCHANGED leverage
    BY <1>2, <2>3, NewOrdersAreOrders DEF TypeOK
  <2>4. CASE /\ open(book[intent[c].target])
             /\ \E s \in {"CANCELED", "PENDING_CANCEL"} :
                  /\ book' = [book EXCEPT ![intent[c].target].status = s]
                  /\ Answer(c, "order", book'[intent[c].target])
             /\ UNCHANGED leverage
    <3>. DEFINE t == intent[c].target
    <3>1. t \in Call /\ book[t] \in Order
      BY <1>2, <2>4 DEF IntentRecord, TypeOK, open
    <3>2. PICK s \in {"CANCELED", "PENDING_CANCEL"} :
            book' = [book EXCEPT ![t].status = s] /\ Answer(c, "order", book'[t])
      BY <2>4
    <3>3. [book[t] EXCEPT !.status = s] \in Order
      BY <3>1 DEF Order, OrderStatus
    <3>4. book' = [book EXCEPT ![t] = [book[t] EXCEPT !.status = s]]
      BY <3>2
    <3>. HIDE DEF t
    <3>. QED  BY <2>4, <3>1, <3>2, <3>3, <3>4 DEF TypeOK
  <2>. QED  BY <2>1, <2>2, <2>3, <2>4 DEF CarryOut
<1>4. reply' \in [Call -> Reply \cup {Null}]
  <2>1. PICK k \in {"error", "leverage", "order"}, o \in Order \cup {Null} : Answer(c, k, o)
    BY <1>3
  <2>2. [kind |-> k, order |-> o] \in Reply
    BY <2>1 DEF Reply
  <2>. QED  BY <2>1, <2>2 DEF Answer, TypeOK
<1>5. wire' \in [Call -> {"leverage", "order", "cancel", Null}]
  BY <1>1 DEF TypeOK
<1>. QED  BY <1>1, <1>3, <1>4, <1>5 DEF TypeOK

\* An order that Binance has moves on.
LEMMA OrderAdvancesType ==
  ASSUME TypeOK, Inv, NEW c \in Call, OrderAdvances(c)
  PROVE  TypeOK'
<1>1. /\ book[c] \in Order /\ intent[c] \in IntentRecord
      /\ UNCHANGED <<product, permitted, margin, halted, leverage, wire, reply, pc, intent, age,
                     acked, outcome>>
  BY DEF OrderAdvances, open, TypeOK, Inv, CallSound, Quiet, settings, network, call
<1>2. furtherStatuses(book[c]) \subseteq Order
  BY <1>1 DEF furtherStatuses, Order, OrderStatus
<1>3. furtherFills(book[c], intent[c]) \subseteq Order
  <2>1. \A n \in 1..(intent[c].quantity - book[c].filled) : n \in Nat
    BY <1>1 DEF Order, IntentRecord
  <2>. QED  BY <1>1, <2>1, FilledIsOrder DEF furtherFills
<1>. QED  BY <1>1, <1>2, <1>3 DEF OrderAdvances, TypeOK

LEMMA TypeNext == TypeOK /\ Inv /\ [NextConnectors]_connectorVars => TypeOK'
<1>. SUFFICES ASSUME TypeOK, Inv, [NextConnectors]_connectorVars PROVE TypeOK'
  OBVIOUS
<1>1. CASE Tick
  <2>1. age' \in [Call -> 0..(MaxAge + 1)]
    BY <1>1, BinanceAssumption DEF Tick, TypeOK
  <2>. QED  BY <1>1, <2>1 DEF Tick, TypeOK, settings, exchange, network
<1>2. CASE Switch /\ UNCHANGED <<settings, exchange, network, call>>
  BY <1>2 DEF Switch, TypeOK, settings, exchange, network, call
<1>3. CASE ByBinance
  BY <1>1, <1>2, <1>3, StepType, CarryOutType, OrderAdvancesType DEF ByBinance, Next
<1>4. CASE OnChain
  <2>1. halted' \in BOOLEAN
    BY <1>4 DEF OnChain, NextOnchain, ConnectorStep, Execute, ProviderStep, Decide, SignerAnswers,
      Surroundings, Switch, TypeOK
  <2>. QED  BY <1>4, <2>1 DEF OnChain, binanceState, settings, exchange, network, call, TypeOK
<1>5. CASE UNCHANGED connectorVars
  BY <1>5 DEF connectorVars, binanceState, settings, exchange, network, call, TypeOK
<1>. QED  BY <1>3, <1>4, <1>5 DEF NextConnectors

\* Every order at Binance is one rest-client.ts can parse (orderResult), and
\* every call is at one of its awaits.
THEOREM ConnectorTypeCorrect == SpecConnectors => []TypeOK
BY TypeInit, TypeNext, InvAlways, PTL DEF SpecConnectors

-----------------------------------------------------------------------------
\* A ConnectorRevalidationError (connector.ts:227-264) tells the broker the
\* truth: the call has no order at Binance and nothing on its way there.
THEOREM NothingSentIsTrue == SpecConnectors => []NotSubmittedMeansNothingSent
<1>1. Inv => NotSubmittedMeansNothingSent
  BY DEF Inv, CallSound, NotSubmittedMeansNothingSent
<1>. QED  BY <1>1, InvAlways, PTL

\* When a spot order or a signature leaves, nothing halts it and its quote is
\* fresh, whatever the call awaited before (connector.ts:153-294; execute of
\* the chain connectors).
THEOREM ActsFresh == SpecConnectors => ActsOnFreshFacts
<1>1. ASSUME Inv, [NextConnectors]_connectorVars
      PROVE  [/\ \A c \in Call : OrderLeaves(c) /\ product = "spot" => ~halted /\ age[c] <= MaxAge
              /\ ~sent /\ sent' => ~halted]_connectorVars
  <2>1. CASE OnChain
    <3>1. UNCHANGED wire
      BY <2>1 DEF OnChain, binanceState, network
    <3>2. ~sent /\ sent' => ~halted
      BY <2>1 DEF OnChain, NextOnchain, ConnectorStep, Execute, ProviderStep, Decide, SignerAnswers,
        Surroundings, mayExecute
    <3>. QED  BY <3>1, <3>2 DEF OrderLeaves
  <2>2. CASE ByBinance
    <3>1. UNCHANGED sent
      BY <2>2 DEF ByBinance, onchainState, executeVars
    <3>2. ASSUME NEW c \in Call, OrderLeaves(c), product = "spot"
          PROVE  ~halted /\ age[c] <= MaxAge
      <4>1. Domains /\ CallSound(c) /\ Null # "order"
        BY <1>1, BinanceAssumption DEF Inv
      <4>2. wire[c] # "order" /\ wire'[c] = "order"
        BY <3>2 DEF OrderLeaves
      <4>3. ASSUME NEW d \in Call, CarryOut(d) PROVE FALSE
        BY <4>1, <4>2, <4>3 DEF CarryOut, Domains
      <4>4. ASSUME NEW d \in Call, Send(d, "cancel") \/ Send(d, "leverage") PROVE FALSE
        BY <4>1, <4>2, <4>4 DEF Send, Domains
      <4>5. ASSUME NEW d \in Call, Send(d, "order") PROVE d = c
        BY <4>1, <4>2, <4>5 DEF Send, Domains
      <4>6. PICK d \in Call : ReceivePrice(d) \/ ReceiveReply(d)
        <5>1. ~UNCHANGED wire
          BY <4>2
        <5>2. ~Tick /\ ~\E d \in Call : OrderAdvances(d) \/ AskPrice(d) \/ LoseReply(d) \/ LookUp(d)
                                          \/ GetStatus(d)
          BY <5>1 DEF Tick, OrderAdvances, AskPrice, LoseReply, LookUp, GetStatus, network
        <5>3. ~\E d \in Call : VerifyApiKey(d) \/ VerifyMargin(d) \/ \E i \in Intent[d] : Begin(d, i)
          BY <5>1, <4>4 DEF VerifyApiKey, VerifyMargin, Begin
        <5>. QED
          BY <2>2, <4>3, <5>1, <5>2, <5>3 DEF ByBinance, Next, Step, network
      <4>7. CASE ReceivePrice(d)
        <5>1. Send(d, "order") /\ mayAct(intent[d]) /\ product # "usdm_futures"
              /\ \E ageMs \in 0..age[d] : (product = "spot" => ageMs = age[d]) /\ ~(ageMs > MaxAge)
          BY <4>2, <4>7 DEF ReceivePrice
        <5>2. d = c /\ pc[c] = "quoted"
          BY <4>5, <4>7, <5>1 DEF ReceivePrice
        <5>3. intent[c].action = "place"
          BY <4>1, <5>2 DEF CallSound, Ordering
        <5>4. age[c] <= MaxAge
          BY <3>2, <5>1, <5>2, BinanceAssumption
        <5>. QED  BY <5>1, <5>2, <5>3, <5>4 DEF mayAct
      <4>8. CASE ReceiveReply(d)
        <5>1. Send(d, "order") /\ reply[d] # Null /\ reply[d].kind = "leverage"
          BY <4>2, <4>8 DEF ReceiveReply
        <5>2. d = c
          BY <4>5, <5>1
        <5>. QED  BY <3>2, <4>1, <5>1, <5>2 DEF CallSound
      <4>. QED  BY <4>6, <4>7, <4>8
    <3>. QED  BY <3>1, <3>2
  <2>. QED  BY <1>1, <2>1, <2>2 DEF NextConnectors
<1>. QED  BY <1>1, InvAlways, PTL DEF SpecConnectors, ActsOnFreshFacts

-----------------------------------------------------------------------------
(***************************************************************************)
(* What a status query can show of an order that was acknowledged.         *)
(***************************************************************************)
\* What every order of Binance is, whatever has happened to it.
Honest(o, i) ==
  /\ o \in Order
  /\ o.filled <= i.quantity
  /\ o.filled = 0 => o.quote = 0
  /\ o.filled > 0 => o.quote > 0
  /\ o.status = "FILLED" => o.filled = i.quantity
  /\ o.status = "PARTIALLY_FILLED" => 0 < o.filled /\ o.filled < i.quantity
  /\ o.status \in {"NEW", "PENDING_NEW", "REJECTED"} => o.filled = 0
  /\ i.side = "BUY" => o.quote <= i.price * o.filled
  /\ i.side = "SELL" => i.price * o.filled <= o.quote

\* How an order may have changed since it was a.
Follows(a, o) ==
  /\ o.status \in LegalTransitions[a.status]
  /\ a.filled <= o.filled
  /\ a.filled = o.filled => a.quote = o.quote

\* The order of c, and what c was told of it.
OrderSound(c) ==
  /\ book[c] # Null => Honest(book[c], intent[c])
  /\ acked[c] # Null => /\ pc[c] = "lookup" /\ book[c] # Null
                        /\ Honest(acked[c], intent[c]) /\ Follows(acked[c], book[c])
  /\ pc[c] = "order" /\ reply[c] # Null /\ reply[c].kind = "order" =>
       /\ book[c] # Null
       /\ Honest(reply[c].order, intent[c]) /\ Follows(reply[c].order, book[c])
  /\ pc[c] = "lookup" => acked[c] # Null

\* A call waits for one thing at a time: an answer on its way back, or a
\* request on its way to Binance.
OneInFlight(c) ==
  /\ pc[c] \in Quiet \cup {"lookup"} => reply[c] = Null
  /\ pc[c] = "lookup" => wire[c] = Null
  /\ reply[c] # Null => wire[c] = Null

AlarmInv == \A c \in Call : OrderSound(c) /\ OneInFlight(c)

LEMMA TransitionsCompose ==
  \A r, s, t \in OrderStatus :
    s \in LegalTransitions[r] /\ t \in LegalTransitions[s] => t \in LegalTransitions[r]
BY DEF LegalTransitions, OrderStatus

LEMMA TransitionsReflexive == \A s \in OrderStatus : s \in LegalTransitions[s]
BY DEF LegalTransitions, OrderStatus

LEMMA FollowsCompose ==
  ASSUME NEW a \in Order, NEW b \in Order, NEW o \in Order, Follows(a, b), Follows(b, o)
  PROVE  Follows(a, o)
BY TransitionsCompose DEF Follows, Order

LEMMA ProductMonotonic ==
  ASSUME NEW n \in Nat, NEW p \in Nat, NEW q \in Nat, p <= q
  PROVE  n * p <= n * q
OBVIOUS

LEMMA ProductDistributes ==
  ASSUME NEW l \in Nat, NEW m \in Nat, NEW n \in Nat
  PROVE  l * (m + n) = l * m + l * n /\ l * n = n * l /\ l * n \in Nat
OBVIOUS

\* A fill keeps an order honest, at any price its limit admits.
LEMMA FillIsHonest ==
  ASSUME NEW i \in IntentRecord, NEW o \in Order, Honest(o, i), o.status \notin Ended,
         NEW n \in 1..(i.quantity - o.filled), NEW p \in fillPrices(i)
  PROVE  Honest(filledBy(o, i, n, p), i) /\ Follows(o, filledBy(o, i, n, p))
<1>. DEFINE f == filledBy(o, i, n, p)
            s == IF o.filled + n = i.quantity THEN "FILLED"
                 ELSE IF o.status = "PENDING_CANCEL" THEN "PENDING_CANCEL" ELSE "PARTIALLY_FILLED"
<1>1. /\ o.filled \in Nat /\ o.quote \in Nat /\ o.leverage \in Nat /\ o.status \in OrderStatus
      /\ n \in Nat /\ n > 0 /\ p \in Nat /\ p > 0
      /\ i.quantity \in Nat /\ i.price \in Nat /\ i.side \in {"BUY", "SELL"}
      /\ o.filled + n <= i.quantity
  <2>1. o.filled \in Nat /\ o.quote \in Nat /\ o.leverage \in Nat /\ o.status \in OrderStatus
    BY DEF Order
  <2>2. i.quantity \in Nat /\ i.price \in Nat /\ i.side \in {"BUY", "SELL"}
    BY DEF IntentRecord
  <2>3. p \in Nat /\ p > 0
    <3>1. p \in Prices
      BY DEF fillPrices
    <3>. QED  BY <3>1, BinanceAssumption
  <2>. QED  BY <2>1, <2>2, <2>3
<1>2. n * p \in Nat /\ n * p > 0
  BY <1>1
<1>3. f = [status |-> s, filled |-> o.filled + n, quote |-> o.quote + n * p, leverage |-> o.leverage]
  <2>1. o = [status |-> o.status, filled |-> o.filled, quote |-> o.quote, leverage |-> o.leverage]
    BY DEF Order
  <2>2. f = [o EXCEPT !.filled = o.filled + n, !.quote = o.quote + n * p, !.status = s]
    BY <2>1 DEF filledBy
  <2>. QED  BY <2>1, <2>2
<1>4. s \in OrderStatus /\ s \in LegalTransitions[o.status]
  BY <1>1 DEF OrderStatus, LegalTransitions, Ended
<1>5. ASSUME i.side = "BUY" PROVE o.quote + n * p <= i.price * (o.filled + n)
  <2>1. n * p <= n * i.price
    BY <1>1, <1>5, ProductMonotonic DEF fillPrices
  <2>2. i.price * (o.filled + n) = i.price * o.filled + n * i.price
    BY <1>1, ProductDistributes
  <2>3. o.quote <= i.price * o.filled
    BY <1>5 DEF Honest
  <2>. QED  BY <1>1, <1>2, <2>1, <2>2, <2>3
<1>6. ASSUME i.side = "SELL" PROVE i.price * (o.filled + n) <= o.quote + n * p
  <2>1. n * i.price <= n * p
    BY <1>1, <1>6, ProductMonotonic, BinanceAssumption DEF fillPrices
  <2>2. i.price * (o.filled + n) = i.price * o.filled + n * i.price
    BY <1>1, ProductDistributes
  <2>3. i.price * o.filled <= o.quote
    BY <1>6 DEF Honest
  <2>. QED  BY <1>1, <1>2, <2>1, <2>2, <2>3
<1>7. f \in Order
  BY <1>1, <1>2, <1>3, <1>4 DEF Order
<1>. HIDE DEF f
<1>8. Follows(o, f)
  BY <1>1, <1>3, <1>4 DEF Follows
<1>9. /\ f.filled <= i.quantity /\ f.filled > 0 /\ f.quote > 0
      /\ f.status = "FILLED" => f.filled = i.quantity
      /\ f.status = "PARTIALLY_FILLED" => f.filled < i.quantity
      /\ f.status \notin {"NEW", "PENDING_NEW", "REJECTED"}
  BY <1>1, <1>2, <1>3
<1>10. Honest(f, i)
  BY <1>3, <1>5, <1>6, <1>7, <1>9 DEF Honest
<1>. QED  BY <1>8, <1>10 DEF f

\* So does an end, an acceptance or a cancellation.
LEMMA StatusIsHonest ==
  ASSUME NEW i, NEW o \in Order, Honest(o, i), NEW s \in LegalTransitions[o.status],
         s \in {"CANCELED", "PENDING_CANCEL", "EXPIRED", "EXPIRED_IN_MATCH"}
         \/ (o.filled = 0 /\ s \in {"NEW", "REJECTED"}),
         o.status \notin Ended
  PROVE  Honest([o EXCEPT !.status = s], i) /\ Follows(o, [o EXCEPT !.status = s])
<1>. DEFINE e == [o EXCEPT !.status = s]
<1>1. /\ e \in Order /\ e.status = s /\ e.filled = o.filled /\ e.quote = o.quote
      /\ o.filled \in Nat
  BY DEF Order, OrderStatus
<1>. HIDE DEF e
<1>2. Honest(e, i)
  BY <1>1 DEF Honest
<1>3. Follows(o, e)
  BY <1>1 DEF Follows
<1>. QED  BY <1>2, <1>3 DEF e

LEMMA NewOrdersAreHonest ==
  ASSUME NEW i \in IntentRecord, leverage \in Nat, NEW o \in NewOrders(i)
  PROVE  Honest(o, i)
<1>. DEFINE fresh == [status |-> "NEW", filled |-> 0, quote |-> 0, leverage |-> leverage]
<1>1. fresh \in Order /\ i.price \in Nat /\ i.quantity \in Nat /\ i.quantity > 0 /\ i.price * 0 = 0
  BY DEF Order, OrderStatus, IntentRecord
<1>2. \A s \in {"NEW", "PENDING_NEW", "REJECTED"} : Honest([fresh EXCEPT !.status = s], i)
  BY <1>1 DEF Honest, Order, OrderStatus
<1>3. Honest(fresh, i) /\ fresh.status \notin Ended /\ 1..i.quantity = 1..(i.quantity - fresh.filled)
  BY <1>1 DEF Honest, Ended
<1>4. \A n \in 1..i.quantity, p \in fillPrices(i) : Honest(filledBy(fresh, i, n, p), i)
  BY <1>1, <1>3, FillIsHonest
<1>. QED  BY <1>2, <1>4 DEF NewOrders

\* Two honest states of an order, of which one follows the other, agree unless
\* the price of the later one is rounded beyond its limit.
LEMMA NothingToReport ==
  ASSUME NEW i \in IntentRecord, NEW a, NEW o, Honest(a, i), Honest(o, i), Follows(a, o)
  PROVE  \/ reconcileAcceptedOrder(a, o, i.side, i.quantity, i.price) = "matched"
         \/ Misrounded(o, i)
<1>1. /\ a \in Order /\ o \in Order /\ i.quantity \in Nat /\ i.price \in Nat /\ i.side \in {"BUY", "SELL"}
      /\ a.filled \in Nat /\ o.filled \in Nat /\ a.quote \in Nat /\ o.quote \in Nat
  BY DEF Honest, Order, IntentRecord
<1>2. i.price * o.filled \in Nat
  BY <1>1
<1>3. isLegalTransition(a.status, o.status) /\ ~(o.filled < a.filled)
      /\ ~(o.filled = a.filled /\ o.quote # a.quote)
  BY <1>1 DEF Follows, isLegalTransition
<1>4. ~inconsistentFill(a, i.quantity) /\ ~inconsistentFill(o, i.quantity)
  BY <1>1 DEF Honest, inconsistentFill
<1>5. ~(a.filled > i.quantity) /\ ~(o.filled > i.quantity)
  BY <1>1 DEF Honest
<1>6. CASE ~worseThanLimit(o, i.side, i.price)
  BY <1>3, <1>4, <1>5, <1>6 DEF reconcileAcceptedOrder, collectDiscrepancies
<1>7. CASE worseThanLimit(o, i.side, i.price)
  BY <1>1, <1>2, <1>7 DEF Honest, worseThanLimit, above, below, Misrounded
<1>. QED  BY <1>6, <1>7

LEMMA AlarmInit == InitConnectors => AlarmInv
BY BinanceAssumption DEF InitConnectors, Init, AlarmInv, OrderSound, OneInFlight, Outcome

\* The other calls, when one call moves on.
LEMMA AlarmFrame ==
  ASSUME TypeOK, TypeOK', AlarmInv, NEW c \in Call, UNCHANGED book,
         OrderSound(c)', OneInFlight(c)',
         \A d \in Call \ {c} : /\ wire'[d] = wire[d] /\ reply'[d] = reply[d] /\ pc'[d] = pc[d]
                               /\ intent'[d] = intent[d] /\ outcome'[d] = outcome[d]
                               /\ acked'[d] = acked[d]
  PROVE  AlarmInv'
<1>1. \A d \in Call \ {c} : OrderSound(d)'
  BY DEF AlarmInv, OrderSound
<1>2. \A d \in Call \ {c} : OneInFlight(d)'
  BY DEF AlarmInv, OneInFlight
<1>. QED  BY <1>1, <1>2 DEF AlarmInv

\* A call that has sent nothing has no order and waits for no answer.
LEMMA QuietAlarm ==
  ASSUME TypeOK, TypeOK', Inv, AlarmInv, NEW c \in Call, pc[c] \in Quiet,
         (\E i \in Intent[c] : Begin(c, i)) \/ VerifyApiKey(c) \/ VerifyMargin(c) \/ AskPrice(c)
           \/ ReceivePrice(c) \/ GetStatus(c)
  PROVE  AlarmInv'
<1>1. /\ Domains /\ CallSound(c) /\ OrderSound(c) /\ OneInFlight(c)
      /\ UNCHANGED <<book, reply, acked>>
  BY DEF Inv, AlarmInv, Begin, VerifyApiKey, VerifyMargin, AskPrice, ReceivePrice, GetStatus, exchange, network
<1>2. book[c] = Null /\ reply[c] = Null /\ acked[c] = Null
  BY <1>1 DEF CallSound, OrderSound, OneInFlight, Quiet
<1>3. /\ pc'[c] # "lookup"
      /\ \A d \in Call \ {c} : /\ wire'[d] = wire[d] /\ pc'[d] = pc[d]
                               /\ intent'[d] = intent[d] /\ outcome'[d] = outcome[d]
  <2>. USE <1>1 DEF Domains, Goto, End, Send, OrderSound
  <2>1. ASSUME NEW i \in Intent[c], Begin(c, i) PROVE <1>3
    <3>1. i.action \in {"place", "cancel", "status"}
      BY BinanceAssumption DEF IntentRecord
    <3>. QED  BY <2>1, <3>1 DEF Begin
  <2>2. CASE VerifyApiKey(c)
    BY <2>2 DEF VerifyApiKey
  <2>3. CASE VerifyMargin(c)
    BY <2>3 DEF VerifyMargin
  <2>4. CASE AskPrice(c)
    BY <2>4 DEF AskPrice, network
  <2>5. CASE ReceivePrice(c)
    BY <2>5 DEF ReceivePrice
  <2>6. CASE GetStatus(c)
    BY <2>6 DEF GetStatus, network
  <2>. QED  BY <2>1, <2>2, <2>3, <2>4, <2>5, <2>6
<1>4. OrderSound(c)' /\ OneInFlight(c)'
  BY <1>1, <1>2, <1>3 DEF OrderSound, OneInFlight
<1>. QED  BY <1>1, <1>3, <1>4, AlarmFrame

\* A call that has sent something learns of its order, or looks it up.
LEMMA SentAlarm ==
  ASSUME TypeOK, TypeOK', Inv, AlarmInv, NEW c \in Call, ReceiveReply(c) \/ LoseReply(c) \/ LookUp(c)
  PROVE  AlarmInv'
<1>1. /\ Domains /\ CallSound(c) /\ OrderSound(c) /\ OneInFlight(c) /\ DOMAIN acked = Call
      /\ UNCHANGED <<book, intent>>
  BY DEF Inv, AlarmInv, TypeOK, ReceiveReply, LoseReply, LookUp, exchange
<1>2. \A d \in Call \ {c} :
        /\ wire'[d] = wire[d] /\ reply'[d] = reply[d] /\ pc'[d] = pc[d]
        /\ intent'[d] = intent[d] /\ outcome'[d] = outcome[d] /\ acked'[d] = acked[d]
  BY <1>1 DEF Domains, ReceiveReply, LoseReply, LookUp, network, End, Send, Goto
<1>3. OrderSound(c)' /\ OneInFlight(c)'
  <2>1. CASE ReceiveReply(c)
    <3>1. /\ reply'[c] = Null /\ reply[c] # Null /\ wire[c] = Null
          /\ pc[c] \in {"leverage", "order", "cancel"} /\ acked[c] = Null
          /\ reply[c].kind \in {"error", "leverage", "order"}
      BY <1>1, <2>1 DEF ReceiveReply, Domains, OneInFlight, OrderSound, TypeOK, Reply
    <3>2. CASE \/ \E how \in {"threw", "canceled"} : End(c, how) /\ UNCHANGED <<wire, acked>>
               \/ Send(c, "order") /\ UNCHANGED <<acked, outcome>>
      BY <1>1, <3>1, <3>2 DEF Domains, End, Send, Goto, OrderSound, OneInFlight, Quiet
    <3>3. CASE /\ pc[c] = "order" /\ reply[c].kind = "order"
               /\ acked' = [acked EXCEPT ![c] = reply[c].order] /\ Goto(c, "lookup")
               /\ UNCHANGED <<wire, outcome>>
      <4>1. acked'[c] = reply[c].order /\ pc'[c] = "lookup" /\ wire'[c] = Null /\ outcome'[c] = outcome[c]
        BY <1>1, <3>1, <3>3 DEF Domains, Goto
      <4>2. Honest(reply[c].order, intent[c]) /\ Follows(reply[c].order, book[c]) /\ book[c] # Null
        BY <1>1, <3>1, <3>3 DEF OrderSound
      <4>3. reply[c].order # Null
        BY <4>2, BinanceAssumption DEF Honest
      <4>. QED  BY <1>1, <3>1, <4>1, <4>2, <4>3 DEF OrderSound, OneInFlight, Quiet
    <3>4. \/ \E how \in {"threw", "canceled"} : End(c, how) /\ UNCHANGED <<wire, acked>>
          \/ Send(c, "order") /\ UNCHANGED <<acked, outcome>>
          \/ /\ pc[c] = "order" /\ reply[c].kind \notin {"error", "leverage"}
             /\ acked' = [acked EXCEPT ![c] = reply[c].order] /\ Goto(c, "lookup")
             /\ UNCHANGED <<wire, outcome>>
      BY <2>1 DEF ReceiveReply
    <3>. QED  BY <3>1, <3>2, <3>3, <3>4
  <2>2. CASE LoseReply(c)
    BY <1>1, <2>2 DEF LoseReply, network, End, Goto, Domains, OrderSound, OneInFlight, Quiet
  <2>3. CASE LookUp(c)
    <3>1. pc'[c] = "done" /\ acked'[c] = Null /\ UNCHANGED <<wire, reply>>
      BY <1>1, <2>3 DEF LookUp, End, Goto, Domains, network
    <3>. QED  BY <1>1, <3>1 DEF OrderSound, OneInFlight, Quiet
  <2>. QED  BY <2>1, <2>2, <2>3
<1>. QED  BY <1>1, <1>2, <1>3, AlarmFrame

\* An order of Binance that moves on stays honest, and follows what it was.
LEMMA BookAlarm ==
  ASSUME TypeOK, TypeOK', Inv, AlarmInv, NEW t \in Call, book[t] # Null, NEW o,
         book' = [book EXCEPT ![t] = o], Honest(o, intent[t]), Follows(book[t], o),
         UNCHANGED <<pc, intent, outcome, acked>>,
         NEW d \in Call, reply'[d] = reply[d] \/ reply'[d] = Null \/ pc[d] # "order"
  PROVE  OrderSound(d)'
<1>1. OrderSound(d)
  BY DEF AlarmInv
<1>2. CASE d # t
  <2>1. book'[d] = book[d]
    BY <1>2 DEF TypeOK
  <2>. QED  BY <1>1, <2>1 DEF OrderSound
<1>3. CASE d = t
  <2>1. book'[d] = o /\ o \in Order /\ book[d] \in Order /\ o # Null
    BY <1>3, BinanceAssumption DEF TypeOK, Honest
  <2>2. acked[d] # Null => Follows(acked[d], o)
    BY <1>1, <1>3, <2>1, FollowsCompose DEF OrderSound, Honest
  <2>3. pc[d] = "order" /\ reply[d] # Null /\ reply[d].kind = "order" => Follows(reply[d].order, o)
    BY <1>1, <1>3, <2>1, FollowsCompose DEF OrderSound, Honest
  <2>. QED  BY <1>1, <1>3, <2>1, <2>2, <2>3 DEF OrderSound
<1>. QED  BY <1>2, <1>3

\* What a request is answered with is what Binance has just made of the order.
LEMMA CarryOutAlarm ==
  ASSUME TypeOK, TypeOK', Inv, AlarmInv, NEW c \in Call, CarryOut(c)
  PROVE  AlarmInv'
<1>1. /\ wire[c] # Null /\ wire' = [wire EXCEPT ![c] = Null]
      /\ UNCHANGED <<pc, intent, acked, outcome>>
  BY DEF CarryOut, call
<1>2. /\ intent[c] \in IntentRecord /\ pc[c] \notin Quiet \cup {"lookup"} /\ acked[c] = Null
      /\ OrderSound(c) /\ OneInFlight(c)
  BY <1>1 DEF Inv, AlarmInv, CallSound, OrderSound, OneInFlight, Quiet
<1>3. wire'[c] = Null /\ \A d \in Call \ {c} : wire'[d] = wire[d]
  BY <1>1 DEF TypeOK
<1>4. \A d \in Call \ {c} : reply'[d] = reply[d]
  BY DEF CarryOut, Answer, TypeOK
<1>5. \A d \in Call : OneInFlight(d)'
  BY <1>1, <1>2, <1>3, <1>4 DEF AlarmInv, OneInFlight
<1>6. CASE UNCHANGED book /\ \E k \in {"error", "leverage"} : Answer(c, k, Null)
  <2>1. reply'[c] # Null => reply'[c].kind # "order"
    BY <1>6 DEF Answer, TypeOK
  <2>2. \A d \in Call : OrderSound(d)'
    BY <1>1, <1>4, <1>6, <2>1 DEF AlarmInv, OrderSound
  <2>. QED  BY <1>5, <2>2 DEF AlarmInv
<1>7. CASE /\ wire[c] = "order"
           /\ \E o \in NewOrders(intent[c]) : book' = [book EXCEPT ![c] = o] /\ Answer(c, "order", o)
  <2>1. PICK o \in NewOrders(intent[c]) : book' = [book EXCEPT ![c] = o] /\ Answer(c, "order", o)
    BY <1>7
  <2>2. /\ Honest(o, intent[c]) /\ o \in Order /\ o # Null
    BY <1>2, NewOrdersAreHonest, BinanceAssumption DEF Honest, TypeOK
  <2>3. Follows(o, o)
    BY <2>2, TransitionsReflexive DEF Follows, Order
  <2>4. book'[c] = o /\ \A d \in Call \ {c} : book'[d] = book[d]
    BY <2>1 DEF TypeOK
  <2>5. reply'[c] \in {Null, [kind |-> "order", order |-> o]}
    BY <2>1 DEF Answer, TypeOK
  <2>6. reply'[c] # Null => reply'[c].order = o
    BY <2>5
  <2>7. OrderSound(c)'
    BY <1>1, <1>2, <2>2, <2>3, <2>4, <2>6 DEF OrderSound
  <2>8. \A d \in Call \ {c} : OrderSound(d)'
    BY <1>1, <1>4, <2>4 DEF AlarmInv, OrderSound
  <2>. QED  BY <1>5, <2>7, <2>8 DEF AlarmInv
<1>8. CASE /\ wire[c] = "cancel" /\ open(book[intent[c].target])
           /\ \E s \in {"CANCELED", "PENDING_CANCEL"} :
                /\ book' = [book EXCEPT ![intent[c].target].status = s]
                /\ Answer(c, "order", book'[intent[c].target])
  <2>. DEFINE t == intent[c].target
  <2>1. PICK s \in {"CANCELED", "PENDING_CANCEL"} :
          book' = [book EXCEPT ![t].status = s] /\ Answer(c, "order", book'[t])
    BY <1>8
  <2>2. t \in Call /\ book[t] \in Order /\ book[t] # Null /\ book[t].status \notin Ended
    BY <1>2, <1>8 DEF IntentRecord, TypeOK, open
  <2>. DEFINE o == [book[t] EXCEPT !.status = s]
  <2>3. book' = [book EXCEPT ![t] = o]
    BY <2>1
  <2>4. s \in LegalTransitions[book[t].status]
    BY <2>2 DEF LegalTransitions, OrderStatus, Order, Ended
  <2>5. Honest(book[t], intent[t])
    BY <2>2 DEF AlarmInv, OrderSound
  <2>6. Honest(o, intent[t]) /\ Follows(book[t], o)
    BY <2>2, <2>4, <2>5, StatusIsHonest
  <2>. HIDE DEF o, t
  <2>7. pc[c] # "order" \/ reply'[c] = Null
    BY <1>8, <2>1 DEF Answer, TypeOK
  <2>8. \A d \in Call : OrderSound(d)'
    BY <1>1, <1>4, <2>2, <2>3, <2>6, <2>7, BookAlarm
  <2>. QED  BY <1>5, <2>8 DEF AlarmInv
<1>. QED  BY <1>6, <1>7, <1>8 DEF CarryOut

\* Fills, cancellations and ends keep every order honest.
LEMMA OrderAdvancesAlarm ==
  ASSUME TypeOK, TypeOK', Inv, AlarmInv, NEW c \in Call, OrderAdvances(c)
  PROVE  AlarmInv'
<1>1. /\ book[c] \in Order /\ book[c].status \notin Ended /\ book[c] # Null
      /\ intent[c] \in IntentRecord /\ Honest(book[c], intent[c])
      /\ UNCHANGED <<wire, reply, pc, intent, acked, outcome>>
  BY DEF OrderAdvances, open, TypeOK, Inv, CallSound, Quiet, AlarmInv, OrderSound, network, call
<1>2. \A o \in furtherFills(book[c], intent[c]) : Honest(o, intent[c]) /\ Follows(book[c], o)
  BY <1>1, FillIsHonest DEF furtherFills
<1>3. \A o \in furtherStatuses(book[c]) : Honest(o, intent[c]) /\ Follows(book[c], o)
  <2>. SUFFICES ASSUME NEW o \in furtherStatuses(book[c])
                PROVE  Honest(o, intent[c]) /\ Follows(book[c], o)
    OBVIOUS
  <2>1. PICK s : /\ o = [book[c] EXCEPT !.status = s]
                 /\ \/ book[c].status = "PENDING_NEW" /\ s \in {"NEW", "REJECTED"}
                    \/ s \in {"CANCELED", "EXPIRED", "EXPIRED_IN_MATCH"}
    BY DEF furtherStatuses
  <2>2. book[c].status = "PENDING_NEW" => book[c].filled = 0
    BY <1>1 DEF Honest
  <2>3. s \in LegalTransitions[book[c].status]
    BY <1>1, <2>1 DEF LegalTransitions, OrderStatus, Order, Ended
  <2>. QED  BY <1>1, <2>1, <2>2, <2>3, StatusIsHonest
<1>4. PICK o : book' = [book EXCEPT ![c] = o] /\ Honest(o, intent[c]) /\ Follows(book[c], o)
  BY <1>2, <1>3 DEF OrderAdvances
<1>5. \A d \in Call : OrderSound(d)'
  BY <1>1, <1>4, BookAlarm
<1>6. \A d \in Call : OneInFlight(d)'
  BY <1>1 DEF AlarmInv, OneInFlight
<1>. QED  BY <1>5, <1>6 DEF AlarmInv

LEMMA AlarmNext ==
  TypeOK /\ TypeOK' /\ Inv /\ AlarmInv /\ [NextConnectors]_connectorVars => AlarmInv'
<1>. SUFFICES ASSUME TypeOK, TypeOK', Inv, AlarmInv, [NextConnectors]_connectorVars PROVE AlarmInv'
  OBVIOUS
<1>1. ASSUME NEW c \in Call, Step(c) PROVE AlarmInv'
  <2>1. ASSUME (\E i \in Intent[c] : Begin(c, i)) \/ VerifyApiKey(c) \/ VerifyMargin(c) \/ AskPrice(c)
                 \/ ReceivePrice(c) \/ GetStatus(c)
        PROVE  pc[c] \in Quiet
    BY <2>1 DEF Begin, VerifyApiKey, VerifyMargin, AskPrice, ReceivePrice, GetStatus, Quiet
  <2>. QED  BY <1>1, <2>1, QuietAlarm, SentAlarm DEF Step
<1>2. ASSUME UNCHANGED <<book, wire, reply, pc, intent, acked, outcome>> PROVE AlarmInv'
  BY <1>2 DEF AlarmInv, OrderSound, OneInFlight
<1>3. CASE Tick \/ (Switch /\ UNCHANGED <<settings, exchange, network, call>>) \/ UNCHANGED binanceState
  BY <1>2, <1>3 DEF Tick, binanceState, settings, exchange, network, call
<1>. QED
  BY <1>1, <1>3, CarryOutAlarm, OrderAdvancesAlarm
  DEF NextConnectors, ByBinance, OnChain, Next, connectorVars

\* Only a look-up reports discrepancies.
LEMMA LookUpReports ==
  ASSUME Inv, NEW c \in Call, [NextConnectors]_connectorVars,
         outcome[c] # "discrepancy", outcome'[c] = "discrepancy"
  PROVE  LookUp(c)
<1>1. Domains /\ outcome' # outcome
  BY DEF Inv
<1>2. PICK d \in Call : Step(d)
  BY <1>1 DEF NextConnectors, ByBinance, OnChain, Next, connectorVars, binanceState, call, Tick,
    CarryOut, OrderAdvances
<1>. USE <1>1 DEF Domains, End
<1>3. ASSUME NEW i \in Intent[d], Begin(d, i) PROVE FALSE
  BY <1>3 DEF Begin
<1>4. CASE VerifyApiKey(d) \/ VerifyMargin(d) \/ AskPrice(d) \/ ReceivePrice(d)
  BY <1>4 DEF VerifyApiKey, VerifyMargin, AskPrice, ReceivePrice
<1>5. CASE ReceiveReply(d) \/ LoseReply(d) \/ GetStatus(d)
  BY <1>5 DEF ReceiveReply, LoseReply, GetStatus
<1>6. CASE LookUp(d)
  BY <1>6 DEF LookUp
<1>. QED  BY <1>2, <1>3, <1>4, <1>5, <1>6 DEF Step

\* A status query that races the fills and the end of an order reports a
\* discrepancy of an exchange that keeps its promises only when the average
\* price equals the limit and its double does not (rest-client.ts:386-391,
\* reconciliation.ts: LEGAL_TRANSITIONS, inconsistentFill, the price
\* comparison): for any quantities and prices, and however many steps the
\* order took in between.
THEOREM FalseAlarmsAreRounding == SpecConnectors => FalseAlarmOnlyByRounding
<1>1. ASSUME Inv, AlarmInv, [NextConnectors]_connectorVars, NEW c \in Call,
             outcome[c] = Null, outcome'[c] = "discrepancy"
      PROVE  Misrounded(book[c], intent[c])
  <2>1. LookUp(c)
    BY <1>1, LookUpReports, BinanceAssumption DEF Outcome
  <2>2. /\ Honest(acked[c], intent[c]) /\ Honest(book[c], intent[c]) /\ Follows(acked[c], book[c])
        /\ intent[c] \in IntentRecord
    BY <1>1, <2>1 DEF LookUp, AlarmInv, OrderSound, Inv, CallSound
  <2>3. reconcileAcceptedOrder(acked[c], book[c], intent[c].side, intent[c].quantity, intent[c].price)
          # "matched"
    BY <1>1, <2>1 DEF LookUp, End, Inv, Domains
  <2>. QED  BY <2>2, <2>3, NothingToReport
<1>2. Inv /\ AlarmInv /\ [NextConnectors]_connectorVars
      => [\A c \in Call : outcome[c] = Null /\ outcome'[c] = "discrepancy" =>
                         Misrounded(book[c], intent[c])]_vars
  BY <1>1
<1>. QED
  BY <1>2, AlarmInit, AlarmNext, InvAlways, ConnectorTypeCorrect, PTL
  DEF SpecConnectors, FalseAlarmOnlyByRounding

-----------------------------------------------------------------------------
(***************************************************************************)
(* The leverage of the futures symbol, which every call may set.           *)
(***************************************************************************)
\* A valid order asks for at most maxFuturesLeverage; the symbol is within it
\* from the first leverage request that is carried out, and no order leaves
\* before one was.
LeverSound(c) ==
  /\ pc[c] # "idle" /\ outcome[c] # "not_submitted" /\ intent[c].action = "place" =>
       intent[c].leverage <= MaxLeverage
  /\ wire[c] = "leverage" => intent[c].action = "place"
  /\ wire[c] = "order" => leverage <= MaxLeverage
  /\ reply[c] # Null /\ reply[c].kind = "leverage" => leverage <= MaxLeverage
  /\ book[c] # Null => book[c].leverage <= MaxLeverage

LeverInv == product = "usdm_futures" => \A c \in Call : LeverSound(c)

LEMMA LeverInit == InitConnectors => LeverInv
BY BinanceAssumption DEF InitConnectors, Init, LeverInv, LeverSound

\* The other calls, when one call moves on.
LEMMA LeverFrame ==
  ASSUME LeverInv, NEW c \in Call, UNCHANGED <<book, leverage, product>>,
         product = "usdm_futures" => LeverSound(c)',
         \A d \in Call \ {c} : /\ wire'[d] = wire[d] /\ reply'[d] = reply[d] /\ pc'[d] = pc[d]
                               /\ intent'[d] = intent[d] /\ outcome'[d] = outcome[d]
  PROVE  LeverInv'
<1>1. ASSUME product = "usdm_futures", NEW d \in Call \ {c} PROVE LeverSound(d)'
  BY <1>1 DEF LeverInv, LeverSound
<1>. QED  BY <1>1 DEF LeverInv

\* Only an answer to the leverage request makes a futures call send its order.
LEMMA LeverStep ==
  ASSUME Inv, LeverInv, NEW c \in Call, Step(c)
  PROVE  LeverInv'
<1>1. /\ Domains /\ CallSound(c) /\ UNCHANGED <<book, leverage, product>>
  BY DEF Inv, Step, Begin, VerifyApiKey, VerifyMargin, AskPrice, ReceivePrice, ReceiveReply, LoseReply,
    LookUp, GetStatus, settings, exchange
<1>2. \A d \in Call \ {c} :
        /\ wire'[d] = wire[d] /\ reply'[d] = reply[d] /\ pc'[d] = pc[d]
        /\ intent'[d] = intent[d] /\ outcome'[d] = outcome[d]
  BY <1>1 DEF Step, Begin, VerifyApiKey, VerifyMargin, AskPrice, ReceivePrice, ReceiveReply, LoseReply,
    LookUp, GetStatus, Domains, End, Send, Goto, network
<1>3. ASSUME product = "usdm_futures" PROVE LeverSound(c)'
  <2>. USE <1>1, <1>3 DEF Domains, End, Send, Goto
  <2>1. LeverSound(c)
    BY DEF LeverInv
  <2>2. ASSUME NEW i \in Intent[c], Begin(c, i) PROVE LeverSound(c)'
    <3>1. /\ intent'[c] = i /\ wire'[c] \in {Null, "cancel"} /\ UNCHANGED reply
          /\ outcome'[c] = "not_submitted" \/ validateExecutableIntent(i)
      BY <2>2 DEF Begin, CallSound, Quiet
    <3>2. validateExecutableIntent(i) /\ i.action = "place" => i.leverage <= MaxLeverage
      BY DEF validateExecutableIntent, validateIntent
    <3>. QED  BY <2>1, <3>1, <3>2, BinanceAssumption DEF LeverSound
  <2>3. CASE VerifyApiKey(c) \/ VerifyMargin(c) \/ AskPrice(c) \/ ReceivePrice(c)
    <3>1. /\ UNCHANGED <<reply, intent>> /\ wire[c] = Null /\ outcome[c] # "not_submitted"
          /\ pc[c] # "idle"
      BY <2>3 DEF VerifyApiKey, VerifyMargin, AskPrice, ReceivePrice, CallSound, Quiet, network
    <3>2. wire'[c] \in {Null, "cancel"} \/ (wire'[c] = "leverage" /\ intent[c].action = "place")
      BY <2>3, <3>1 DEF VerifyApiKey, VerifyMargin, AskPrice, ReceivePrice, CallSound, Ordering, network
    <3>. QED  BY <2>1, <3>1, <3>2, BinanceAssumption DEF LeverSound
  <2>4. CASE ReceiveReply(c)
    <3>1. /\ UNCHANGED intent /\ reply'[c] = Null /\ reply[c] # Null /\ pc[c] # "idle"
          /\ outcome[c] # "not_submitted"
      BY <2>4 DEF ReceiveReply, CallSound
    <3>2. wire'[c] = wire[c] \/ (wire'[c] = "order" /\ reply[c].kind = "leverage")
      BY <2>4 DEF ReceiveReply
    <3>. QED  BY <2>1, <3>1, <3>2 DEF LeverSound
  <2>5. CASE LoseReply(c) \/ LookUp(c) \/ GetStatus(c)
    <3>1. /\ UNCHANGED <<wire, reply, intent>> /\ pc[c] # "idle" /\ outcome[c] # "not_submitted"
      BY <2>5 DEF LoseReply, LookUp, GetStatus, network, CallSound
    <3>. QED  BY <2>1, <3>1 DEF LeverSound
  <2>. QED  BY <2>2, <2>3, <2>4, <2>5 DEF Step
<1>. QED  BY <1>1, <1>2, <1>3, LeverFrame

\* A new order has the leverage of its symbol; later it keeps it.
LEMMA FillKeepsLeverage ==
  ASSUME NEW i, NEW o \in Order, NEW n, NEW p
  PROVE  filledBy(o, i, n, p).leverage = o.leverage
<1>. DEFINE s == IF o.filled + n = i.quantity THEN "FILLED"
                 ELSE IF o.status = "PENDING_CANCEL" THEN "PENDING_CANCEL" ELSE "PARTIALLY_FILLED"
<1>1. filledBy(o, i, n, p) = [o EXCEPT !.filled = o.filled + n, !.quote = o.quote + n * p, !.status = s]
  BY DEF filledBy, Order
<1>. HIDE DEF s
<1>. QED  BY <1>1 DEF Order

LEMMA NewOrdersLeverage ==
  ASSUME NEW i, leverage \in Nat, NEW o \in NewOrders(i)
  PROVE  o.leverage = leverage
<1>. DEFINE fresh == [status |-> "NEW", filled |-> 0, quote |-> 0, leverage |-> leverage]
<1>1. fresh \in Order /\ fresh.leverage = leverage
  BY DEF Order, OrderStatus
<1>2. \A s : [fresh EXCEPT !.status = s].leverage = leverage
  OBVIOUS
<1>3. \A n \in 1..i.quantity, p \in fillPrices(i) : filledBy(fresh, i, n, p).leverage = leverage
  BY <1>1, FillKeepsLeverage
<1>. QED  BY <1>2, <1>3 DEF NewOrders

LEMMA LeverCarryOut ==
  ASSUME TypeOK, Inv, LeverInv, NEW c \in Call, CarryOut(c)
  PROVE  LeverInv'
<1>. SUFFICES ASSUME product = "usdm_futures", NEW d \in Call PROVE LeverSound(d)'
  BY DEF CarryOut, settings, LeverInv
<1>1. /\ wire[c] # Null /\ wire' = [wire EXCEPT ![c] = Null] /\ UNCHANGED <<pc, intent, outcome>>
  BY DEF CarryOut, call
<1>2. /\ LeverSound(c) /\ LeverSound(d) /\ pc[c] # "idle" /\ outcome[c] # "not_submitted"
      /\ intent[c] \in IntentRecord
  BY <1>1 DEF Inv, LeverInv, CallSound, Quiet
<1>3. leverage \in Nat /\ leverage' \in Nat /\ MaxLeverage \in Nat
  BY <1>2, BinanceAssumption DEF CarryOut, TypeOK, IntentRecord
<1>4. wire'[d] \in {wire[d], Null}
  BY <1>1 DEF TypeOK
<1>5. leverage' = leverage \/ leverage' <= MaxLeverage
  BY <1>2 DEF CarryOut, LeverSound
<1>6. book'[d] # Null => book'[d].leverage <= MaxLeverage
  <2>1. CASE UNCHANGED book
    BY <1>2, <2>1 DEF LeverSound
  <2>2. CASE wire[c] = "order" /\ \E o \in NewOrders(intent[c]) : book' = [book EXCEPT ![c] = o]
    <3>1. PICK o \in NewOrders(intent[c]) : book' = [book EXCEPT ![c] = o]
      BY <2>2
    <3>2. o.leverage <= MaxLeverage
      BY <1>2, <1>3, <2>2, NewOrdersLeverage DEF LeverSound
    <3>. QED  BY <1>2, <3>1, <3>2 DEF LeverSound, TypeOK
  <2>3. CASE /\ open(book[intent[c].target])
             /\ \E s \in {"CANCELED", "PENDING_CANCEL"} :
                  book' = [book EXCEPT ![intent[c].target].status = s]
    <3>1. PICK s : book' = [book EXCEPT ![intent[c].target].status = s]
      BY <2>3
    <3>2. book'[d] = book[d] \/ (book[d] # Null /\ book'[d] = [book[d] EXCEPT !.status = s])
      BY <2>3, <3>1 DEF TypeOK, open
    <3>3. book[d] # Null => book[d] \in Order
      BY DEF TypeOK
    <3>4. book[d] # Null => [book[d] EXCEPT !.status = s].leverage = book[d].leverage
      BY <3>3 DEF Order
    <3>. QED  BY <1>2, <3>2, <3>4 DEF LeverSound
  <2>. QED  BY <2>1, <2>2, <2>3 DEF CarryOut
<1>7. reply'[d] # Null /\ reply'[d].kind = "leverage" => leverage' <= MaxLeverage
  <2>1. CASE reply'[d] = reply[d]
    BY <1>2, <1>3, <1>5, <2>1 DEF LeverSound
  <2>2. CASE \E k, o : Answer(c, k, o) /\ k # "leverage"
    <3>1. PICK k, o : Answer(c, k, o) /\ k # "leverage"
      BY <2>2
    <3>2. d = c => reply'[d] = Null \/ reply'[d].kind = k
      BY <3>1 DEF Answer, TypeOK
    <3>3. d # c => reply'[d] = reply[d]
      BY <3>1 DEF Answer, TypeOK
    <3>. QED  BY <2>1, <3>1, <3>2, <3>3
  <2>3. CASE wire[c] = "leverage" /\ leverage' = intent[c].leverage
    BY <1>2, <2>3 DEF LeverSound
  <2>. QED  BY <2>2, <2>3 DEF CarryOut
<1>. QED  BY <1>1, <1>2, <1>3, <1>4, <1>5, <1>6, <1>7, BinanceAssumption DEF LeverSound

LEMMA LeverNext ==
  TypeOK /\ Inv /\ LeverInv /\ [NextConnectors]_connectorVars => LeverInv'
<1>. SUFFICES ASSUME TypeOK, Inv, LeverInv, [NextConnectors]_connectorVars PROVE LeverInv'
  OBVIOUS
<1>1. ASSUME NEW c \in Call, OrderAdvances(c) PROVE LeverInv'
  <2>1. PICK o \in furtherFills(book[c], intent[c]) \cup furtherStatuses(book[c]) :
          book' = [book EXCEPT ![c] = o]
    BY <1>1 DEF OrderAdvances
  <2>2. book[c] # Null /\ book[c] \in Order /\ UNCHANGED <<product, leverage, wire, reply, pc, intent, outcome>>
    BY <1>1 DEF OrderAdvances, open, TypeOK, settings, network, call
  <2>3. o.leverage = book[c].leverage
    <3>1. CASE o \in furtherFills(book[c], intent[c])
      BY <2>2, <3>1, FillKeepsLeverage DEF furtherFills
    <3>2. CASE o \in furtherStatuses(book[c])
      BY <2>2, <3>2 DEF furtherStatuses, Order
    <3>. QED  BY <2>1, <3>1, <3>2
  <2>4. \A d \in Call : book'[d] = book[d] \/ (d = c /\ book'[d] = o)
    BY <2>1 DEF TypeOK
  <2>. QED  BY <2>2, <2>3, <2>4 DEF LeverInv, LeverSound
<1>2. ASSUME UNCHANGED <<product, leverage, book, wire, reply, pc, intent, outcome>> PROVE LeverInv'
  BY <1>2 DEF LeverInv, LeverSound
<1>3. CASE Tick \/ (Switch /\ UNCHANGED <<settings, exchange, network, call>>) \/ UNCHANGED binanceState
  BY <1>2, <1>3 DEF Tick, binanceState, settings, exchange, network, call
<1>. QED
  BY <1>1, <1>3, LeverStep, LeverCarryOut
  DEF NextConnectors, ByBinance, OnChain, Next, connectorVars

\* However concurrent futures calls set the leverage of the symbol, and however
\* late a request that was given up is carried out, no order is placed above
\* maxFuturesLeverage (rest-client.ts:413-441, validation.ts).
THEOREM LeverageBounded == SpecConnectors => []LeverageIsBounded
<1>1. LeverInv => LeverageIsBounded
  BY DEF LeverInv, LeverSound, LeverageIsBounded
<1>. QED
  BY <1>1, LeverInit, LeverNext, InvAlways, ConnectorTypeCorrect, PTL DEF SpecConnectors

-----------------------------------------------------------------------------
(***************************************************************************)
(* What a simulation reports as reliable is what the transaction does.     *)
(***************************************************************************)
Pinned == {"execution", "diff", "native", "balanceOf", "slot", "override", "recheck"}
Executed == Pinned \ {"execution"}
Diffed == Executed \ {"diff"}
Probing == {"balanceOf", "slot", "override", "recheck"}

\* balanceOf of x moves as its slot does.
SlotIsBalance(x) ==
  delta(pinned, balanceOfReads[pinned][x]) = delta(pinned, <<"balance", x[1], x[2]>>)

\* As long as the node still has the pinned block, everything it has answered
\* was about that block: a block it abandons never comes back.
EvmInv ==
  /\ fork \in Fork /\ fork \notin abandoned /\ observed \subseteq Account
  /\ stage \in Pinned => pinned \in Fork /\ (fork = pinned \/ pinned \in abandoned)
  /\ stage \in Executed /\ fork = pinned => pinned \notin Reverting
  /\ stage \in Diffed /\ fork = pinned => traced = pinned /\ ~refused(pinned, observed)
  /\ stage \in Probing /\ fork = pinned => \A x \in (Token \X observed) \ todo : SlotIsBalance(x)
  /\ stage \in {"slot", "override"} /\ fork = pinned =>
       /\ word.of \in Token \X Account
       /\ word.value = pre[pinned][balanceOfReads[pinned][word.of]]
  /\ stage = "recheck" => todo = {}
  /\ evidence # Null => stage = "ended"
  /\ evidence # Null /\ evidence.reliable =>
       /\ evidence.changes \subseteq evmEffect
       /\ {c \in evidence.changes : c.delta # 0} = {c \in evmEffect : c.delta # 0}
       /\ pinned \notin Reverting /\ evmFootprint \subseteq slotIndex(observed)

SolanaInv ==
  /\ simulated # None => at = "ended"
  /\ simulated # None /\ simulated.reliable => simulated.changes = solanaEffect

EvidenceInv == EvmInv /\ SolanaInv

LEMMA EvidenceInit == InitConnectors => EvidenceInv
BY DEF InitConnectors, InitOnchain, InitEvm, InitSolana, EvidenceInv, EvmInv, SolanaInv, Pinned,
  Executed, Diffed, Probing

LEMMA SolanaStepInv ==
  ASSUME SolanaInv, SolanaStep \/ BeginSolana \/ Finalise
  PROVE  SolanaInv'
<1>1. CASE SolanaRequestFails
  BY <1>1 DEF SolanaRequestFails, failClosed, Return, SolanaInv
<1>2. CASE AssertNetwork \/ ReadAccounts \/ ReadBlockhash \/ BeginSolana \/ Finalise
  BY <1>2 DEF AssertNetwork, ReadAccounts, ReadBlockhash, BeginSolana, Finalise, SolanaInv, solanaEffect
<1>3. CASE Simulate
  BY <1>3 DEF Simulate, failClosed, Return, SolanaInv, solanaEffect
<1>. QED  BY <1>1, <1>2, <1>3 DEF SolanaStep

\* A block whose hash has not changed since it was pinned was traced and
\* probed as a whole, and its diff is what the transaction does.
LEMMA RecheckIsTrue ==
  ASSUME EvmInv, stage = "recheck", fork = pinned
  PROVE  /\ LET changes == balanceChanges(traced, Signer, observed) IN
              /\ changes \subseteq evmEffect
              /\ {c \in changes : c.delta # 0} = {c \in evmEffect : c.delta # 0}
         /\ pinned \notin Reverting /\ evmFootprint \subseteq slotIndex(observed)
<1>1. /\ pinned \in Fork /\ traced = pinned /\ ~refused(pinned, observed) /\ observed \subseteq Account
      /\ pinned \notin Reverting /\ \A x \in Token \X observed : SlotIsBalance(x)
  BY DEF EvmInv, Pinned, Executed, Diffed, Probing
<1>2. evmFootprint \subseteq slotIndex(observed)
  BY <1>1 DEF evmFootprint, refused
<1>. DEFINE changes == balanceChanges(pinned, Signer, observed)
<1>3. \A a \in Account : delta(pinned, <<"eth", a>>) # 0 <=> <<"eth", a>> \in changed(pinned)
  <2>. TAKE a \in Account
  <2>1. pre[pinned][<<"eth", a>>] \in Nat /\ post[pinned][<<"eth", a>>] \in Nat /\ <<"eth", a>> \in StatePlace
    BY <1>1, EvmAssumption
  <2>. QED  BY <2>1 DEF delta, changed
<1>4. /\ diffAccounts(pinned, Signer) \subseteq Account
      /\ \A a \in Account : <<"eth", a>> \in changed(pinned) => a \in diffAccounts(pinned, Signer)
  BY EvmAssumption, OnchainAssumption DEF diffAccounts, changed
<1>5. ASSUME NEW c \in changes PROVE c \in evmEffect
  <2>1. CASE \E a \in diffAccounts(pinned, Signer) \cup observed :
               c = [holder |-> a, asset |-> "ETH", delta |-> delta(pinned, <<"eth", a>>)]
    BY <1>1, <1>4, <2>1 DEF evmEffect
  <2>2. CASE \E x \in Token \X observed :
               c = [holder |-> x[2], asset |-> x[1], delta |-> delta(pinned, <<"balance", x[1], x[2]>>)]
    BY <1>1, <2>2 DEF evmEffect, SlotIsBalance
  <2>. QED  BY <1>5, <2>1, <2>2 DEF balanceChanges
<1>6. ASSUME NEW c \in evmEffect, c.delta # 0 PROVE c \in changes
  <2>1. CASE \E a \in Account :
               c = [holder |-> a, asset |-> "ETH", delta |-> delta(pinned, <<"eth", a>>)]
    <3>1. PICK a \in Account : c = [holder |-> a, asset |-> "ETH", delta |-> delta(pinned, <<"eth", a>>)]
      BY <2>1
    <3>2. a \in diffAccounts(pinned, Signer)
      BY <1>3, <1>4, <1>6, <3>1
    <3>. QED  BY <3>1, <3>2 DEF balanceChanges
  <2>2. CASE \E x \in Token \X observed :
               c = [holder |-> x[2], asset |-> x[1],
                    delta |-> delta(pinned, balanceOfReads[pinned][x])]
    BY <1>1, <2>2 DEF balanceChanges, SlotIsBalance
  <2>. QED  BY <1>6, <2>1, <2>2 DEF evmEffect
<1>. QED  BY <1>1, <1>2, <1>5, <1>6

LEMMA EvmStepInv ==
  ASSUME EvmInv, EvmStep(Signer)
  PROVE  EvmInv'
<1>. USE DEF Pinned, Executed, Diffed, Probing
<1>1. CASE EvmRequestFails
  BY <1>1 DEF EvmRequestFails, Refuse, Conclude, EvmInv
<1>2. CASE AssertConfiguredChain \/ PinBlock
  BY <1>2 DEF AssertConfiguredChain, PinBlock, GoOn, EvmInv
<1>3. CASE TraceExecution
  BY <1>3 DEF TraceExecution, Refuse, Conclude, GoOn, EvmInv
<1>4. CASE TraceDiff(Signer)
  BY <1>4 DEF TraceDiff, Refuse, Conclude, GoOn, EvmInv, refused, changed
<1>5. ASSUME NEW a \in Account, ProbeNative(a) PROVE EvmInv'
  BY <1>5 DEF ProbeNative, Refuse, Conclude, GoOn, EvmInv, refused, changed
<1>6. ASSUME NEW x \in Token \X Account, ProbeBalanceOf(x) PROVE EvmInv'
  BY <1>6 DEF ProbeBalanceOf, GoOn, EvmInv, refused, changed, SlotIsBalance, delta
<1>7. CASE ProbeSlot
  BY <1>7 DEF ProbeSlot, Refuse, Conclude, GoOn, EvmInv, refused, changed, SlotIsBalance, delta
<1>8. CASE ProbeOverride
  <2>1. CASE Refuse /\ UNCHANGED <<fork, abandoned>>
    BY <2>1 DEF Refuse, Conclude, EvmInv
  <2>2. CASE /\ overridden(fork, balanceOfReads[fork][word.of]) - word.value
                = delta(traced, <<"balance", word.of[1], word.of[2]>>)
             /\ stage = "override" /\ GoOn(IF todo \ {word.of} = {} THEN "recheck" ELSE "balanceOf")
             /\ todo' = todo \ {word.of} /\ word' = Null
             /\ UNCHANGED <<observed, pinned, traced, fork, abandoned>>
    <3>1. ASSUME fork = pinned PROVE SlotIsBalance(word.of)
      <4>. DEFINE R == balanceOfReads[pinned][word.of]
      <4>1. pinned \in Fork /\ traced = pinned /\ word.of \in Token \X Account /\ word.value = pre[pinned][R]
        BY <2>2, <3>1 DEF EvmInv
      <4>2. R \in StatePlace
        BY <4>1, EvmAssumption
      <4>3. overridden(pinned, R) = post[pinned][R]
        BY <4>1, <4>2 DEF overridden, changed
      <4>. QED  BY <2>2, <3>1, <4>1, <4>3 DEF SlotIsBalance, delta
    <3>2. /\ stage' \in {"recheck", "balanceOf"} /\ (stage' = "recheck" => todo' = {})
          /\ evidence' = evidence /\ evidence = Null
      BY <2>2 DEF GoOn, EvmInv
    <3>3. ASSUME fork' = pinned', NEW x \in (Token \X observed') \ todo' PROVE SlotIsBalance(x)'
      <4>1. SlotIsBalance(x)
        BY <2>2, <3>1, <3>3 DEF EvmInv
      <4>. QED  BY <2>2, <4>1 DEF SlotIsBalance, delta
    <3>. QED  BY <2>2, <3>2, <3>3 DEF EvmInv, refused, changed
  <2>. QED  BY <1>8, <2>1, <2>2 DEF ProbeOverride
<1>9. CASE RecheckBlock(Signer)
  <2>1. CASE fork # pinned
    BY <1>9, <2>1 DEF RecheckBlock, Refuse, Conclude, EvmInv
  <2>2. CASE fork = pinned
    <3>. DEFINE changes == balanceChanges(traced, Signer, observed)
    <3>1. /\ stage = "recheck" /\ stage' = "ended"
          /\ evidence' = [success |-> TRUE, reliable |-> TRUE, changes |-> changes]
          /\ UNCHANGED <<fork, abandoned, observed, pinned, traced>>
      BY <1>9, <2>2 DEF RecheckBlock, Conclude
    <3>2. /\ changes \subseteq evmEffect
          /\ {c \in changes : c.delta # 0} = {c \in evmEffect : c.delta # 0}
          /\ pinned \notin Reverting /\ evmFootprint \subseteq slotIndex(observed)
      BY <2>2, <3>1, RecheckIsTrue
    <3>3. evmEffect' = evmEffect /\ evmFootprint' = evmFootprint /\ slotIndex(observed)' = slotIndex(observed)
      BY <3>1 DEF evmEffect, evmFootprint, slotIndex, delta, changed
    <3>. HIDE DEF changes
    <3>4. evidence'.changes = changes
      BY <3>1
    <3>5. /\ evidence'.changes \subseteq evmEffect'
          /\ {c \in evidence'.changes : c.delta # 0} = {c \in evmEffect' : c.delta # 0}
          /\ pinned' \notin Reverting /\ evmFootprint' \subseteq slotIndex(observed)'
      BY <3>1, <3>2, <3>3, <3>4
    <3>. QED  BY <3>1, <3>5 DEF EvmInv
  <2>. QED  BY <2>1, <2>2
<1>. QED  BY <1>1, <1>2, <1>3, <1>4, <1>5, <1>6, <1>7, <1>8, <1>9 DEF EvmStep

LEMMA ReorganiseInv ==
  ASSUME EvmInv, Reorganise(MaxReorgs)
  PROVE  EvmInv'
BY DEF Reorganise, EvmInv, Pinned, Executed, Diffed, Probing, refused, changed, SlotIsBalance, delta

LEMMA BeginEvmInv ==
  ASSUME EvmInv, NEW accounts \in SUBSET Account, BeginEvm(accounts)
  PROVE  EvmInv'
BY DEF BeginEvm, GoOn, EvmInv, Pinned, Executed, Diffed, Probing

\* Every account an Ethereum simulation observes is one of the chain's.
LEMMA ObservedAreAccounts ==
  ASSUME NEW r \in Request, chain = "ethereum", revalidate(r)
  PROVE  observedAddresses(r) \subseteq Account
<1>1. r.chain = "ethereum" /\ r.to \in AllowedContracts
  BY DEF revalidate, appliesHere, validateEthereum, allowlisted
<1>2. {Signer} \cup AllowedContracts \cup AllowedRecipients \cup AllowedSpenders \subseteq Account
  BY OnchainAssumption
<1>3. \A e \in expectedDeltas(r) : e.holder \in Account
  BY <1>1, OnchainAssumption DEF expectedDeltas
<1>. QED  BY <1>1, <1>2, <1>3 DEF observedAddresses

LEMMA EvidenceNext == EvidenceInv /\ [NextConnectors]_connectorVars => EvidenceInv'
<1>. SUFFICES ASSUME EvidenceInv, [NextConnectors]_connectorVars PROVE EvidenceInv'
  OBVIOUS
<1>1. ASSUME UNCHANGED evmVars PROVE EvmInv'
  <2>1. UNCHANGED <<fork, abandoned, stage, observed, pinned, traced, todo, word, evidence>>
    BY <1>1 DEF evmVars
  <2>2. /\ evmEffect' = evmEffect /\ evmFootprint' = evmFootprint
        /\ slotIndex(observed)' = slotIndex(observed)
        /\ refused(pinned, observed)' = refused(pinned, observed)
    BY <2>1 DEF evmEffect, evmFootprint, slotIndex, refused, changed, delta
  <2>3. \A x \in Token \X observed : SlotIsBalance(x)' <=> SlotIsBalance(x)
    BY <2>1 DEF SlotIsBalance, delta
  <2>. QED  BY <2>1, <2>2, <2>3 DEF EvidenceInv, EvmInv
<1>2. ASSUME UNCHANGED solanaVars PROVE SolanaInv'
  BY <1>2 DEF solanaVars, EvidenceInv, SolanaInv, solanaEffect
<1>3. CASE ByBinance \/ UNCHANGED connectorVars
  BY <1>1, <1>2, <1>3 DEF ByBinance, connectorVars, onchainState, EvidenceInv
<1>4. CASE OnChain
  <2>1. ASSUME NEW r \in Request, Execute(r) PROVE EvidenceInv'
    <3>1. CASE UNCHANGED <<evmVars, solanaVars>>
      BY <1>1, <1>2, <3>1 DEF EvidenceInv
    <3>2. CASE chain = "ethereum" /\ revalidate(r) /\ BeginEvm(observedAddresses(r)) /\ UNCHANGED solanaVars
      BY <1>2, <3>2, ObservedAreAccounts, BeginEvmInv DEF EvidenceInv
    <3>3. CASE BeginSolana /\ UNCHANGED evmVars
      BY <1>1, <3>3, SolanaStepInv DEF EvidenceInv
    <3>. QED  BY <2>1, <3>1, <3>2, <3>3 DEF Execute
  <2>2. CASE ProviderStep
    BY <1>1, <1>2, <2>2, EvmStepInv, SolanaStepInv DEF ProviderStep, EvidenceInv
  <2>3. CASE Decide \/ SignerAnswers
    BY <1>1, <1>2, <2>3 DEF Decide, SignerAnswers, EvidenceInv
  <2>4. CASE Surroundings
    BY <1>1, <1>2, <2>4, ReorganiseInv, SolanaStepInv DEF Surroundings, EvidenceInv
  <2>. QED  BY <1>4, <2>1, <2>2, <2>3, <2>4 DEF OnChain, NextOnchain, ConnectorStep
<1>. QED  BY <1>3, <1>4 DEF NextConnectors

LEMMA EvidenceAlways == SpecConnectors => []EvidenceInv
BY EvidenceInit, EvidenceNext, PTL DEF SpecConnectors

\* Evidence is marked reliable only when it is all the transaction does on one
\* block, or at one slot (simulateTransaction of both providers): for any
\* number of blocks, accounts and tokens, any storage layout, and whenever the
\* node's chain is reorganised.
THEOREM EvidenceIsTrue == SpecConnectors => []ReliableEvidenceIsTrue
<1>1. EvidenceInv => ReliableEvidenceIsTrue
  BY DEF EvidenceInv, EvmInv, SolanaInv, ReliableEvidenceIsTrue, result, effect
<1>. QED  BY <1>1, EvidenceAlways, PTL

-----------------------------------------------------------------------------
(***************************************************************************)
(* What is signed does what the intent says.                               *)
(***************************************************************************)
\* What an asset of a holder does is one change.
LEMMA EffectIsUnique ==
  ASSUME NEW c \in evmEffect, NEW d \in evmEffect, c.holder = d.holder, c.asset = d.asset
  PROVE  c = d
<1>. DEFINE ether(a) == [holder |-> a, asset |-> "ETH", delta |-> delta(pinned, <<"eth", a>>)]
            moved(x) == [holder |-> x[2], asset |-> x[1],
                         delta |-> delta(pinned, balanceOfReads[pinned][x])]
<1>1. \/ \E a \in Account : c = ether(a)
      \/ \E x \in Token \X observed : c = moved(x)
  BY DEF evmEffect
<1>2. \/ \E a \in Account : d = ether(a)
      \/ \E x \in Token \X observed : d = moved(x)
  BY DEF evmEffect
<1>3. \A a : ether(a).holder = a /\ ether(a).asset = "ETH"
  OBVIOUS
<1>4. \A x \in Token \X observed :
        x = <<x[1], x[2]>> /\ moved(x).holder = x[2] /\ moved(x).asset = x[1] /\ x[1] # "ETH"
  BY EvmAssumption
<1>. HIDE DEF ether, moved
<1>. QED  BY <1>1, <1>2, <1>3, <1>4

\* An expectation that the reported changes meet is met by all the
\* transaction does: what is not reported is no change.
LEMMA ReportedIsEnough ==
  ASSUME NEW changes \in SUBSET evmEffect, NEW expected,
         {c \in changes : c.delta # 0} = {c \in evmEffect : c.delta # 0},
         matches(changes, expected)
  PROVE  matches(evmEffect, expected)
<1>1. unexpected(evmEffect, expected) = {}
  BY DEF matches, unexpected
<1>2. ASSUME NEW e \in expected
      PROVE  {c \in changes : concerns(e, c)} = {c \in evmEffect : concerns(e, c)}
  <2>1. PICK c \in changes : concerns(e, c)
    BY DEF matches, unmet
  <2>2. \A d \in evmEffect : concerns(e, d) => d = c
    BY <2>1, EffectIsUnique DEF concerns
  <2>. QED  BY <2>1, <2>2
<1>3. unmet(evmEffect, expected) = {}
  BY <1>2 DEF matches, unmet
<1>. QED  BY <1>1, <1>3 DEF matches

SignedInv ==
  /\ place = "idle" => ~sent
  /\ place = "simulating" => ~sent /\ request \in Request /\ revalidate(request)
  /\ SignedAsApproved

LEMMA DecideSigns ==
  ASSUME EvidenceInv, SignedInv, Decide
  PROVE  SignedInv'
<1>1. place = "simulating" /\ request \in Request /\ revalidate(request) /\ ~sent
  BY DEF Decide, SignedInv
<1>2. /\ UNCHANGED <<evmVars, solanaVars, chain, request>>
      /\ effect' = effect
  BY DEF Decide, effect, evmVars, solanaVars, evmEffect, solanaEffect, delta
<1>3. CASE UNCHANGED sent /\ place' = "ended"
  BY <1>1, <1>3 DEF SignedInv, SignedAsApproved
<1>4. CASE place' = "signing" /\ result \notin {Null, None} /\ asExpected(request)
             /\ request.action # "simulate"
  <2>1. request.expected # Null
    BY <1>1, <1>4, OnchainAssumption
      DEF revalidate, validateEthereum, validateSolana, expectedDeltas
  <2>2. result.reliable /\ matches(result.changes, request.expected)
    BY <1>4, <2>1 DEF asExpected
  <2>3. ASSUME chain = "ethereum" PROVE matches(effect, request.expected)
    <3>1. effect = evmEffect /\ result = evidence /\ evidence # Null
      BY <1>4, <2>3 DEF result, effect
    <3>. QED  BY <2>2, <3>1, ReportedIsEnough DEF EvidenceInv, EvmInv
  <2>4. ASSUME chain # "ethereum" PROVE matches(effect, request.expected)
    BY <1>4, <2>2, <2>4 DEF EvidenceInv, SolanaInv, result, effect
  <2>. QED  BY <1>2, <1>4, <2>1, <2>3, <2>4 DEF SignedInv, SignedAsApproved
<1>. QED  BY <1>3, <1>4 DEF Decide, Finish

LEMMA SignedNext == EvidenceInv /\ SignedInv /\ [NextConnectors]_connectorVars => SignedInv'
<1>. SUFFICES ASSUME EvidenceInv, SignedInv, [NextConnectors]_connectorVars PROVE SignedInv'
  OBVIOUS
<1>1. ASSUME UNCHANGED <<evmVars, solanaVars, chain>> PROVE effect' = effect
  BY <1>1 DEF evmVars, solanaVars, effect, evmEffect, solanaEffect, delta
<1>2. ASSUME UNCHANGED <<chain, request>>, request \in Request PROVE revalidate(request)' = revalidate(request)
  BY <1>2 DEF revalidate, appliesHere, validateEthereum, validateSolana, allowlisted, listed,
    decodable, validateRecipient, validateApproval, hasAuthorityChange, expectedDeltas
<1>3. CASE ByBinance \/ UNCHANGED connectorVars
  BY <1>1, <1>2, <1>3 DEF ByBinance, connectorVars, onchainState, executeVars, SignedInv, SignedAsApproved
<1>4. ASSUME NEW r \in Request, Execute(r) PROVE SignedInv'
  <2>1. request' = r /\ UNCHANGED <<chain, sent>> /\ ~sent
    BY <1>4 DEF Execute, SignedInv
  <2>2. place' = "ended" \/ (place' = "simulating" /\ revalidate(r))
    BY <1>4 DEF Execute, Finish
  <2>3. revalidate(r)' = revalidate(r)
    BY <2>1 DEF revalidate, appliesHere, validateEthereum, validateSolana, allowlisted, listed,
      decodable, validateRecipient, validateApproval, hasAuthorityChange, expectedDeltas
  <2>. QED  BY <2>1, <2>2, <2>3 DEF SignedInv, SignedAsApproved, revalidate
<1>5. CASE ProviderStep
  BY <1>2, <1>5 DEF ProviderStep, SignedInv, SignedAsApproved
<1>6. CASE Decide
  BY <1>6, DecideSigns
<1>7. CASE SignerAnswers
  BY <1>1, <1>7 DEF SignerAnswers, Finish, SignedInv, SignedAsApproved
<1>8. CASE Surroundings
  BY <1>1, <1>2, <1>8 DEF Surroundings, SignedInv, SignedAsApproved
<1>. QED
  BY <1>3, <1>4, <1>5, <1>6, <1>7, <1>8 DEF NextConnectors, OnChain, NextOnchain, ConnectorStep

\* Whatever is signed does to every holder what the approved intent says, and
\* nothing else to anyone (execute and assertExpectedDeltas of the chain
\* connectors): however the simulated block was reorganised meanwhile, and
\* though a simulation reports only some of the places that do not change.
THEOREM SignsAsApproved == SpecConnectors => []SignedAsApproved
<1>1. InitConnectors => SignedInv
  BY DEF InitConnectors, InitOnchain, SignedInv, SignedAsApproved
<1>2. SignedInv => SignedAsApproved
  BY DEF SignedInv
<1>. QED  BY <1>1, <1>2, SignedNext, EvidenceAlways, PTL DEF SpecConnectors
===============================================================================
