----------------------------- MODULE OrderBook -----------------------------
(***************************************************************************)
(* The matching engine of one symbol: class OrderBook of                   *)
(* common/src/orderbook.cpp and class Order of common/src/order.cpp.       *)
(*                                                                         *)
(* Several threads call addOrder and cancelOrder.  The body of each call   *)
(* runs under mutex_; the trades and the order updates it collected are    *)
(* handed to the callbacks after the mutex is released, so the callbacks   *)
(* of one call interleave with the critical section of another.            *)
(*                                                                         *)
(* addOrder's critical section is cut into one step per executed trade,    *)
(* per order settled and per stop level triggered: a callback that runs    *)
(* outside the lock reads an order in any of these intermediate states.    *)
(* The recursion of processStopOrders is a loop of rounds: the orders of   *)
(* the round (todo) are matched and settled, then the prices traded in     *)
(* that round are scanned for stops, which make up the next round.         *)
(***************************************************************************)
EXTENDS Integers, Sequences, FiniteSets

CONSTANTS
    Threads,     \* threads that call into the book
    NoThread,    \* the mutex is free
    Ids,         \* order ids; each names one Order object
    NoId,        \* no order
    Prices,      \* prices (in ticks) of limit and stop prices, and 0
    Inputs       \* the orders callers submit: [side, type, price, stop, qty]

Sides == {"BUY", "SELL"}
OrderTypes == {"LIMIT", "MARKET", "STOP", "STOP_LIMIT"}
Statuses == {"PENDING", "PARTIAL", "FILLED", "CANCELED"}
Closed == {"FILLED", "CANCELED", "REJECTED"}

(***************************************************************************)
(* The server sends MARKET and STOP orders with price 0, a price the       *)
(* matching engine ignores.  A quantity of zero can be submitted.          *)
(***************************************************************************)
ASSUME ThreadsAssumption == NoThread \notin Threads
ASSUME IdsAssumption == NoId \notin Ids
ASSUME PricesAssumption == Prices \subseteq Nat /\ 0 \in Prices /\ IsFiniteSet(Prices)
ASSUME InputsAssumption ==
    Inputs \subseteq [side : Sides, type : OrderTypes, price : Prices,
                      stop : Prices, qty : Nat]

VARIABLES
    order,          \* the Order objects by id; status "NONE": not created yet
    orders_by_id,   \* the ids in orders_by_id_
    book,           \* bids_ and asks_: side -> price level -> queue of ids
    stops,          \* stop_buy_orders_ and stop_sell_orders_, by stop price
    mutex,          \* holder of mutex_
    pc,             \* where each thread is
    todo,           \* orders of this round not yet settled
    mark,           \* prev_trade_count: trades older than this round
    prices,         \* trade prices of the round still to be scanned
    triggered,      \* stop orders triggered by this scan
    pending_trades, \* per call: trades not yet given to trade_callback_
    pending_order_updates, \* per call: orders not yet given to order_callback_
    incoming,       \* per call: the order the call is about
    \* History, read by no action of the code
    arrival,        \* when each order joined its queue in the book
    clock,          \* number of orders that have joined a queue
    traded,         \* quantity of each order in the trades recorded
    delivered,      \* quantity of each order in the trades given to the callback
    reported,       \* what order_callback_ last saw of each order
    stop_ids        \* orders submitted as stop orders

lockVars == <<todo, mark, prices, triggered>>
callVars == <<pending_trades, pending_order_updates, incoming>>
history == <<arrival, clock, traded, delivered, reported, stop_ids>>
vars == <<order, orders_by_id, book, stops, mutex, pc, lockVars, callVars,
          history>>

----------------------------------------------------------------------------
(* Maps from a price to the queue of orders at that price (std::map of     *)
(* std::vector): a level exists exactly when its price is in the domain.   *)

\* Mutant of PushBack: the newest order goes to the front of its level.
PushFront(m, p, id) ==
    [x \in DOMAIN m \cup {p} |->
        IF x # p THEN m[x]
        ELSE IF p \in DOMAIN m THEN <<id>> \o m[p] ELSE <<id>>]

\* map[price].push_back(id), creating the level when it is missing
PushBack(m, p, id) ==
    [x \in DOMAIN m \cup {p} |->
        IF x # p THEN m[x]
        ELSE IF p \in DOMAIN m THEN Append(m[p], id) ELSE <<id>>]

\* map.erase(price)
EraseLevel(m, p) == [x \in DOMAIN m \ {p} |-> m[x]]

\* the level becomes q, and is erased when q is empty
SetLevel(m, p, q) ==
    IF q = <<>> THEN EraseLevel(m, p) ELSE [m EXCEPT ![p] = q]

\* the queue without its element number i (vector::erase)
EraseAt(q, i) ==
    [j \in 1 .. Len(q) - 1 |-> IF j < i THEN q[j] ELSE q[j + 1]]

\* Mutant of EraseFrom: pop_back instead of erasing the order that was found.
EraseBack(m, p, id) ==
    IF p \in DOMAIN m THEN SetLevel(m, p, EraseAt(m[p], Len(m[p]))) ELSE m

\* std::find, then vector::erase, then erase of an empty level
EraseFrom(m, p, id) ==
    IF p \in DOMAIN m /\ \E i \in 1 .. Len(m[p]) : m[p][i] = id
    THEN LET i == CHOOSE i \in 1 .. Len(m[p]) :
                    /\ m[p][i] = id
                    /\ \A j \in 1 .. i - 1 : m[p][j] # id
         IN  SetLevel(m, p, EraseAt(m[p], i))
    ELSE m

InQueue(q, id) == \E i \in 1 .. Len(q) : q[i] = id

Lowest(S) == CHOOSE p \in S : \A x \in S : p <= x
Highest(S) == CHOOSE p \in S : \A x \in S : x <= p

\* asks_.begin() for asks, bids_.rbegin() for bids
BestPrice(side) ==
    IF side = "BUY" THEN Highest(DOMAIN book[side])
                    ELSE Lowest(DOMAIN book[side])

Opposite(side) == IF side = "BUY" THEN "SELL" ELSE "BUY"

----------------------------------------------------------------------------
(* Order: the operations of one Order object.                              *)

NoOrder == [side |-> "BUY", type |-> "LIMIT", price |-> 0, stop |-> 0,
            qty |-> 0, rem |-> 0, status |-> "NONE"]

NewOrder(in) ==
    [side |-> in.side, type |-> in.type, price |-> in.price, stop |-> in.stop,
     qty |-> in.qty, rem |-> in.qty, status |-> "PENDING"]

isStopOrder(o) == o.type \in {"STOP", "STOP_LIMIT"}

\* Mutant of fill: the subtraction is the wrong way round.
FillSwapped(o, q) ==
    IF o.status \in Closed \/ q > o.rem THEN o
    ELSE [o EXCEPT !.rem = q - @,
                   !.status = IF o.rem - q = 0 THEN "FILLED" ELSE "PARTIAL"]

\* Mutant of fill: a fill of exactly what is left is refused.
FillRefusesLast(o, q) ==
    IF o.status \in Closed \/ q >= o.rem THEN o
    ELSE [o EXCEPT !.rem = @ - q, !.status = "PARTIAL"]

\* Order::fill refuses a closed order and more than what is left; the
\* caller does not look at the result.
fill(o, q) ==
    IF o.status \in Closed \/ q > o.rem THEN o
    ELSE [o EXCEPT !.rem = @ - q,
                   !.status = IF o.rem - q = 0 THEN "FILLED" ELSE "PARTIAL"]

\* Order::cancel
cancel(o) == IF o.status \in Closed THEN o ELSE [o EXCEPT !.status = "CANCELED"]

\* Order::trigger
trigger(o) ==
    [o EXCEPT !.type = CASE @ = "STOP" -> "MARKET"
                         [] @ = "STOP_LIMIT" -> "LIMIT"
                         [] OTHER -> @]

\* What a callback sees of an order.
View(o) == [type |-> o.type, rem |-> o.rem, status |-> o.status]

----------------------------------------------------------------------------
Init ==
    /\ order = [i \in Ids |-> NoOrder]
    /\ orders_by_id = {}
    /\ book = [s \in Sides |-> <<>>]
    /\ stops = [s \in Sides |-> <<>>]
    /\ mutex = NoThread
    /\ pc = [t \in Threads |-> "idle"]
    /\ todo = <<>>
    /\ mark = 0
    /\ prices = {}
    /\ triggered = <<>>
    /\ pending_trades = [t \in Threads |-> <<>>]
    /\ pending_order_updates = [t \in Threads |-> <<>>]
    /\ incoming = [t \in Threads |-> NoId]
    /\ arrival = [i \in Ids |-> 0]
    /\ clock = 0
    /\ traded = [i \in Ids |-> 0]
    /\ delivered = [i \in Ids |-> 0]
    /\ reported = [i \in Ids |-> View(NoOrder)]
    /\ stop_ids = {}

(***************************************************************************)
(* addOrder(o), up to the first matching step.  A zero quantity and an id  *)
(* already in orders_by_id_ return false and change nothing.  Callers use  *)
(* a fresh uuid for each Order object.  A stop order is only stored and    *)
(* the mutex is released; any other order starts the first round.          *)
(***************************************************************************)
Accepts(id, o) ==
    /\ o.rem > 0
    /\ id \notin orders_by_id
    /\ order[id].status = "NONE"

AddStop(t, id, o) ==
    /\ pc[t] = "idle"
    /\ mutex = NoThread
    /\ Accepts(id, o)
    /\ isStopOrder(o)
    /\ order' = [order EXCEPT ![id] = o]
    /\ orders_by_id' = orders_by_id \cup {id}
    /\ stops' = [stops EXCEPT ![o.side] = PushBack(@, o.stop, id)]
    /\ pc' = [pc EXCEPT ![t] = "notify"]
    /\ incoming' = [incoming EXCEPT ![t] = id]
    /\ stop_ids' = stop_ids \cup {id}
    /\ UNCHANGED <<book, mutex, lockVars, pending_trades,
                   pending_order_updates, arrival, clock, traded, delivered,
                   reported>>

AddPlain(t, id, o) ==
    /\ pc[t] = "idle"
    /\ mutex = NoThread
    /\ Accepts(id, o)
    /\ ~isStopOrder(o)
    /\ order' = [order EXCEPT ![id] = o]
    /\ orders_by_id' = orders_by_id \cup {id}
    /\ mutex' = t
    /\ pc' = [pc EXCEPT ![t] = "match"]
    /\ todo' = <<id>>
    /\ mark' = 0
    /\ incoming' = [incoming EXCEPT ![t] = id]
    /\ UNCHANGED <<book, stops, prices, triggered, pending_trades,
                   pending_order_updates, history>>

addOrder(t, id, o) == AddStop(t, id, o) \/ AddPlain(t, id, o)

\* Mutant of Matchable: an order at the best price of the other side does not
\* trade.
MatchableBetter(o) ==
    LET best == BestPrice(Opposite(o.side))
    IN  /\ o.rem > 0
        /\ DOMAIN book[Opposite(o.side)] # {}
        /\ \/ o.type = "MARKET"
           \/ o.side = "BUY" /\ o.price > best
           \/ o.side = "SELL" /\ o.price < best

(***************************************************************************)
(* matchOrder: can order o trade with the best level of the other side?    *)
(***************************************************************************)
Matchable(o) ==
    LET best == BestPrice(Opposite(o.side))
    IN  /\ o.rem > 0
        /\ DOMAIN book[Opposite(o.side)] # {}
        /\ \/ o.type = "MARKET"
           \/ o.side = "BUY" /\ o.price >= best
           \/ o.side = "SELL" /\ o.price <= best

(***************************************************************************)
(* One turn of matchOrder's inner loop: executeTrade with the front order  *)
(* of the best level, which leaves the queue and orders_by_id_ when it is  *)
(* filled; an empty level is erased.                                       *)
(***************************************************************************)
Match(t) ==
    /\ pc[t] = "match"
    /\ todo # <<>>
    /\ Matchable(order[Head(todo)])
    /\ LET taker == Head(todo)
           other == Opposite(order[taker].side)
           level == BestPrice(other)
           queue == book[other][level]
           maker == Head(queue)
           q     == IF order[taker].rem <= order[maker].rem
                    THEN order[taker].rem ELSE order[maker].rem
           bought == IF other = "SELL" THEN taker ELSE maker
           sold   == IF other = "SELL" THEN maker ELSE taker
           trade == [buy |-> bought, sell |-> sold,
                     price |-> order[maker].price, qty |-> q]
       IN  /\ order' = [order EXCEPT ![taker] = fill(@, q), ![maker] = fill(@, q)]
           /\ traded' = [traded EXCEPT ![taker] = @ + q, ![maker] = @ + q]
           /\ pending_trades' = [pending_trades EXCEPT ![t] =
                  IF q > 0 THEN Append(@, trade) ELSE @]
           /\ pending_order_updates' = [pending_order_updates EXCEPT ![t] =
                  IF q > 0 THEN @ \o <<bought, sold>> ELSE @]
           /\ IF order'[maker].rem = 0
              THEN /\ book' = [book EXCEPT ![other] =
                                   SetLevel(@, level, Tail(queue))]
                   /\ orders_by_id' = orders_by_id \ {maker}
              ELSE UNCHANGED <<book, orders_by_id>>
    /\ UNCHANGED <<stops, mutex, pc, lockVars, incoming, arrival, clock,
                   delivered, reported, stop_ids>>

(***************************************************************************)
(* The order cannot match further: what is left of a limit order joins the *)
(* book (addOrderToBook), what is left of a market order is canceled, and  *)
(* an order that is done leaves orders_by_id_.                             *)
(***************************************************************************)
addOrderToBook(id) ==
    /\ book' = [book EXCEPT ![order[id].side] = PushBack(@, order[id].price, id)]
    /\ arrival' = [arrival EXCEPT ![id] = clock]
    /\ clock' = clock + 1

Settle(t) ==
    /\ pc[t] = "match"
    /\ todo # <<>>
    /\ ~Matchable(order[Head(todo)])
    /\ LET id == Head(todo)
           o  == order[id]
       IN  IF o.rem > 0 /\ o.status \notin {"FILLED", "CANCELED"}
           THEN IF o.type = "MARKET"
                THEN /\ order' = [order EXCEPT ![id] = cancel(o)]
                     /\ orders_by_id' = orders_by_id \ {id}
                     /\ UNCHANGED <<book, arrival, clock>>
                ELSE /\ addOrderToBook(id)
                     /\ UNCHANGED <<order, orders_by_id>>
           ELSE /\ orders_by_id' = orders_by_id \ {id}
                /\ UNCHANGED <<order, book, arrival, clock>>
    /\ todo' = Tail(todo)
    /\ UNCHANGED <<stops, mutex, pc, mark, prices, triggered, callVars,
                   traded, delivered, reported, stop_ids>>

(***************************************************************************)
(* All orders of the round are settled: processStopOrders starts on the    *)
(* set of prices traded in this round.                                     *)
(***************************************************************************)
EndRound(t) ==
    /\ pc[t] = "match"
    /\ todo = <<>>
    /\ prices' = {pending_trades[t][k].price :
                      k \in mark + 1 .. Len(pending_trades[t])}
    /\ pc' = [pc EXCEPT ![t] = "scan"]
    /\ UNCHANGED <<order, orders_by_id, book, stops, mutex, todo, mark,
                   triggered, callVars, history>>

\* Mutant of CrossedBy: the two comparisons are swapped.
CrossedSwapped(side, p) ==
    IF side = "BUY" THEN {s \in DOMAIN stops[side] : s >= p}
                    ELSE {s \in DOMAIN stops[side] : s <= p}

\* Mutant of CrossedBy: a trade at exactly the stop price does not count.
CrossedStrict(side, p) ==
    IF side = "BUY" THEN {s \in DOMAIN stops[side] : s < p}
                    ELSE {s \in DOMAIN stops[side] : s > p}

(***************************************************************************)
(* processStopOrders, its scan: the prices in ascending order; for each of *)
(* them the stop buys at or below it from the lowest, then the stop sells  *)
(* at or above it from the highest.                                        *)
(***************************************************************************)
CrossedBy(side, p) ==
    IF side = "BUY" THEN {s \in DOMAIN stops[side] : s <= p}
                    ELSE {s \in DOMAIN stops[side] : s >= p}

TriggerLevel(side, s) ==
    LET queue == stops[side][s]
    IN  /\ order' = [i \in Ids |-> IF InQueue(queue, i) THEN trigger(order[i])
                                                         ELSE order[i]]
        /\ triggered' = triggered \o queue
        /\ stops' = [stops EXCEPT ![side] = EraseLevel(@, s)]

TriggerBuy(t) ==
    /\ pc[t] = "scan"
    /\ prices # {}
    /\ LET crossed == CrossedBy("BUY", Lowest(prices))
       IN  crossed # {} /\ TriggerLevel("BUY", Lowest(crossed))
    /\ UNCHANGED <<orders_by_id, book, mutex, pc, todo, mark, prices, callVars,
                   history>>

TriggerSell(t) ==
    /\ pc[t] = "scan"
    /\ prices # {}
    /\ CrossedBy("BUY", Lowest(prices)) = {}
    /\ LET crossed == CrossedBy("SELL", Lowest(prices))
       IN  crossed # {} /\ TriggerLevel("SELL", Highest(crossed))
    /\ UNCHANGED <<orders_by_id, book, mutex, pc, todo, mark, prices, callVars,
                   history>>

\* Mutant of NextPrice: the iterator over the prices is not advanced.
NextPriceStuck(t) ==
    /\ pc[t] = "scan"
    /\ prices # {}
    /\ \A side \in Sides : CrossedBy(side, Lowest(prices)) = {}
    /\ UNCHANGED vars

NextPrice(t) ==
    /\ pc[t] = "scan"
    /\ prices # {}
    /\ \A side \in Sides : CrossedBy(side, Lowest(prices)) = {}
    /\ prices' = prices \ {Lowest(prices)}
    /\ UNCHANGED <<order, orders_by_id, book, stops, mutex, pc, todo, mark,
                   triggered, callVars, history>>

\* The triggered orders are the next round.
NextRound(t) ==
    /\ pc[t] = "scan"
    /\ prices = {}
    /\ triggered # <<>>
    /\ todo' = triggered
    /\ triggered' = <<>>
    /\ mark' = Len(pending_trades[t])
    /\ pc' = [pc EXCEPT ![t] = "match"]
    /\ UNCHANGED <<order, orders_by_id, book, stops, mutex, prices, callVars,
                   history>>

\* Nothing triggered: the critical section ends.
Unlock(t) ==
    /\ pc[t] = "scan"
    /\ prices = {}
    /\ triggered = <<>>
    /\ mutex' = NoThread
    /\ mark' = 0
    /\ pc' = [pc EXCEPT ![t] = "notify"]
    /\ UNCHANGED <<order, orders_by_id, book, stops, todo, prices, triggered,
                   callVars, history>>

\* Mutant of NotifyTrade: the trades are dropped after the first callback.
NotifyFirstTrade(t) ==
    /\ pc[t] = "notify"
    /\ pending_trades[t] # <<>>
    /\ LET trade == Head(pending_trades[t])
       IN  delivered' = [delivered EXCEPT ![trade.buy] = @ + trade.qty,
                                          ![trade.sell] = @ + trade.qty]
    /\ pending_trades' = [pending_trades EXCEPT ![t] = <<>>]
    /\ UNCHANGED <<order, orders_by_id, book, stops, mutex, pc, lockVars,
                   pending_order_updates, incoming, arrival, clock, traded,
                   reported, stop_ids>>

(***************************************************************************)
(* The callbacks, outside the lock: every trade in order, every collected  *)
(* order update except the incoming order's, then the incoming order.      *)
(* order_callback_ reads the order as it is at that moment.                *)
(***************************************************************************)
NotifyTrade(t) ==
    /\ pc[t] = "notify"
    /\ pending_trades[t] # <<>>
    /\ LET trade == Head(pending_trades[t])
       IN  delivered' = [delivered EXCEPT ![trade.buy] = @ + trade.qty,
                                          ![trade.sell] = @ + trade.qty]
    /\ pending_trades' = [pending_trades EXCEPT ![t] = Tail(@)]
    /\ UNCHANGED <<order, orders_by_id, book, stops, mutex, pc, lockVars,
                   pending_order_updates, incoming, arrival, clock, traded,
                   reported, stop_ids>>

\* Mutant of NotifyUpdate: skips every order but the incoming one.
NotifyOnlyIncoming(t) ==
    /\ pc[t] = "notify"
    /\ pending_trades[t] = <<>>
    /\ pending_order_updates[t] # <<>>
    /\ pending_order_updates' = [pending_order_updates EXCEPT ![t] = Tail(@)]
    /\ UNCHANGED <<order, orders_by_id, book, stops, mutex, pc, lockVars,
                   pending_trades, incoming, history>>

NotifyUpdate(t) ==
    /\ pc[t] = "notify"
    /\ pending_trades[t] = <<>>
    /\ pending_order_updates[t] # <<>>
    /\ LET id == Head(pending_order_updates[t])
       IN  reported' = IF id = incoming[t] THEN reported
                       ELSE [reported EXCEPT ![id] = View(order[id])]
    /\ pending_order_updates' = [pending_order_updates EXCEPT ![t] = Tail(@)]
    /\ UNCHANGED <<order, orders_by_id, book, stops, mutex, pc, lockVars,
                   pending_trades, incoming, arrival, clock, traded, delivered,
                   stop_ids>>

\* The last callback; the call returns true.
NotifyIncoming(t) ==
    /\ pc[t] = "notify"
    /\ pending_trades[t] = <<>>
    /\ pending_order_updates[t] = <<>>
    /\ reported' = [reported EXCEPT ![incoming[t]] = View(order[incoming[t]])]
    /\ incoming' = [incoming EXCEPT ![t] = NoId]
    /\ pc' = [pc EXCEPT ![t] = "idle"]
    /\ UNCHANGED <<order, orders_by_id, book, stops, mutex, lockVars,
                   pending_trades, pending_order_updates, arrival, clock,
                   traded, delivered, stop_ids>>

(***************************************************************************)
(* cancelOrder: its whole critical section, then the callback.  An unknown *)
(* id and an order that cannot be canceled return false.                   *)
(***************************************************************************)
CancelOrder(t, id) ==
    LET o == order[id]
    IN  /\ pc[t] = "idle"
        /\ mutex = NoThread
        /\ id \in orders_by_id
        /\ o.status \notin Closed
        /\ order' = [order EXCEPT ![id] = cancel(o)]
        /\ orders_by_id' = orders_by_id \ {id}
        /\ IF isStopOrder(o)
           THEN /\ stops' = [stops EXCEPT ![o.side] = EraseFrom(@, o.stop, id)]
                /\ UNCHANGED book
           ELSE /\ book' = [book EXCEPT ![o.side] = EraseFrom(@, o.price, id)]
                /\ UNCHANGED stops
        /\ incoming' = [incoming EXCEPT ![t] = id]
        /\ pc' = [pc EXCEPT ![t] = "notify"]
        /\ UNCHANGED <<mutex, lockVars, pending_trades, pending_order_updates,
                       history>>

\* The early returns: a zero quantity, an id already in orders_by_id_, an id
\* that is not there (cancelOrder).  Nothing changes.
ReturnFalse(t) ==
    /\ pc[t] = "idle"
    /\ \/ \E in \in Inputs : in.qty = 0
       \/ mutex = NoThread /\ orders_by_id # {}
       \/ mutex = NoThread /\ orders_by_id # Ids
    /\ UNCHANGED vars

----------------------------------------------------------------------------
\* The rest of a call once it has begun.
Step(t) ==
    \/ Match(t) \/ Settle(t) \/ EndRound(t)
    \/ TriggerBuy(t) \/ TriggerSell(t) \/ NextPrice(t)
    \/ NextRound(t) \/ Unlock(t)
    \/ NotifyTrade(t) \/ NotifyUpdate(t) \/ NotifyIncoming(t)

Call(t) ==
    \/ \E id \in Ids, in \in Inputs : addOrder(t, id, NewOrder(in))
    \/ \E id \in Ids : CancelOrder(t, id)
    \/ ReturnFalse(t)

Next == \E t \in Threads : Call(t) \/ Step(t)

Spec == Init /\ [][Next]_vars

----------------------------------------------------------------------------
(* Where an order is.                                                      *)

\* Order id is in the queue of price p of map m.
At(m, p, id) == p \in DOMAIN m /\ InQueue(m[p], id)

Resting(id) == \E s \in Sides, p \in Prices : At(book[s], p, id)

Stored(id) == \E s \in Sides, p \in Prices : At(stops[s], p, id)

InFlight(id) == InQueue(todo, id) \/ InQueue(triggered, id)

Open(o) == o.status \in {"PENDING", "PARTIAL"} /\ o.rem > 0

NoRepeat(q) == \A i, j \in 1 .. Len(q) : q[i] = q[j] => i = j

\* No level of the map is empty, no order is twice in a level.
WellFormed(m) == \A p \in DOMAIN m : m[p] # <<>> /\ NoRepeat(m[p])

IsLevelMap(m) == DOMAIN m \subseteq Prices /\ m \in [DOMAIN m -> Seq(Ids)]

Trades == [buy : Ids, sell : Ids, price : Prices, qty : Nat]

(***************************************************************************)
(* Type invariant.  No order is ever REJECTED, and only the lock holder is *)
(* inside the critical section.                                            *)
(***************************************************************************)
Orders == [side : Sides, type : OrderTypes, price : Prices, stop : Prices,
           qty : Nat, rem : Nat,
           status : Statuses \cup {"NONE"}]

Views == [type : OrderTypes, rem : Nat, status : Statuses \cup {"NONE"}]

TypeOK ==
    /\ order \in [Ids -> Orders]
    /\ orders_by_id \subseteq Ids
    /\ DOMAIN book = Sides /\ \A s \in Sides : IsLevelMap(book[s])
    /\ DOMAIN stops = Sides /\ \A s \in Sides : IsLevelMap(stops[s])
    /\ mutex \in Threads \cup {NoThread}
    /\ pc \in [Threads -> {"idle", "match", "scan", "notify"}]
    /\ todo \in Seq(Ids)
    /\ mark \in Nat
    /\ prices \subseteq Prices
    /\ triggered \in Seq(Ids)
    /\ pending_trades \in [Threads -> Seq(Trades)]
    /\ pending_order_updates \in [Threads -> Seq(Ids)]
    /\ incoming \in [Threads -> Ids \cup {NoId}]
    /\ arrival \in [Ids -> Nat]
    /\ clock \in Nat
    /\ traded \in [Ids -> Nat]
    /\ delivered \in [Ids -> Nat]
    /\ reported \in [Ids -> Views]
    /\ stop_ids \subseteq Ids

(***************************************************************************)
(* Mutual exclusion, and whose the working state of the critical section   *)
(* is: only the holder of mutex_ matches or scans, and nothing is left     *)
(* half done when the mutex is free.                                       *)
(***************************************************************************)
MutualExclusion ==
    /\ \A t \in Threads : pc[t] \in {"match", "scan"} <=> mutex = t
    /\ mutex = NoThread => todo = <<>> /\ prices = {} /\ triggered = <<>>
    /\ \A t \in Threads : /\ pc[t] = "match" => prices = {} /\ triggered = <<>>
                          /\ pc[t] = "scan" => todo = <<>>

(***************************************************************************)
(* bids_ and asks_ hold only live limit orders, each once, on its own side *)
(* and at its own price, and no level is empty (matchOrder's loop would    *)
(* spin on an empty best level).                                           *)
(***************************************************************************)
BookSound ==
    \A s \in Sides :
        /\ WellFormed(book[s])
        /\ \A p \in Prices, id \in Ids : At(book[s], p, id) =>
               /\ order[id].side = s
               /\ order[id].price = p
               /\ order[id].type = "LIMIT"
               /\ Open(order[id])

\* The stop maps hold only untriggered, untouched stop orders, each once, on
\* its side and at its stop price.
StopsSound ==
    \A s \in Sides :
        /\ WellFormed(stops[s])
        /\ \A p \in Prices, id \in Ids : At(stops[s], p, id) =>
               /\ order[id].side = s
               /\ order[id].stop = p
               /\ isStopOrder(order[id])
               /\ order[id].status = "PENDING"
               /\ Open(order[id])

\* The orders of a round are triggered or plain, in no map, each once; all but
\* the one being matched are open, and that one is open until it is filled.
FlightSound ==
    /\ NoRepeat(todo) /\ NoRepeat(triggered)
    /\ \A id \in Ids : InFlight(id) =>
           ~isStopOrder(order[id]) /\ ~Resting(id) /\ ~Stored(id)
    /\ \A i \in 1 .. Len(todo) :
           \/ Open(order[todo[i]])
           \/ i = 1 /\ order[todo[i]].status = "FILLED" /\ order[todo[i]].rem = 0
    /\ \A i \in 1 .. Len(triggered) : Open(order[triggered[i]])

\* orders_by_id_ indexes exactly the orders that are resting, stored or being
\* matched: none leaks after it is done, none that could be canceled is missing.
IndexExact ==
    \A id \in Ids :
        id \in orders_by_id <=> Resting(id) \/ Stored(id) \/ InFlight(id)

\* All four: every order is in the one place where its state says it is, and
\* the index agrees (addOrder, cancelOrder, processStopOrders).
MapsSound == BookSound /\ StopsSound /\ FlightSound /\ IndexExact

\* The book is never crossed, not even between two steps of one addOrder.
Uncrossed ==
    \A b \in DOMAIN book["BUY"], a \in DOMAIN book["SELL"] : b < a

\* executeTrade ignores what Order::fill returns, yet no fill is ever refused:
\* the quantity recorded in trades is what left the order.
Conservation ==
    \A id \in Ids : /\ order[id].rem + traded[id] = order[id].qty
                    /\ order[id].status = "NONE" => order[id].qty = 0

----------------------------------------------------------------------------
(* Stop orders.                                                            *)

Crosses(o, p) == IF o.side = "BUY" THEN p >= o.stop ELSE p <= o.stop

\* A stop order is triggered only by a trade of the running call at a price
\* that reaches its stop price.
StopsJustified ==
    [][\A id \in Ids : isStopOrder(order[id]) /\ ~isStopOrder(order'[id]) =>
           \E k \in 1 .. Len(pending_trades[mutex]) :
               Crosses(order[id], pending_trades[mutex][k].price)]_vars

\* When addOrder leaves its critical section no stop order remains that one of
\* the call's trades, cascades included, should have triggered.
StopsExhausted ==
    [][\A t \in Threads : mutex = t /\ mutex' # t =>
           \A id \in Ids : Stored(id) =>
               \A k \in 1 .. Len(pending_trades[t]) :
                   ~Crosses(order[id], pending_trades[t][k].price)]_vars

----------------------------------------------------------------------------
(* The callbacks.                                                          *)

\* One element for each unit of order id in a trade still to be delivered.
Undelivered(id) ==
    UNION {UNION {{<<t, k, u>> : u \in 1 .. pending_trades[t][k].qty} :
                      k \in {j \in 1 .. Len(pending_trades[t]) :
                                id \in {pending_trades[t][j].buy,
                                       pending_trades[t][j].sell}}} :
               t \in Threads}

\* Every executed quantity reaches the trade callback exactly once: what is not
\* delivered yet is still held by some call.
TradesDelivered ==
    \A id \in Ids :
        traded[id] = delivered[id] + Cardinality(Undelivered(id))

\* Some call in progress will still report order id.
ReportDue(id) ==
    \E t \in Threads :
        incoming[t] = id \/ InQueue(pending_order_updates[t], id)

\* A stop order that was triggered: settling it adds no order update.
Triggered(id) == id \in stop_ids /\ ~isStopOrder(order[id])

\* Whenever the callback's last view of an order is out of date a call in
\* progress still owes it a report, whatever the interleaving of calls; the one
\* exception is a stop order that was triggered.
ReportsOwed ==
    \A id \in Ids :
        \/ reported[id] = View(order[id])
        \/ ReportDue(id)
        \/ Triggered(id)

\* Every call returns: matching stops and cascades of stops run out.
CallsReturn == \A t \in Threads : pc[t] # "idle" ~> pc[t] = "idle"

----------------------------------------------------------------------------
(* The book implements the exchange.                                       *)

RestingIds == {id \in Ids : Resting(id)}

Ex == INSTANCE Exchange WITH ledger <- order, resting <- RestingIds

\* Every step of the book is a step of the exchange: strict price-time
\* priority, prices within both limits, equal fills, final states final.
ImplementsExchange == Ex!Spec
=============================================================================
