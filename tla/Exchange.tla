------------------------------ MODULE Exchange ------------------------------
(***************************************************************************)
(* What the matching engine promises, without price levels, queues, locks, *)
(* rounds or callbacks: a ledger of orders, the set of orders on offer and *)
(* the moment each of them was offered.  A trade takes place between an    *)
(* order that is not on offer and the order on offer that comes first in   *)
(* price, then in time, on the other side.                                 *)
(***************************************************************************)
EXTENDS Integers

CONSTANTS
    Ids,      \* order ids
    Inputs    \* orders that may be submitted: [side, type, price, stop, qty]

\* What the exchange is given.
InputsAreOrders ==
    Inputs \subseteq [side : {"BUY", "SELL"},
                      type : {"LIMIT", "MARKET", "STOP", "STOP_LIMIT"},
                      price : Nat, stop : Nat, qty : Nat]

VARIABLES
    ledger,   \* every order: what was submitted, plus rem and status
    resting,  \* orders on offer
    arrival,  \* when each order was put on offer
    clock     \* how many orders have been put on offer

evars == <<ledger, resting, arrival, clock>>

Blank == [side |-> "BUY", type |-> "LIMIT", price |-> 0, stop |-> 0,
          qty |-> 0, rem |-> 0, status |-> "NONE"]

Init ==
    /\ ledger = [i \in Ids |-> Blank]
    /\ resting = {}
    /\ arrival = [i \in Ids |-> 0]
    /\ clock = 0

IsStop(o) == o.type \in {"STOP", "STOP_LIMIT"}

\* An order that may still trade or be canceled.
Live(o) == o.status \in {"PENDING", "PARTIAL"}

\* Two orders whose prices allow them to trade.
Compatible(o, r) ==
    /\ o.side # r.side
    /\ \/ o.type = "MARKET"
       \/ o.side = "BUY" /\ o.price >= r.price
       \/ o.side = "SELL" /\ o.price <= r.price

\* Order m is served before order r, on the same side.
Before(m, r) ==
    \/ ledger[m].side = "BUY" /\ ledger[m].price > ledger[r].price
    \/ ledger[m].side = "SELL" /\ ledger[m].price < ledger[r].price
    \/ ledger[m].price = ledger[r].price /\ arrival[m] < arrival[r]

Submit(id, in) ==
    /\ ledger[id].status = "NONE"
    /\ in.qty > 0
    /\ ledger' = [ledger EXCEPT ![id] =
           [side |-> in.side, type |-> in.type, price |-> in.price,
            stop |-> in.stop, qty |-> in.qty, rem |-> in.qty,
            status |-> "PENDING"]]
    /\ UNCHANGED <<resting, arrival, clock>>

\* An order after a fill of q.
Filled(o, q) ==
    [o EXCEPT !.rem = o.rem - q,
              !.status = IF q = o.rem THEN "FILLED" ELSE "PARTIAL"]

Trade(taker, maker, q) ==
    /\ taker \notin resting /\ maker \in resting
    /\ Live(ledger[taker]) /\ ~IsStop(ledger[taker])
    /\ Compatible(ledger[taker], ledger[maker])
    /\ \A r \in resting \ {maker} :
           ledger[r].side = ledger[maker].side => Before(maker, r)
    /\ q > 0 /\ q <= ledger[taker].rem /\ q <= ledger[maker].rem
    /\ ledger' = [ledger EXCEPT ![taker] = Filled(@, q), ![maker] = Filled(@, q)]
    /\ resting' = IF q = ledger[maker].rem THEN resting \ {maker} ELSE resting
    /\ UNCHANGED <<arrival, clock>>

\* Only a limit order that nothing on offer can serve is put on offer.
Offer(id) ==
    /\ id \notin resting
    /\ Live(ledger[id])
    /\ ledger[id].type = "LIMIT"
    /\ \A r \in resting : ~Compatible(ledger[id], ledger[r])
    /\ resting' = resting \cup {id}
    /\ arrival' = [arrival EXCEPT ![id] = clock]
    /\ clock' = clock + 1
    /\ UNCHANGED ledger

Cancel(id) ==
    /\ Live(ledger[id])
    /\ ledger' = [ledger EXCEPT ![id].status = "CANCELED"]
    /\ resting' = resting \ {id}
    /\ UNCHANGED <<arrival, clock>>

\* Untriggered stops become market or limit orders.
Trigger(S) ==
    /\ \A i \in S : IsStop(ledger[i]) /\ Live(ledger[i])
    /\ ledger' = [i \in Ids |->
           IF i \notin S THEN ledger[i]
           ELSE [ledger[i] EXCEPT !.type =
                     IF ledger[i].type = "STOP" THEN "MARKET" ELSE "LIMIT"]]
    /\ UNCHANGED <<resting, arrival, clock>>

Next ==
    \/ \E id \in Ids, in \in Inputs : Submit(id, in)
    \/ \E taker, maker \in Ids :
           \E q \in 1 .. ledger[maker].rem : Trade(taker, maker, q)
    \/ \E id \in Ids : Offer(id) \/ Cancel(id)
    \/ \E S \in SUBSET Ids : Trigger(S)

Spec == Init /\ [][Next]_evars

----------------------------------------------------------------------------
LedgerOrders ==
    [side : {"BUY", "SELL"}, type : {"LIMIT", "MARKET", "STOP", "STOP_LIMIT"},
     price : Nat, stop : Nat, qty : Nat, rem : Nat,
     status : {"NONE", "PENDING", "PARTIAL", "FILLED", "CANCELED"}]

\* The type invariant.
ExchangeTypeOK ==
    /\ ledger \in [Ids -> LedgerOrders]
    /\ resting \subseteq Ids
    /\ arrival \in [Ids -> Nat]
    /\ clock \in Nat

\* Every order on offer is a live limit order with something left, every live
\* order has something left, and nothing is left of a filled one.
LiveExactly ==
    /\ \A r \in resting : Live(ledger[r]) /\ ledger[r].type = "LIMIT"
    /\ \A i \in Ids : /\ Live(ledger[i]) => ledger[i].rem > 0
                      /\ ledger[i].status = "FILLED" => ledger[i].rem = 0

\* No two orders on offer could trade with each other: price priority is never
\* owed to an order that was passed over.
NoCrossedOffers ==
    \A b, a \in resting :
        ledger[b].side = "BUY" /\ ledger[a].side = "SELL"
            => ledger[b].price < ledger[a].price
=============================================================================
