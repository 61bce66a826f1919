---------------------------- MODULE Persistence ----------------------------
(***************************************************************************)
(* The order book with its database: OrderStore (common/src/               *)
(* order_store.cpp) as the server uses it, crashes of the process and the  *)
(* restoration of the active orders by Server::initPersistence.            *)
(*                                                                         *)
(* One thread, IoThread, restores the orders, then runs the requests of    *)
(* clients and the orders of the generator; the generator's own thread     *)
(* cancels the generator's orders.  Only clients' orders have a row.  Each *)
(* SQL statement is a transaction of its own that survives a crash of the  *)
(* process; a crash falls between any two steps of a call.                 *)
(***************************************************************************)
EXTENDS OrderBook

CONSTANTS
    IoThread,     \* the main thread, which runs io_context
    MaxCrashes    \* bound on the number of crashes

ASSUME MainThreadAssumption == IoThread \in Threads
ASSUME CrashesAssumption == MaxCrashes \in Nat

VARIABLES
    row,        \* table orders: the row of each id; status "NONE": no row
    rows,       \* the ids of the table in the order of created_at
    db_traded,  \* table trades: quantity of each order in its rows
    saved,      \* the order handleOrderSubmit has saved and not added yet
    write,      \* per thread: what updateOrder has read and not written yet
    phase,      \* "down", "restoring" (initPersistence), "serving"
    restoring,  \* active orders not yet added again
    crashes,    \* number of crashes
    \* History
    used,       \* the uuids ever given to an order
    dirty,      \* a crash hit a call in progress
    before      \* the book when the process last went down

dbVars == <<row, rows, db_traded>>
runVars == <<saved, write, phase, restoring, crashes, dirty, before>>
pvars == <<vars, dbVars, runVars, used>>

NoWrite == [id |-> NoId, view |-> View(NoOrder)]

\* No call is in progress.
Quiet ==
    /\ \A t \in Threads : pc[t] = "idle" /\ write[t] = NoWrite
    /\ saved = NoId

BookNow == [order |-> order, book |-> book, stops |-> stops,
            triggered |-> {id \in stop_ids : ~isStopOrder(order[id])}]

PInit ==
    /\ Init
    /\ row = [i \in Ids |-> NoOrder]
    /\ rows = <<>>
    /\ db_traded = [i \in Ids |-> 0]
    /\ saved = NoId
    /\ write = [t \in Threads |-> NoWrite]
    /\ phase = "serving"
    /\ restoring = <<>>
    /\ crashes = 0
    /\ used = {}
    /\ dirty = FALSE
    /\ before = BookNow

----------------------------------------------------------------------------
(* Requests.                                                               *)

IoFree ==
    /\ phase = "serving"
    /\ pc[IoThread] = "idle"
    /\ write[IoThread] = NoWrite
    /\ saved = NoId

\* handleOrderSubmit: saveOrder ...
saveOrder(id, in) ==
    /\ IoFree
    /\ id \notin used /\ used' = used \cup {id}
    /\ row' = [row EXCEPT ![id] = NewOrder(in)]
    /\ rows' = Append(rows, id)
    /\ saved' = id
    /\ UNCHANGED <<vars, db_traded, write, phase, restoring, crashes, dirty,
                   before>>

\* ... then addOrder, whose result is ignored: a zero quantity leaves its row.
AddSaved ==
    /\ saved # NoId
    /\ \/ addOrder(IoThread, saved, row[saved])
       \/ row[saved].rem = 0 /\ UNCHANGED vars
    /\ saved' = NoId
    /\ UNCHANGED <<dbVars, write, phase, restoring, crashes, dirty, before,
                   used>>

\* An order of the generator, posted to io_context: a limit order, no row.
AddGenerated(id, in) ==
    /\ IoFree
    /\ id \notin used /\ used' = used \cup {id}
    /\ in.type = "LIMIT"
    /\ addOrder(IoThread, id, NewOrder(in))
    /\ UNCHANGED <<dbVars, runVars>>

\* handleOrderCancel, for an order of a client.
ClientCancel(id) ==
    /\ IoFree
    /\ row[id].status # "NONE"
    /\ CancelOrder(IoThread, id)
    /\ UNCHANGED <<dbVars, runVars, used>>

\* Mutant of GeneratorCancel: the generator's thread cancels any order.
GeneratorCancelsAny(t, id) ==
    /\ phase = "serving"
    /\ write[t] = NoWrite
    /\ CancelOrder(t, id)
    /\ UNCHANGED <<dbVars, runVars, used>>

\* The generator's thread cancels one of the generator's own orders.
GeneratorCancel(t, id) ==
    /\ phase = "serving"
    /\ write[t] = NoWrite
    /\ row[id].status = "NONE"
    /\ CancelOrder(t, id)
    /\ UNCHANGED <<dbVars, runVars, used>>

\* handleOrderCancel of an order that is not in the book: an error message.
CancelRefused ==
    /\ IoFree
    /\ orders_by_id # Ids
    /\ UNCHANGED pvars

----------------------------------------------------------------------------
(* A call in progress.                                                     *)

Work(t) ==
    /\ \/ Match(t) \/ Settle(t) \/ EndRound(t)
       \/ TriggerBuy(t) \/ TriggerSell(t) \/ NextPrice(t)
       \/ NextRound(t) \/ Unlock(t)
    /\ UNCHANGED <<dbVars, runVars, used>>

\* onTradeExecuted: saveTrade.
saveTrade(t) ==
    /\ write[t] = NoWrite
    /\ NotifyTrade(t)
    /\ LET trade == Head(pending_trades[t])
       IN  db_traded' = [db_traded EXCEPT ![trade.buy] = @ + trade.qty,
                                          ![trade.sell] = @ + trade.qty]
    /\ UNCHANGED <<row, rows, runVars, used>>

\* onOrderUpdated: updateOrder reads the order into the statement ...
ReadOrder(t) ==
    /\ write[t] = NoWrite
    /\ \/ /\ NotifyUpdate(t)
          /\ LET id == Head(pending_order_updates[t])
             IN  write' = IF id = incoming[t] THEN write
                          ELSE [write EXCEPT ![t] =
                                    [id |-> id, view |-> View(order[id])]]
       \/ /\ NotifyIncoming(t)
          /\ write' = [write EXCEPT ![t] =
                 [id |-> incoming[t], view |-> View(order[incoming[t]])]]
    /\ UNCHANGED <<dbVars, saved, phase, restoring, crashes, dirty, before,
                   used>>

\* Mutant of updateOrder: the statement does not set remaining_quantity.
UpdateStatusOnly(t) ==
    /\ write[t] # NoWrite
    /\ LET id == write[t].id
           v  == write[t].view
       IN  row' = IF row[id].status = "NONE" THEN row
                  ELSE [row EXCEPT ![id].status = v.status, ![id].type = v.type]
    /\ write' = [write EXCEPT ![t] = NoWrite]
    /\ UNCHANGED <<vars, rows, db_traded, saved, phase, restoring, crashes,
                   dirty, before, used>>

\* ... and runs it: UPDATE ... WHERE id, which changes nothing without a row.
updateOrder(t) ==
    /\ write[t] # NoWrite
    /\ LET id == write[t].id
           v  == write[t].view
       IN  row' = IF row[id].status = "NONE" THEN row
                  ELSE [row EXCEPT ![id].rem = v.rem, ![id].status = v.status,
                                   ![id].type = v.type]
    /\ write' = [write EXCEPT ![t] = NoWrite]
    /\ UNCHANGED <<vars, rows, db_traded, saved, phase, restoring, crashes,
                   dirty, before, used>>

----------------------------------------------------------------------------
(* Crash and restart.                                                      *)

\* What the process holds in memory is gone.
BookLost ==
    /\ order' = [i \in Ids |-> NoOrder]
    /\ orders_by_id' = {}
    /\ book' = [s \in Sides |-> <<>>]
    /\ stops' = [s \in Sides |-> <<>>]
    /\ mutex' = NoThread
    /\ pc' = [t \in Threads |-> "idle"]
    /\ todo' = <<>> /\ mark' = 0 /\ prices' = {} /\ triggered' = <<>>
    /\ pending_trades' = [t \in Threads |-> <<>>]
    /\ pending_order_updates' = [t \in Threads |-> <<>>]
    /\ incoming' = [t \in Threads |-> NoId]
    /\ arrival' = [i \in Ids |-> 0]
    /\ clock' = 0
    /\ traded' = [i \in Ids |-> 0]
    /\ delivered' = [i \in Ids |-> 0]
    /\ reported' = [i \in Ids |-> View(NoOrder)]
    /\ stop_ids' = {}

Crash ==
    /\ phase # "down"
    /\ crashes < MaxCrashes
    /\ phase' = "down"
    /\ crashes' = crashes + 1
    /\ dirty' = (dirty \/ ~Quiet \/ phase = "restoring")
    /\ before' = BookNow
    /\ BookLost
    /\ saved' = NoId
    /\ write' = [t \in Threads |-> NoWrite]
    /\ restoring' = <<>>
    /\ UNCHANGED <<dbVars, used>>

\* Mutant of Active: every order with something left is loaded.
ActiveIfLeft(id) == row[id].rem > 0

Active(id) == row[id].status \in {"PENDING", "PARTIAL"}

\* initPersistence: loadAllActiveOrders, the active rows by created_at.
loadAllActiveOrders ==
    /\ phase = "down"
    /\ phase' = "restoring"
    /\ LET active == {k \in 1 .. Len(rows) : Active(rows[k])}
       IN  \E at \in [1 .. Cardinality(active) -> active] :
               /\ \A i, j \in DOMAIN at : i < j => at[i] < at[j]
               /\ restoring' = [i \in DOMAIN at |-> rows[at[i]]]
    /\ UNCHANGED <<vars, dbVars, saved, write, crashes, dirty, before,
                   used>>

\* Mutant of FromRow: the order comes back with its original quantity.
FromRowInFull(r) == [r EXCEPT !.rem = r.qty, !.status = "PENDING"]

\* The Order made from a row: its quantity is what was left of the old one.
FromRow(r) ==
    LET o == [r EXCEPT !.qty = r.rem, !.status = "PENDING"]
    IN  IF r.rem < r.qty THEN fill(o, 0) ELSE o

\* One turn of initPersistence's loop: addOrder, whose result is ignored.
RestoreNext ==
    /\ phase = "restoring" /\ restoring # <<>>
    /\ pc[IoThread] = "idle" /\ write[IoThread] = NoWrite
    /\ LET id == Head(restoring)
       IN  \/ addOrder(IoThread, id, FromRow(row[id]))
           \/ row[id].rem = 0 /\ UNCHANGED vars
    /\ restoring' = Tail(restoring)
    /\ UNCHANGED <<dbVars, saved, write, phase, crashes, dirty, before,
                   used>>

\* All orders are back: Server::start.
start ==
    /\ phase = "restoring" /\ restoring = <<>> /\ Quiet
    /\ phase' = "serving"
    /\ UNCHANGED <<vars, dbVars, saved, write, restoring, crashes, dirty, before,
                   used>>

----------------------------------------------------------------------------
PNext ==
    \/ \E id \in Ids, in \in Inputs : saveOrder(id, in) \/ AddGenerated(id, in)
    \/ AddSaved \/ CancelRefused
    \/ \E id \in Ids : ClientCancel(id)
    \/ \E t \in Threads \ {IoThread}, id \in Ids : GeneratorCancel(t, id)
    \/ \E t \in Threads : Work(t) \/ saveTrade(t) \/ ReadOrder(t) \/ updateOrder(t)
    \/ Crash \/ loadAllActiveOrders \/ RestoreNext \/ start

PSpec == PInit /\ [][PNext]_pvars

----------------------------------------------------------------------------
\* Some thread will still write the row of order id.
WriteDue(id) == ReportDue(id) \/ \E t \in Threads : write[t].id = id

\* The row of an order in the book is up to date or will be written again, in
\* every interleaving of the io thread and the generator's thread; the one
\* exception is a triggered stop order.
RowsCurrent ==
    \A id \in Ids :
        (row[id].status # "NONE" /\ order[id].status # "NONE") =>
            \/ View(row[id]) = View(order[id])
            \/ WriteDue(id)
            \/ Triggered(id)

\* An order whose row says it is done is not in the book and never comes back,
\* whenever the process crashes.
DoneStaysDone ==
    \A id \in Ids : row[id].status \in {"FILLED", "CANCELED"} =>
        order[id].status \in {"NONE", "FILLED", "CANCELED"}

\* As long as no crash hit a call in progress the two tables agree whenever no
\* call is in progress: what the trades took is what the order lost, restarts
\* included.
TablesBalance ==
    ~dirty /\ Quiet =>
        \A id \in Ids : row[id].status # "NONE" =>
            row[id].rem + db_traded[id] = row[id].qty

\* Order id is at the same place in m as in old, and so is every order of S
\* relative to it.
SamePlace(m, old, S, id) ==
    \A p \in Prices :
        /\ At(m, p, id) <=> At(old, p, id)
        /\ At(m, p, id) =>
               \A i, j \in 1 .. Len(m[p]), k, l \in 1 .. Len(old[p]) :
                   /\ m[p][i] = id /\ old[p][k] = id
                   /\ m[p][j] = old[p][l] /\ old[p][l] \in S
                   => (i < j <=> k < l)

\* The book after a restart, compared with the book before, for the orders in S.
Restored(S) ==
    \A id \in S :
        /\ Open(before.order[id]) <=> Open(order[id])
        /\ Open(order[id]) =>
               /\ order[id].rem = before.order[id].rem
               /\ order[id].status = before.order[id].status
        /\ \A s \in Sides : /\ SamePlace(book[s], before.book[s], S, id)
                            /\ SamePlace(stops[s], before.stops[s], S, id)

\* The clients' orders that the process knew when it went down.
KnownBefore == {id \in Ids : row[id].status # "NONE"
                              /\ before.order[id].status # "NONE"}

\* A restart of a server that was idle brings back every client's order that
\* was not a triggered stop: at its price, with its quantity and status, and in
\* the same order of time priority.
RestartFaithful ==
    [][phase = "restoring" /\ phase' = "serving" /\ ~dirty =>
           Restored(KnownBefore \ before.triggered)]_pvars

\* server.cpp: "Restore active orders from DB into orderbooks".  The same for
\* every client's order.
RestartComplete ==
    [][phase = "restoring" /\ phase' = "serving" /\ ~dirty =>
           Restored(KnownBefore)]_pvars
=============================================================================
