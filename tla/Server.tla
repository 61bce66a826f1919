------------------------------ MODULE Server ------------------------------
(***************************************************************************)
(* The server around one order book: class Server of server/src/server.cpp *)
(* with its three maps sessions_, subscriptions_ and order_owners_, and    *)
(* what clients are told about their orders and trades.                    *)
(*                                                                         *)
(* The io thread runs the handlers of client messages, the removal of      *)
(* closed sessions and the orders the generator posts; the generator's     *)
(* thread cancels the generator's orders.  A handler that calls addOrder   *)
(* runs the book's callbacks before it records the owner of the order.     *)
(*                                                                         *)
(* A client is one connection; a client that reconnects is another one.    *)
(* Sessions are authorised (auth_required_ is off), messages name the one  *)
(* symbol of the book.                                                     *)
(***************************************************************************)
EXTENDS OrderBook

CONSTANTS
    IoThread,    \* the thread that runs io_context
    Clients,     \* connections
    NoClient     \* no connection; also the submitter of generated orders

ASSUME ServerThreads == IoThread \in Threads
ASSUME ClientsAssumption == NoClient \notin Clients

VARIABLES
    link,          \* per client: "new", "open", "closed", "late" (closed, but a
                   \* message received before is still to be handled) or
                   \* "after" (that message has been handled)
    sessions,      \* the clients in sessions_
    subscriptions, \* the clients in subscriptions_
    order_owners,  \* order_owners_: id -> client; NoClient: no entry
    request,       \* handleOrderSubmit in progress: the order, its client and
                   \* the order as it was created
    \* History
    submitter,     \* the client that submitted each order
    told,          \* what the submitter was last told of its order
    heard,         \* quantity of each order in the trades its submitter heard of
    asked          \* orders whose submitter asked to cancel them

serverVars == <<link, sessions, subscriptions, order_owners, request>>
toldVars == <<submitter, told, heard, asked>>
allVars == <<vars, serverVars, toldVars>>

NoRequest == [id |-> NoId, client |-> NoClient, created |-> View(NoOrder)]

SvInit ==
    /\ Init
    /\ link = [c \in Clients |-> "new"]
    /\ sessions = {} /\ subscriptions = {}
    /\ order_owners = [i \in Ids |-> NoClient]
    /\ request = NoRequest
    /\ submitter = [i \in Ids |-> NoClient]
    /\ told = [i \in Ids |-> View(NoOrder)]
    /\ heard = [i \in Ids |-> 0]
    /\ asked = {}

IoFree == pc[IoThread] = "idle" /\ request = NoRequest

----------------------------------------------------------------------------
(* Connections.                                                            *)

acceptConnection(c) ==
    /\ IoFree
    /\ link[c] = "new"
    /\ link' = [link EXCEPT ![c] = "open"]
    /\ sessions' = sessions \cup {c}
    /\ UNCHANGED <<vars, subscriptions, order_owners, request, toldVars>>

\* Mutant of removeSession: forgets about the orders of the client.
RemoveKeepsOwners(c) ==
    /\ sessions' = sessions \ {c}
    /\ subscriptions' = subscriptions \ {c}
    /\ UNCHANGED order_owners

removeSession(c) ==
    /\ sessions' = sessions \ {c}
    /\ subscriptions' = subscriptions \ {c}
    /\ order_owners' = [i \in Ids |-> IF order_owners[i] = c THEN NoClient
                                                             ELSE order_owners[i]]

\* Session::close runs the disconnect callback.  A read that has completed may
\* be waiting behind the handler that closes the session.
Disconnect(c) ==
    /\ IoFree
    /\ link[c] = "open"
    /\ \E rest \in {"late", "closed"} : link' = [link EXCEPT ![c] = rest]
    /\ removeSession(c)
    /\ UNCHANGED <<vars, request, toldVars>>

\* A message of client c is handled; nothing follows one that came late.
Handles(c) ==
    /\ IoFree
    /\ link[c] \in {"open", "late"}
    /\ link' = IF link[c] = "late" THEN [link EXCEPT ![c] = "after"] ELSE link

----------------------------------------------------------------------------
(* Messages.                                                               *)

\* Mutant of Subscribe: handleOrderSubmit does not subscribe its client.
SubscribeNot(c) == UNCHANGED subscriptions

Subscribe(c) == subscriptions' = subscriptions \cup {c}

\* handleOrderSubmit: subscribe, then addOrder.  A zero quantity is refused,
\* but the result of addOrder is ignored.
handleOrderSubmit(c, id, in) ==
    /\ Handles(c)
    /\ Subscribe(c)
    /\ submitter[id] = NoClient /\ order[id].status = "NONE"
    /\ \/ addOrder(IoThread, id, NewOrder(in))
       \/ in.qty = 0 /\ UNCHANGED vars
    /\ request' = [id |-> id, client |-> c, created |-> View(NewOrder(in))]
    /\ submitter' = [submitter EXCEPT ![id] = c]
    /\ UNCHANGED <<sessions, order_owners, told, heard, asked>>

\* addOrder has refused the order a client submitted.
Refused(id) == submitter[id] # NoClient /\ order[id].status = "NONE"

\* Mutant of RecordOwner: no status message follows.
RecordOnly ==
    /\ pc[IoThread] = "idle" /\ request # NoRequest
    /\ order_owners' = [order_owners EXCEPT ![request.id] = request.client]
    /\ request' = NoRequest
    /\ UNCHANGED <<vars, link, sessions, subscriptions, toldVars>>

\* handleOrderSubmit after addOrder has returned and its callbacks have run:
\* record the owner, then send the client the status of its order.  An order
\* that was refused is reported as it was created: PENDING.
RecordOwner ==
    /\ pc[IoThread] = "idle" /\ request # NoRequest
    /\ order_owners' = [order_owners EXCEPT ![request.id] = request.client]
    /\ told' = [told EXCEPT ![request.id] = IF Refused(request.id)
                                            THEN request.created
                                            ELSE View(order[request.id])]
    /\ request' = NoRequest
    /\ UNCHANGED <<vars, link, sessions, subscriptions, submitter, heard, asked>>

\* Mutant of MayCancel: anybody's order.
MayCancelAny(c, id) == submitter[id] # NoClient

\* handleOrderCancel, handleOrderStatus: the client must own the order.
MayCancel(c, id) == order_owners[id] = c

handleOrderCancel(c, id) ==
    /\ Handles(c)
    /\ asked' = IF submitter[id] = c THEN asked \cup {id} ELSE asked
    /\ \/ MayCancel(c, id) /\ CancelOrder(IoThread, id)
       \/ (~MayCancel(c, id) \/ id \notin orders_by_id) /\ UNCHANGED vars
    /\ UNCHANGED <<sessions, subscriptions, order_owners, request, submitter,
                   told, heard>>

handleOrderStatus(c, id) ==
    /\ Handles(c)
    /\ mutex = NoThread
    /\ told' = IF MayCancel(c, id) /\ id \in orders_by_id
               THEN [told EXCEPT ![id] = View(order[id])] ELSE told
    /\ UNCHANGED <<vars, sessions, subscriptions, order_owners, request,
                   submitter, heard, asked>>

\* The snapshot itself is in MarketData.
handleSnapshotRequest(c) ==
    /\ Handles(c)
    /\ subscriptions' = subscriptions \cup {c}
    /\ UNCHANGED <<vars, sessions, order_owners, request, toldVars>>

----------------------------------------------------------------------------
(* The generator: its orders are posted to the io thread, its cancels run  *)
(* on its own thread.                                                      *)

GeneratedOrder(id, in) ==
    /\ IoFree
    /\ in.type = "LIMIT"
    /\ submitter[id] = NoClient
    /\ addOrder(IoThread, id, NewOrder(in))
    /\ UNCHANGED <<serverVars, toldVars>>

GeneratorCancel(t, id) ==
    /\ submitter[id] = NoClient
    /\ CancelOrder(t, id)
    /\ UNCHANGED <<serverVars, toldVars>>

----------------------------------------------------------------------------
(* The book's callbacks.                                                   *)

\* Every connected subscriber is sent the trade, the submitters of its two
\* orders among them.
onTradeExecuted(t) ==
    /\ NotifyTrade(t)
    /\ LET trade == Head(pending_trades[t])
       IN  heard' = [id \in Ids |->
               IF /\ id \in {trade.buy, trade.sell}
                  /\ submitter[id] \in subscriptions \cap sessions
               THEN heard[id] + trade.qty ELSE heard[id]]
    /\ UNCHANGED <<serverVars, submitter, told, asked>>

\* Mutant of Done: a partial fill also ends the ownership.
DoneOrPartial(o) == o.status # "PENDING"

Done(o) == o.status \in {"FILLED", "CANCELED"}

\* The owner, if there is an entry and it is connected, is told; the entry of
\* an order that is done is erased.
onOrderUpdated(id) ==
    LET c == order_owners[id]
    IN  /\ told' = IF c \in sessions THEN [told EXCEPT ![id] = View(order[id])]
                                     ELSE told
        /\ order_owners' = IF c # NoClient /\ Done(order[id])
                           THEN [order_owners EXCEPT ![id] = NoClient]
                           ELSE order_owners

OrderCallback(t) ==
    /\ \/ /\ NotifyUpdate(t)
          /\ IF Head(pending_order_updates[t]) = incoming[t]
             THEN UNCHANGED <<told, order_owners>>
             ELSE onOrderUpdated(Head(pending_order_updates[t]))
       \/ NotifyIncoming(t) /\ onOrderUpdated(incoming[t])
    /\ UNCHANGED <<link, sessions, subscriptions, request, submitter, heard, asked>>

\* The steps of a call under the book's lock.
BookStep(t) ==
    /\ \/ Match(t) \/ Settle(t) \/ EndRound(t)
       \/ TriggerBuy(t) \/ TriggerSell(t) \/ NextPrice(t)
       \/ NextRound(t) \/ Unlock(t)
    /\ UNCHANGED <<serverVars, toldVars>>

\* The snapshot timer: the levels are read (MarketData) and sent.
sendOrderbookSnapshots ==
    /\ IoFree
    /\ mutex = NoThread
    /\ UNCHANGED allVars

----------------------------------------------------------------------------
SvNext ==
    \/ \E c \in Clients : acceptConnection(c) \/ Disconnect(c)
                          \/ handleSnapshotRequest(c)
    \/ \E c \in Clients, id \in Ids :
           handleOrderCancel(c, id) \/ handleOrderStatus(c, id)
    \/ \E c \in Clients, id \in Ids, in \in Inputs : handleOrderSubmit(c, id, in)
    \/ RecordOwner \/ sendOrderbookSnapshots
    \/ \E id \in Ids, in \in Inputs : GeneratedOrder(id, in)
    \/ \E t \in Threads \ {IoThread}, id \in Ids : GeneratorCancel(t, id)
    \/ \E t \in Threads : BookStep(t) \/ onTradeExecuted(t) \/ OrderCallback(t)

SvSpec == SvInit /\ [][SvNext]_allVars

----------------------------------------------------------------------------
\* A client that is still connected, and is not being served, knows the fills
\* and the status of each of its orders, whoever changed them and in whatever
\* order the callbacks ran; the exceptions are triggered stop orders, and orders
\* of quantity zero, which the book refused.
ClientInformed ==
    IoFree => \A id \in Ids :
        submitter[id] \in sessions =>
            told[id] = View(order[id]) \/ Triggered(id) \/ Refused(id)

\* A client that is still connected has been sent every trade of its orders
\* that the book delivered: it is subscribed before its order can trade.
OwnTradesHeard ==
    \A id \in Ids : submitter[id] \in sessions => heard[id] = delivered[id]

\* As long as it is connected a client can cancel each of its orders in the
\* book: the owner entry, written after addOrder and erased by callbacks, is
\* there.
LiveOwned ==
    IoFree => \A id \in Ids :
        submitter[id] \in sessions /\ id \in orders_by_id =>
            order_owners[id] = submitter[id]

\* A limit or stop order of a client is canceled only if that client asked for
\* it: not by another client, nor by the generator's thread.
CanceledOnRequest ==
    \A id \in Ids :
        /\ submitter[id] # NoClient
        /\ order[id].status = "CANCELED" /\ order[id].type # "MARKET"
        => id \in asked

\* Nothing of a closed session stays in the maps, whatever it was doing, unless
\* a message it had received before the close is handled after it.
CleanedUp ==
    IoFree => \A c \in Clients : link[c] \in {"late", "closed"} =>
        c \notin subscriptions /\ \A id \in Ids : order_owners[id] # c

\* server.cpp: "Clean up filled/cancelled orders from ownership map".  Between
\* two requests every entry is of an order that is not done.
OwnersLive ==
    IoFree => \A id \in Ids : order_owners[id] # NoClient => ~Done(order[id])
=============================================================================
