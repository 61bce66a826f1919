---------------------------- MODULE ServerProofs ----------------------------
(***************************************************************************)
(* Proofs about Server, for any clients, threads, orders and inputs: the   *)
(* book inside the server runs as OrderBook says, and what clients are     *)
(* told, hear, own and cancel agrees with it.                              *)
(*                                                                         *)
(* The handlers and callbacks share three maps that change at different    *)
(* moments of one request.  ServerInv says how they are related at every   *)
(* step: an owner entry is the submitter's or missing (OwnersRight), and   *)
(* it is missing only while the request runs or once the order is done and *)
(* its client knows it (OwnedOrDone).                                      *)
(***************************************************************************)
EXTENDS Server, OrderBookProofs

Links == {"new", "open", "closed", "late", "after"}

ServerType ==
    /\ link \in [Clients -> Links]
    /\ sessions \subseteq Clients
    /\ subscriptions \subseteq Clients
    /\ order_owners \in [Ids -> Clients \cup {NoClient}]
    /\ submitter \in [Ids -> Clients \cup {NoClient}]
    /\ DOMAIN told = Ids
    /\ heard \in [Ids -> Nat]
    /\ asked \subseteq Ids

\* The request in progress is of the client that submitted its order.
RequestRight ==
    \/ request = NoRequest
    \/ /\ request.id \in Ids /\ request.client \in Clients
       /\ submitter[request.id] = request.client

\* A session in the maps is open; of one that is closed nothing is left, and of
\* one to come there is nothing yet.
LinksRight ==
    \A c \in Clients :
        /\ c \in sessions => link[c] = "open"
        /\ link[c] = "new" => \A id \in Ids : submitter[id] # c
        /\ link[c] \in {"new", "late", "closed"} =>
               /\ c \notin subscriptions
               /\ \A id \in Ids : order_owners[id] # c
               /\ request # NoRequest => request.client # c

OwnersRight == \A id \in Ids : order_owners[id] \in {NoClient, submitter[id]}

\* A connected client owns each of its orders, but for the one being submitted
\* and for those that are done, of which it knows.
OwnedOrDone ==
    \A id \in Ids : submitter[id] \in sessions /\ id # request.id =>
        \/ order_owners[id] = submitter[id]
        \/ Done(order[id]) /\ told[id] = View(order[id])

\* A connected client was told what the order callback saw last.
ToldReported ==
    \A id \in Ids : submitter[id] \in sessions /\ id # request.id =>
        told[id] = reported[id] \/ Triggered(id) \/ Refused(id)

\* A connected client with an order is subscribed and has heard its trades; no
\* other order's trades are counted.
TradesHeard ==
    \A id \in Ids :
        /\ submitter[id] \in sessions =>
               submitter[id] \in subscriptions /\ heard[id] = delivered[id]
        /\ submitter[id] = NoClient => heard[id] = 0

\* Threads other than the io thread only cancel orders of the generator, and no
\* call that has returned leaves updates behind.
OtherThreads ==
    /\ \A t \in Threads : pc[t] = "idle" => pending_order_updates[t] = <<>>
    /\ \A t \in Threads \ {IoThread} :
           /\ pc[t] \in {"idle", "notify"}
           /\ pending_order_updates[t] = <<>>
           /\ incoming[t] \in Ids =>
                  /\ submitter[incoming[t]] = NoClient
                  /\ order[incoming[t]].status # "NONE"

ServerInv ==
    /\ ServerType
    /\ RequestRight
    /\ LinksRight
    /\ OwnersRight
    /\ OwnedOrDone
    /\ ToldReported
    /\ TradesHeard
    /\ OtherThreads
    /\ CanceledOnRequest

----------------------------------------------------------------------------
(* The book inside the server.                                             *)

\* The handlers and callbacks reach the book through addOrder, cancelOrder and
\* the steps that follow them: the server adds no other change.
LEMMA ServerStepIsBookStep == [SvNext]_allVars => [Next]_vars
<1> SUFFICES ASSUME [SvNext]_allVars PROVE [Next]_vars
  OBVIOUS
<1>0. IoThread \in Threads
  BY ServerThreads
<1>1. CASE UNCHANGED allVars
  BY <1>1 DEF allVars
<1>2. ASSUME NEW c \in Clients,
             acceptConnection(c) \/ Disconnect(c) \/ handleSnapshotRequest(c)
      PROVE  [Next]_vars
  BY <1>2 DEF acceptConnection, Disconnect, handleSnapshotRequest
<1>3. ASSUME NEW c \in Clients, NEW id \in Ids,
             handleOrderCancel(c, id) \/ handleOrderStatus(c, id)
      PROVE  [Next]_vars
  BY <1>0, <1>3 DEF handleOrderCancel, handleOrderStatus, Next, Call
<1>4. ASSUME NEW c \in Clients, NEW id \in Ids, NEW in \in Inputs,
             handleOrderSubmit(c, id, in)
      PROVE  [Next]_vars
  BY <1>0, <1>4 DEF handleOrderSubmit, Next, Call
<1>5. CASE RecordOwner \/ sendOrderbookSnapshots
  BY <1>5 DEF RecordOwner, sendOrderbookSnapshots, allVars
<1>6. ASSUME NEW id \in Ids, NEW in \in Inputs, GeneratedOrder(id, in)
      PROVE  [Next]_vars
  BY <1>0, <1>6 DEF GeneratedOrder, Next, Call
<1>7. ASSUME NEW t \in Threads \ {IoThread}, NEW id \in Ids, GeneratorCancel(t, id)
      PROVE  [Next]_vars
  BY <1>7 DEF GeneratorCancel, Next, Call
<1>8. ASSUME NEW t \in Threads,
             BookStep(t) \/ onTradeExecuted(t) \/ OrderCallback(t)
      PROVE  [Next]_vars
  BY <1>8 DEF BookStep, onTradeExecuted, OrderCallback, Next, Step
<1> QED BY <1>1, <1>2, <1>3, <1>4, <1>5, <1>6, <1>7, <1>8 DEF SvNext

\* Every behaviour of the server is one of OrderBook, so each theorem about the
\* book (price-time priority, sound maps, stops, callbacks) holds of the book
\* the handlers of server.cpp drive.
THEOREM ServerRunsBook == SvSpec => Spec
<1>1. SvInit => Init
  BY DEF SvInit
<1> QED BY <1>1, ServerStepIsBookStep, PTL DEF SvSpec, Spec

----------------------------------------------------------------------------
LEMMA BookStepStays ==
  ASSUME IInv, NEW t \in Threads, BookStep(t)
  PROVE  /\ OrdersStay
         /\ pc[t] \in {"match", "scan"} /\ pc'[t] # "idle"
         /\ \A u \in Threads \ {t} :
                /\ pc'[u] = pc[u]
                /\ pending_order_updates'[u] = pending_order_updates[u]
         /\ UNCHANGED <<serverVars, toldVars>>
  BY LockStepStays DEF BookStep, LockStep

----------------------------------------------------------------------------
(* The invariant.                                                          *)

LEMMA NoRequestNoOrder ==
  /\ NoRequest.id = NoId
  /\ \A id \in Ids : id # NoRequest.id
  BY IdsAssumption DEF NoRequest

LEMMA SvInitInv == SvInit => ServerInv
<1> SUFFICES ASSUME SvInit PROVE ServerInv
  OBVIOUS
<1>1. ServerType /\ RequestRight /\ OwnersRight
  BY DEF SvInit, ServerType, RequestRight, OwnersRight, Links
<1>2. LinksRight /\ OwnedOrDone /\ ToldReported /\ TradesHeard
  BY ClientsAssumption
     DEF SvInit, LinksRight, OwnedOrDone, ToldReported, TradesHeard
<1>3. OtherThreads /\ CanceledOnRequest
  BY IdsAssumption DEF SvInit, Init, OtherThreads, CanceledOnRequest
<1> QED BY <1>1, <1>2, <1>3 DEF ServerInv

\* While the io thread runs no call, no call in progress owes a report about the
\* order of a client: the callback has seen the order as it is.
LEMMA NothingOwed ==
  ASSUME IInv, OwedInv, ServerInv, pc[IoThread] = "idle",
         NEW id \in Ids, submitter[id] \in Clients
  PROVE  reported[id] = View(order[id]) \/ Triggered(id)
<1>1. ASSUME NEW t \in Threads
      PROVE  incoming[t] # id /\ ~InQueue(pending_order_updates[t], id)
  <2>1. pending_order_updates[t] = <<>>
    BY DEF ServerInv, OtherThreads
  <2>2. CASE t = IoThread
    BY <2>1, <2>2, IdsAssumption DEF OwedInv, InQueue
  <2>3. CASE t # IoThread
    BY <2>1, <2>3, ClientsAssumption DEF ServerInv, OtherThreads, InQueue
  <2> QED BY <2>2, <2>3
<1> QED BY <1>1 DEF OwedInv, ReportsOwed, ReportDue

\* A step of the book that is none of the server's.
LEMMA BookStepServer ==
  ASSUME IInv, ServerInv, NEW t \in Threads, BookStep(t)
  PROVE  ServerInv'
<1>1. /\ OrdersStay
      /\ pc[t] \in {"match", "scan"} /\ pc'[t] # "idle"
      /\ \A u \in Threads \ {t} :
             /\ pc'[u] = pc[u]
             /\ pending_order_updates'[u] = pending_order_updates[u]
      /\ UNCHANGED <<link, sessions, subscriptions, order_owners, request,
                     submitter, told, heard, asked>>
  BY BookStepStays DEF serverVars, toldVars
<1>2. t = IoThread
  BY <1>1 DEF ServerInv, OtherThreads
<1>3. ServerType' /\ RequestRight' /\ LinksRight' /\ OwnersRight'
  BY <1>1 DEF ServerInv, ServerType, RequestRight, LinksRight, OwnersRight
<1>4. OwnedOrDone'
  <2>1. \A id \in Ids : Done(order[id]) => order'[id] = order[id]
    BY <1>1 DEF OrdersStay, Done
  <2> QED BY <1>1, <2>1 DEF ServerInv, OwnedOrDone
<1>5. ToldReported'
  <2>1. \A id \in Ids : Triggered(id) => Triggered(id)'
    BY <1>1 DEF OrdersStay, Triggered
  <2>2. \A id \in Ids : Refused(id) => Refused(id)'
    BY <1>1 DEF OrdersStay, Refused
  <2>3. reported' = reported
    BY <1>1 DEF OrdersStay
  <2> QED BY <1>1, <2>1, <2>2, <2>3 DEF ServerInv, ToldReported
<1>6. TradesHeard'
  BY <1>1 DEF ServerInv, TradesHeard, OrdersStay
<1>7. OtherThreads'
  BY <1>1, <1>2 DEF ServerInv, OtherThreads, OrdersStay
<1>8. CanceledOnRequest'
  BY <1>1 DEF ServerInv, CanceledOnRequest, OrdersStay
<1> QED BY <1>3, <1>4, <1>5, <1>6, <1>7, <1>8 DEF ServerInv

\* Steps that touch neither the book nor what was told or heard.
LEMMA ConnectionServer ==
  ASSUME IInv, ServerInv, NEW c \in Clients,
         acceptConnection(c) \/ Disconnect(c) \/ handleSnapshotRequest(c)
  PROVE  ServerInv'
<1>1. /\ IoFree
      /\ UNCHANGED <<vars, request, submitter, told, heard, asked>>
  BY DEF acceptConnection, Disconnect, handleSnapshotRequest, Handles, toldVars
<1>2. /\ request = NoRequest /\ \A id \in Ids : id # request.id
      /\ link \in [Clients -> Links] /\ NoClient \notin Clients
  BY <1>1, NoRequestNoOrder, ClientsAssumption DEF IoFree, ServerInv, ServerType
<1>3. /\ UNCHANGED <<order, pc, pending_order_updates, incoming, delivered,
                     reported, stop_ids>>
  BY <1>1 DEF vars, callVars, history
<1>4. OtherThreads' /\ CanceledOnRequest' /\ RequestRight'
  BY <1>1, <1>2, <1>3 DEF ServerInv, OtherThreads, CanceledOnRequest, RequestRight
<1>5. \A id \in Ids : (Triggered(id)' <=> Triggered(id)) /\ (Refused(id)' <=> Refused(id))
  BY <1>1, <1>3 DEF Triggered, Refused
<1>6. CASE acceptConnection(c)
  <2>1. /\ link[c] = "new" /\ link' = [link EXCEPT ![c] = "open"]
        /\ sessions' = sessions \cup {c} /\ UNCHANGED <<subscriptions, order_owners>>
        /\ \A id \in Ids : submitter[id] # c
    BY <1>6 DEF acceptConnection, ServerInv, LinksRight
  <2>2. ServerType' /\ OwnersRight'
    BY <1>1, <2>1 DEF ServerInv, ServerType, OwnersRight, Links
  <2>3. LinksRight'
    BY <1>1, <1>2, <2>1 DEF ServerInv, LinksRight
  <2>4. OwnedOrDone' /\ ToldReported' /\ TradesHeard'
    BY <1>1, <1>3, <1>5, <2>1 DEF ServerInv, OwnedOrDone, ToldReported, TradesHeard
  <2> QED BY <1>4, <2>2, <2>3, <2>4 DEF ServerInv
<1>7. CASE Disconnect(c)
  <2>1. /\ link' \in {[link EXCEPT ![c] = "late"], [link EXCEPT ![c] = "closed"]}
        /\ link[c] = "open"
        /\ sessions' = sessions \ {c} /\ subscriptions' = subscriptions \ {c}
        /\ order_owners' = [i \in Ids |-> IF order_owners[i] = c THEN NoClient
                                                                 ELSE order_owners[i]]
    BY <1>7 DEF Disconnect, removeSession
  <2>2. ServerType' /\ OwnersRight'
    BY <1>1, <2>1 DEF ServerInv, ServerType, OwnersRight, Links
  <2>3. /\ link'[c] \in {"late", "closed"} /\ \A d \in Clients \ {c} : link'[d] = link[d]
        /\ \A id \in Ids : order_owners'[id] \in {NoClient, order_owners[id]} \ {c}
    BY <1>2, <2>1
  <2>4. LinksRight'
    BY <1>1, <1>2, <2>1, <2>3 DEF ServerInv, LinksRight
  <2>5. \A id \in Ids : submitter[id] \in sessions' =>
            submitter[id] # c /\ (order_owners[id] = submitter[id] =>
                                     order_owners'[id] = order_owners[id])
    BY <2>1
  <2>6. OwnedOrDone' /\ ToldReported' /\ TradesHeard'
    BY <1>1, <1>3, <1>5, <2>1, <2>5
       DEF ServerInv, OwnedOrDone, ToldReported, TradesHeard
  <2> QED BY <1>4, <2>2, <2>4, <2>6 DEF ServerInv
<1>8. CASE handleSnapshotRequest(c)
  <2>1. /\ link[c] \in {"open", "late"}
        /\ link' = IF link[c] = "late" THEN [link EXCEPT ![c] = "after"] ELSE link
        /\ subscriptions' = subscriptions \cup {c} /\ UNCHANGED <<sessions, order_owners>>
    BY <1>8 DEF handleSnapshotRequest, Handles
  <2>2. ServerType' /\ OwnersRight'
    BY <1>1, <2>1 DEF ServerInv, ServerType, OwnersRight, Links
  <2>3. LinksRight'
    BY <1>1, <1>2, <2>1 DEF ServerInv, LinksRight
  <2>4. OwnedOrDone' /\ ToldReported' /\ TradesHeard'
    BY <1>1, <1>3, <1>5, <2>1 DEF ServerInv, OwnedOrDone, ToldReported, TradesHeard
  <2> QED BY <1>4, <2>2, <2>3, <2>4 DEF ServerInv
<1> QED BY <1>6, <1>7, <1>8

----------------------------------------------------------------------------
(* Messages.                                                               *)

LEMMA HandlesLink ==
  ASSUME ServerInv, NEW c \in Clients, Handles(c)
  PROVE  /\ IoFree /\ request = NoRequest /\ \A id \in Ids : id # request.id
         /\ link' \in [Clients -> Links]
         /\ link[c] \in {"open", "late"} /\ link'[c] \in {"open", "after"}
         /\ c \in sessions => link'[c] = "open"
         /\ \A d \in Clients \ {c} : link'[d] = link[d]
<1>1. link \in [Clients -> Links]
  BY DEF ServerInv, ServerType
<1>2. c \in sessions => link[c] = "open"
  BY DEF ServerInv, LinksRight
<1> QED BY <1>1, <1>2, NoRequestNoOrder DEF Handles, IoFree, Links

LEMMA SubmitServer ==
  ASSUME IInv, DeliverInv, ServerInv, NEW c \in Clients, NEW id \in Ids,
         NEW in \in Inputs, handleOrderSubmit(c, id, in)
  PROVE  ServerInv'
<1>1. /\ Handles(c) /\ subscriptions' = subscriptions \cup {c}
      /\ submitter[id] = NoClient /\ order[id].status = "NONE"
      /\ request' = [id |-> id, client |-> c, created |-> View(NewOrder(in))]
      /\ submitter' = [submitter EXCEPT ![id] = c]
      /\ UNCHANGED <<sessions, order_owners, told, heard, asked>>
  BY DEF handleOrderSubmit, Subscribe
<1>2. /\ order'[id].status \in {"NONE", "PENDING"}
      /\ \A j \in Ids \ {id} : order'[j] = order[j]
      /\ \A u \in Threads : pc'[u] = "idle" => pc[u] = "idle"
      /\ \A u \in Threads \ {IoThread} : pc'[u] = pc[u] /\ incoming'[u] = incoming[u]
      /\ \A j \in Ids \ {id} : j \in stop_ids' <=> j \in stop_ids
      /\ UNCHANGED <<pending_order_updates, delivered, reported>>
  <2>1. CASE addOrder(IoThread, id, NewOrder(in))
    BY <2>1, ServerThreads, AddEffect, NewOrderFields
  <2>2. CASE UNCHANGED vars
    BY <1>1, <2>2 DEF vars, callVars, history
  <2> QED BY <2>1, <2>2 DEF handleOrderSubmit
<1>3. /\ request = NoRequest /\ \A j \in Ids : j # request.id
      /\ link' \in [Clients -> Links]
      /\ link'[c] \in {"open", "after"} /\ (c \in sessions => link'[c] = "open")
      /\ \A d \in Clients \ {c} : link'[d] = link[d]
  BY <1>1, HandlesLink
<1>4. /\ submitter \in [Ids -> Clients \cup {NoClient}] /\ NoClient \notin Clients
      /\ sessions \subseteq Clients
  BY ClientsAssumption DEF ServerInv, ServerType
<1>5. submitter'[id] = c /\ \A j \in Ids \ {id} : submitter'[j] = submitter[j]
  BY <1>1, <1>4
<1>6. request'.id = id /\ request'.client = c
  BY <1>1
<1>7. ServerType' /\ RequestRight'
  BY <1>1, <1>3, <1>4, <1>5, <1>6 DEF ServerInv, ServerType, RequestRight
<1>8. LinksRight'
  BY <1>1, <1>3, <1>4, <1>5, <1>6 DEF ServerInv, LinksRight
<1>9. OwnersRight'
  BY <1>1, <1>5 DEF ServerInv, OwnersRight
<1>10. OwnedOrDone'
  BY <1>1, <1>2, <1>3, <1>5, <1>6 DEF ServerInv, OwnedOrDone
<1>11. ToldReported'
  <2>1. \A j \in Ids \ {id} : (Triggered(j) => Triggered(j)') /\ (Refused(j) => Refused(j)')
    BY <1>2, <1>5 DEF Triggered, Refused
  <2> QED BY <1>1, <1>2, <1>3, <1>5, <1>6, <2>1 DEF ServerInv, ToldReported
<1>12. TradesHeard'
  <2>1. delivered[id] = 0 /\ heard[id] = 0
    BY <1>1, FreshUndelivered DEF ServerInv, TradesHeard
  <2> QED BY <1>1, <1>2, <1>4, <1>5, <2>1 DEF ServerInv, TradesHeard
<1>13. OtherThreads'
  <2>1. \A t \in Threads : pc'[t] = "idle" => pending_order_updates'[t] = <<>>
    BY <1>2 DEF ServerInv, OtherThreads
  <2>2. ASSUME NEW t \in Threads \ {IoThread}
        PROVE  /\ pc'[t] \in {"idle", "notify"}
               /\ pending_order_updates'[t] = <<>>
    BY <1>2 DEF ServerInv, OtherThreads
  <2>3. ASSUME NEW t \in Threads \ {IoThread}, incoming'[t] \in Ids
        PROVE  /\ submitter'[incoming'[t]] = NoClient
               /\ order'[incoming'[t]].status # "NONE"
    <3>1. /\ incoming'[t] = incoming[t] /\ submitter[incoming[t]] = NoClient
          /\ order[incoming[t]].status # "NONE"
      BY <1>2, <2>3 DEF ServerInv, OtherThreads
    <3>2. incoming[t] # id
      BY <1>1, <3>1
    <3> QED BY <1>2, <1>5, <2>3, <3>1, <3>2
  <2> QED BY <2>1, <2>2, <2>3 DEF OtherThreads
<1>14. CanceledOnRequest'
  BY <1>1, <1>2, <1>5 DEF ServerInv, CanceledOnRequest
<1> QED BY <1>7, <1>8, <1>9, <1>10, <1>11, <1>12, <1>13, <1>14 DEF ServerInv

LEMMA GeneratedServer ==
  ASSUME IInv, ServerInv, NEW id \in Ids, NEW in \in Inputs, GeneratedOrder(id, in)
  PROVE  ServerInv'
<1>1. /\ submitter[id] = NoClient /\ addOrder(IoThread, id, NewOrder(in))
      /\ UNCHANGED <<link, sessions, subscriptions, order_owners, request,
                     submitter, told, heard, asked>>
  BY DEF GeneratedOrder, serverVars, toldVars
<1>2. /\ order[id].status = "NONE"
      /\ \A j \in Ids \ {id} : order'[j] = order[j]
      /\ order'[id].status = "PENDING"
      /\ pc'[IoThread] # "idle" /\ \A u \in Threads \ {IoThread} : pc'[u] = pc[u]
      /\ \A u \in Threads \ {IoThread} : incoming'[u] = incoming[u]
      /\ \A j \in Ids \ {id} : j \in stop_ids' <=> j \in stop_ids
      /\ UNCHANGED <<pending_order_updates, delivered, reported>>
  BY <1>1, ServerThreads, AddEffect, NewOrderFields
<1>3. submitter[id] \notin sessions
  BY <1>1, ClientsAssumption DEF ServerInv, ServerType
<1>4. ServerType' /\ RequestRight' /\ LinksRight' /\ OwnersRight'
  BY <1>1 DEF ServerInv, ServerType, RequestRight, LinksRight, OwnersRight
<1>5. OwnedOrDone'
  BY <1>1, <1>2, <1>3 DEF ServerInv, OwnedOrDone
<1>6. ToldReported'
  <2>1. \A j \in Ids \ {id} : (Triggered(j) => Triggered(j)') /\ (Refused(j) => Refused(j)')
    BY <1>1, <1>2 DEF Triggered, Refused
  <2> QED BY <1>1, <1>2, <1>3, <2>1 DEF ServerInv, ToldReported
<1>7. TradesHeard'
  BY <1>1, <1>2 DEF ServerInv, TradesHeard
<1>8. OtherThreads'
  BY <1>1, <1>2 DEF ServerInv, OtherThreads
<1>9. CanceledOnRequest'
  BY <1>1, <1>2 DEF ServerInv, CanceledOnRequest
<1> QED BY <1>4, <1>5, <1>6, <1>7, <1>8, <1>9 DEF ServerInv

\* A cancel changes neither which orders were refused nor which stops were
\* triggered.
LEMMA CancelKeeps ==
  ASSUME IInv, NEW t \in Threads, NEW id \in Ids, CancelOrder(t, id),
         UNCHANGED submitter
  PROVE  \A j \in Ids : (Triggered(j) => Triggered(j)') /\ (Refused(j) => Refused(j)')
  BY CancelEffect DEF Triggered, Refused, isStopOrder

LEMMA CancelServer ==
  ASSUME IInv, ServerInv, NEW c \in Clients, NEW id \in Ids, handleOrderCancel(c, id)
  PROVE  ServerInv'
<1>1. /\ Handles(c)
      /\ asked' = IF submitter[id] = c THEN asked \cup {id} ELSE asked
      /\ UNCHANGED <<sessions, subscriptions, order_owners, request, submitter,
                     told, heard>>
  BY DEF handleOrderCancel
<1>2. /\ request = NoRequest /\ \A j \in Ids : j # request.id
      /\ link' \in [Clients -> Links]
      /\ link[c] \in {"open", "late"} /\ link'[c] \in {"open", "after"}
      /\ (c \in sessions => link'[c] = "open")
      /\ \A d \in Clients \ {c} : link'[d] = link[d]
  BY <1>1, HandlesLink
<1>3. ServerType' /\ RequestRight' /\ OwnersRight'
  BY <1>1, <1>2 DEF ServerInv, ServerType, RequestRight, OwnersRight
<1>4. LinksRight'
  BY <1>1, <1>2 DEF ServerInv, LinksRight
<1>5. asked \subseteq asked'
  BY <1>1
<1>6. CASE UNCHANGED vars
  <2>1. UNCHANGED <<order, pc, pending_order_updates, incoming, delivered,
                    reported, stop_ids>>
    BY <1>6 DEF vars, callVars, history
  <2>2. \A j \in Ids : (Triggered(j) => Triggered(j)') /\ (Refused(j) => Refused(j)')
    BY <1>1, <2>1 DEF Triggered, Refused
  <2>3. OwnedOrDone' /\ ToldReported' /\ TradesHeard'
    BY <1>1, <2>1, <2>2 DEF ServerInv, OwnedOrDone, ToldReported, TradesHeard
  <2>4. OtherThreads' /\ CanceledOnRequest'
    BY <1>1, <1>5, <2>1 DEF ServerInv, OtherThreads, CanceledOnRequest
  <2> QED BY <1>3, <1>4, <2>3, <2>4 DEF ServerInv
<1>7. CASE MayCancel(c, id) /\ CancelOrder(IoThread, id)
  <2>1. /\ order[id].status \in {"PENDING", "PARTIAL"}
        /\ order'[id].status = "CANCELED"
        /\ \A j \in Ids \ {id} : order'[j] = order[j]
        /\ pc'[IoThread] = "notify" /\ \A u \in Threads \ {IoThread} : pc'[u] = pc[u]
        /\ \A u \in Threads \ {IoThread} : incoming'[u] = incoming[u]
        /\ UNCHANGED <<pending_order_updates, delivered, reported, stop_ids>>
    BY <1>7, ServerThreads, CancelEffect
  <2>2. order_owners[id] = c /\ submitter[id] = c
    BY <1>7, ClientsAssumption DEF MayCancel, ServerInv, OwnersRight
  <2>3. OwnedOrDone'
    BY <1>1, <2>1, <2>2 DEF ServerInv, OwnedOrDone
  <2>4. ToldReported'
    <3>1. \A j \in Ids : (Triggered(j) => Triggered(j)') /\ (Refused(j) => Refused(j)')
      BY <1>1, <1>7, ServerThreads, CancelKeeps
    <3> QED BY <1>1, <2>1, <3>1 DEF ServerInv, ToldReported
  <2>5. TradesHeard'
    BY <1>1, <2>1 DEF ServerInv, TradesHeard
  <2>6. OtherThreads'
    BY <1>1, <2>1 DEF ServerInv, OtherThreads
  <2>7. CanceledOnRequest'
    BY <1>1, <1>5, <2>1, <2>2 DEF ServerInv, CanceledOnRequest
  <2> QED BY <1>3, <1>4, <2>3, <2>4, <2>5, <2>6, <2>7 DEF ServerInv
<1> QED BY <1>6, <1>7 DEF handleOrderCancel

LEMMA GeneratorCancelServer ==
  ASSUME IInv, ServerInv, NEW t \in Threads \ {IoThread}, NEW id \in Ids,
         GeneratorCancel(t, id)
  PROVE  ServerInv'
<1>1. /\ submitter[id] = NoClient /\ CancelOrder(t, id)
      /\ UNCHANGED <<link, sessions, subscriptions, order_owners, request,
                     submitter, told, heard, asked>>
  BY DEF GeneratorCancel, serverVars, toldVars
<1>2. /\ order[id].status \in {"PENDING", "PARTIAL"}
      /\ order'[id].status = "CANCELED"
      /\ \A j \in Ids \ {id} : order'[j] = order[j]
      /\ pc'[t] = "notify" /\ \A u \in Threads \ {t} : pc'[u] = pc[u]
      /\ incoming'[t] = id /\ \A u \in Threads \ {t} : incoming'[u] = incoming[u]
      /\ UNCHANGED <<pending_order_updates, delivered, reported, stop_ids>>
  BY <1>1, CancelEffect
<1>3. submitter[id] \notin sessions
  BY <1>1, ClientsAssumption DEF ServerInv, ServerType
<1>4. ServerType' /\ RequestRight' /\ LinksRight' /\ OwnersRight'
  BY <1>1 DEF ServerInv, ServerType, RequestRight, LinksRight, OwnersRight
<1>5. OwnedOrDone'
  BY <1>1, <1>2, <1>3 DEF ServerInv, OwnedOrDone
<1>6. ToldReported'
  <2>1. \A j \in Ids : (Triggered(j) => Triggered(j)') /\ (Refused(j) => Refused(j)')
    BY <1>1, CancelKeeps
  <2> QED BY <1>1, <1>2, <2>1 DEF ServerInv, ToldReported
<1>7. TradesHeard' /\ CanceledOnRequest'
  BY <1>1, <1>2 DEF ServerInv, TradesHeard, CanceledOnRequest
<1>8. OtherThreads'
  <2>1. \A u \in Threads : pc'[u] = "idle" => pending_order_updates'[u] = <<>>
    BY <1>2 DEF ServerInv, OtherThreads
  <2>2. \A u \in Threads \ {IoThread} : /\ pc'[u] \in {"idle", "notify"}
                                        /\ pending_order_updates'[u] = <<>>
    BY <1>2 DEF ServerInv, OtherThreads
  <2>3. ASSUME NEW u \in Threads \ {IoThread}, incoming'[u] \in Ids
        PROVE  /\ submitter'[incoming'[u]] = NoClient
               /\ order'[incoming'[u]].status # "NONE"
    <3>1. CASE u = t
      BY <1>1, <1>2, <3>1
    <3>2. CASE u # t
      <4>1. incoming'[u] = incoming[u]
        BY <1>2, <3>2
      <4> QED BY <1>1, <1>2, <2>3, <4>1 DEF ServerInv, OtherThreads
    <3> QED BY <3>1, <3>2
  <2> QED BY <2>1, <2>2, <2>3 DEF OtherThreads
<1> QED BY <1>4, <1>5, <1>6, <1>7, <1>8 DEF ServerInv

\* What a client is told while the io thread runs no call is what the callback
\* saw last: RecordOwner and handleOrderStatus.
LEMMA StatusServer ==
  ASSUME IInv, OwedInv, ServerInv, NEW c \in Clients, NEW id \in Ids,
         handleOrderStatus(c, id)
  PROVE  ServerInv'
<1>1. /\ Handles(c)
      /\ told' = IF MayCancel(c, id) /\ id \in orders_by_id
                 THEN [told EXCEPT ![id] = View(order[id])] ELSE told
      /\ UNCHANGED <<order, pc, pending_order_updates, incoming, delivered,
                     reported, stop_ids>>
      /\ UNCHANGED <<sessions, subscriptions, order_owners, request, submitter,
                     heard, asked>>
  BY DEF handleOrderStatus, vars, callVars, history
<1>2. /\ request = NoRequest /\ \A j \in Ids : j # request.id
      /\ link' \in [Clients -> Links]
      /\ link[c] \in {"open", "late"} /\ link'[c] \in {"open", "after"}
      /\ (c \in sessions => link'[c] = "open")
      /\ \A d \in Clients \ {c} : link'[d] = link[d]
      /\ pc[IoThread] = "idle"
  BY <1>1, HandlesLink DEF IoFree
<1>3. ServerType' /\ RequestRight' /\ OwnersRight'
  BY <1>1, <1>2 DEF ServerInv, ServerType, RequestRight, OwnersRight
<1>4. LinksRight'
  BY <1>1, <1>2 DEF ServerInv, LinksRight
<1>5. \A j \in Ids : (Triggered(j) => Triggered(j)') /\ (Refused(j) => Refused(j)')
  BY <1>1 DEF Triggered, Refused
<1>6. TradesHeard' /\ OtherThreads' /\ CanceledOnRequest'
  BY <1>1 DEF ServerInv, TradesHeard, OtherThreads, CanceledOnRequest
<1>7. DOMAIN told = Ids
  BY DEF ServerInv, ServerType
<1>8. CASE told' = told
  <2>1. OwnedOrDone' /\ ToldReported'
    BY <1>1, <1>5, <1>8 DEF ServerInv, OwnedOrDone, ToldReported
  <2> QED BY <1>3, <1>4, <1>6, <2>1 DEF ServerInv
<1>9. CASE told' # told
  <2>1. /\ order_owners[id] = c /\ submitter[id] = c
        /\ told'[id] = View(order[id]) /\ \A j \in Ids \ {id} : told'[j] = told[j]
    BY <1>1, <1>7, <1>9, ClientsAssumption DEF MayCancel, ServerInv, OwnersRight
  <2>2. reported[id] = View(order[id]) \/ Triggered(id)
    BY <1>2, <2>1, NothingOwed
  <2>3. OwnedOrDone'
    BY <1>1, <2>1 DEF ServerInv, OwnedOrDone
  <2>4. ToldReported'
    BY <1>1, <1>5, <2>1, <2>2 DEF ServerInv, ToldReported
  <2> QED BY <1>3, <1>4, <1>6, <2>3, <2>4 DEF ServerInv
<1> QED BY <1>8, <1>9

LEMMA RecordOwnerServer ==
  ASSUME IInv, OwedInv, ServerInv, RecordOwner
  PROVE  ServerInv'
<1>1. /\ pc[IoThread] = "idle" /\ request # NoRequest /\ request' = NoRequest
      /\ order_owners' = [order_owners EXCEPT ![request.id] = request.client]
      /\ told' = [told EXCEPT ![request.id] = IF Refused(request.id)
                                              THEN request.created
                                              ELSE View(order[request.id])]
      /\ UNCHANGED <<order, pc, pending_order_updates, incoming, delivered,
                     reported, stop_ids>>
      /\ UNCHANGED <<link, sessions, subscriptions, submitter, heard, asked>>
  BY DEF RecordOwner, vars, callVars, history
<1>2. PICK id \in Ids : /\ id = request.id /\ request.client = submitter[id]
                        /\ submitter[id] \in Clients
  BY <1>1 DEF ServerInv, RequestRight
<1>3. /\ order_owners \in [Ids -> Clients \cup {NoClient}] /\ DOMAIN told = Ids
  BY DEF ServerInv, ServerType
<1>4. /\ order_owners'[id] = submitter[id]
      /\ \A j \in Ids \ {id} : order_owners'[j] = order_owners[j] /\ told'[j] = told[j]
      /\ ~Refused(id) => told'[id] = View(order[id])
  BY <1>1, <1>2, <1>3
<1>5. ServerType' /\ RequestRight' /\ OwnersRight'
  BY <1>1, <1>2, <1>3, <1>4 DEF ServerInv, ServerType, RequestRight, OwnersRight
<1>6. LinksRight'
  BY <1>1, <1>2, <1>4 DEF ServerInv, LinksRight
<1>7. \A j \in Ids : (Triggered(j) => Triggered(j)') /\ (Refused(j) => Refused(j)')
  BY <1>1 DEF Triggered, Refused
<1>8. TradesHeard' /\ OtherThreads' /\ CanceledOnRequest'
  BY <1>1 DEF ServerInv, TradesHeard, OtherThreads, CanceledOnRequest
<1>9. OwnedOrDone'
  BY <1>1, <1>2, <1>4 DEF ServerInv, OwnedOrDone
<1>10. ToldReported'
  <2>1. reported[id] = View(order[id]) \/ Triggered(id)
    BY <1>1, <1>2, NothingOwed
  <2> QED BY <1>1, <1>2, <1>4, <1>7, <2>1 DEF ServerInv, ToldReported
<1> QED BY <1>5, <1>6, <1>8, <1>9, <1>10 DEF ServerInv

----------------------------------------------------------------------------
(* The callbacks.                                                          *)

LEMMA TradeServer ==
  ASSUME IInv, DeliverInv, ServerInv, NEW t \in Threads, onTradeExecuted(t)
  PROVE  ServerInv'
<1>1. /\ NotifyTrade(t) /\ pending_trades[t] # <<>>
      /\ UNCHANGED <<order, pc, pending_order_updates, incoming, reported, stop_ids>>
      /\ UNCHANGED <<link, sessions, subscriptions, order_owners, request,
                     submitter, told, asked>>
  BY DEF onTradeExecuted, NotifyTrade, serverVars
<1>2. pending_trades[t] \in Seq(Trades) /\ delivered \in [Ids -> Nat]
  BY DEF IInv, TypeOK
<1>3. PICK trade \in Trades : trade = Head(pending_trades[t])
  BY <1>1, <1>2
<1>4. /\ trade.buy \in Ids /\ trade.sell \in Ids /\ trade.qty \in Nat
      /\ trade.buy # trade.sell
  <2>1. 1 \in 1 .. Len(pending_trades[t]) /\ trade = pending_trades[t][1]
    BY <1>1, <1>2, <1>3
  <2> QED BY <1>3, <2>1 DEF DeliverInv, Trades
<1>5. \A id \in Ids : delivered'[id] =
          IF id \in {trade.buy, trade.sell} THEN delivered[id] + trade.qty
                                            ELSE delivered[id]
  <2>1. delivered' = [delivered EXCEPT ![trade.buy] = @ + trade.qty,
                                       ![trade.sell] = @ + trade.qty]
    BY <1>1, <1>3 DEF NotifyTrade
  <2> QED BY <1>2, <1>4, <2>1
<1>6. heard' = [id \in Ids |->
          IF /\ id \in {trade.buy, trade.sell}
             /\ submitter[id] \in subscriptions \cap sessions
          THEN heard[id] + trade.qty ELSE heard[id]]
  BY <1>3 DEF onTradeExecuted
<1>7. heard' \in [Ids -> Nat]
  BY <1>4, <1>6 DEF ServerInv, ServerType
<1>8. ServerType' /\ RequestRight' /\ LinksRight' /\ OwnersRight'
  BY <1>1, <1>7 DEF ServerInv, ServerType, RequestRight, LinksRight, OwnersRight
<1>9. OwnedOrDone' /\ OtherThreads' /\ CanceledOnRequest'
  BY <1>1 DEF ServerInv, OwnedOrDone, OtherThreads, CanceledOnRequest
<1>10. ToldReported'
  <2>1. \A j \in Ids : (Triggered(j) => Triggered(j)') /\ (Refused(j) => Refused(j)')
    BY <1>1 DEF Triggered, Refused
  <2> QED BY <1>1, <2>1 DEF ServerInv, ToldReported
<1>11. TradesHeard'
  <2>1. NoClient \notin sessions
    BY ClientsAssumption DEF ServerInv, ServerType
  <2> QED BY <1>1, <1>5, <1>6, <2>1 DEF ServerInv, TradesHeard
<1> QED BY <1>8, <1>9, <1>10, <1>11 DEF ServerInv

\* The order callback for order id: its client is told and the entry of an order
\* that is done goes.
Informed(id) ==
    /\ reported'[id] = View(order[id])
    /\ told'[id] = IF order_owners[id] \in sessions THEN View(order[id]) ELSE told[id]
    /\ order_owners'[id] = IF order_owners[id] # NoClient /\ Done(order[id])
                           THEN NoClient ELSE order_owners[id]

Uninformed(id) ==
    /\ reported'[id] = reported[id]
    /\ told'[id] = told[id]
    /\ order_owners'[id] = order_owners[id]

LEMMA UpdateInforms ==
  ASSUME IInv, ServerInv, NEW id \in Ids, onOrderUpdated(id),
         reported' = [reported EXCEPT ![id] = View(order[id])]
  PROVE  /\ Informed(id) /\ \A j \in Ids \ {id} : Uninformed(j)
         /\ DOMAIN told' = Ids
         /\ order_owners' \in [Ids -> Clients \cup {NoClient}]
<1>1. /\ DOMAIN told = Ids /\ order_owners \in [Ids -> Clients \cup {NoClient}]
      /\ reported \in [Ids -> Views]
  BY DEF ServerInv, ServerType, IInv, TypeOK
<1>2. /\ told' = IF order_owners[id] \in sessions
                 THEN [told EXCEPT ![id] = View(order[id])] ELSE told
      /\ order_owners' = IF order_owners[id] # NoClient /\ Done(order[id])
                         THEN [order_owners EXCEPT ![id] = NoClient]
                         ELSE order_owners
  BY DEF onOrderUpdated
<1>3. /\ DOMAIN told' = Ids
      /\ told'[id] = IF order_owners[id] \in sessions THEN View(order[id]) ELSE told[id]
      /\ \A j \in Ids \ {id} : told'[j] = told[j]
  BY <1>1, <1>2
<1>4. /\ order_owners' \in [Ids -> Clients \cup {NoClient}]
      /\ order_owners'[id] = IF order_owners[id] # NoClient /\ Done(order[id])
                             THEN NoClient ELSE order_owners[id]
      /\ \A j \in Ids \ {id} : order_owners'[j] = order_owners[j]
  BY <1>1, <1>2
<1>5. reported'[id] = View(order[id]) /\ \A j \in Ids \ {id} : reported'[j] = reported[j]
  BY <1>1
<1> QED BY <1>3, <1>4, <1>5 DEF Informed, Uninformed

LEMMA CallbackServer ==
  ASSUME IInv, OwedInv, ServerInv, NEW t \in Threads, OrderCallback(t)
  PROVE  ServerInv'
<1>1. /\ UNCHANGED <<order, stop_ids, delivered>>
      /\ UNCHANGED <<link, sessions, subscriptions, request, submitter, heard, asked>>
  BY DEF OrderCallback, NotifyUpdate, NotifyIncoming
<1>2. /\ pending_order_updates \in [Threads -> Seq(Ids)]
      /\ incoming \in [Threads -> Ids \cup {NoId}]
      /\ pc \in [Threads -> {"idle", "match", "scan", "notify"}]
      /\ DOMAIN told = Ids /\ order_owners \in [Ids -> Clients \cup {NoClient}]
  BY DEF IInv, TypeOK, ServerInv, ServerType
<1>3. OtherThreads'
  <2>1. CASE NotifyUpdate(t)
    <3>1. /\ pc[t] = "notify" /\ pending_order_updates[t] # <<>>
          /\ pending_order_updates' = [pending_order_updates EXCEPT ![t] = Tail(@)]
          /\ UNCHANGED <<pc, incoming>>
      BY <2>1 DEF NotifyUpdate
    <3>2. t = IoThread
      BY <3>1 DEF ServerInv, OtherThreads
    <3> QED BY <1>1, <1>2, <3>1, <3>2 DEF ServerInv, OtherThreads
  <2>2. CASE NotifyIncoming(t)
    <3>1. /\ pending_order_updates[t] = <<>>
          /\ incoming' = [incoming EXCEPT ![t] = NoId]
          /\ pc' = [pc EXCEPT ![t] = "idle"]
          /\ UNCHANGED pending_order_updates
      BY <2>2 DEF NotifyIncoming
    <3>2. \A u \in Threads : /\ u = t => pc'[u] = "idle" /\ incoming'[u] \notin Ids
                             /\ u # t => pc'[u] = pc[u] /\ incoming'[u] = incoming[u]
      BY <1>2, <3>1, IdsAssumption
    <3> QED BY <1>1, <3>1, <3>2 DEF ServerInv, OtherThreads
  <2> QED BY <2>1, <2>2 DEF OrderCallback
<1>4. /\ \A j \in Ids : Informed(j) \/ Uninformed(j)
      /\ DOMAIN told' = Ids /\ order_owners' \in [Ids -> Clients \cup {NoClient}]
  <2>1. CASE NotifyUpdate(t) /\ Head(pending_order_updates[t]) = incoming[t]
    <3>1. UNCHANGED <<reported, told, order_owners>>
      <4>1. ~NotifyIncoming(t)
        BY <2>1 DEF NotifyUpdate, NotifyIncoming
      <4> QED BY <2>1, <4>1 DEF OrderCallback, NotifyUpdate
    <3> QED BY <1>2, <3>1 DEF Uninformed
  <2>2. CASE NotifyUpdate(t) /\ Head(pending_order_updates[t]) # incoming[t]
    <3>1. PICK id \in Ids : id = Head(pending_order_updates[t])
      BY <1>2, <2>2 DEF NotifyUpdate
    <3>2. reported' = [reported EXCEPT ![id] = View(order[id])]
      BY <2>2, <3>1 DEF NotifyUpdate
    <3>3. onOrderUpdated(id)
      <4>1. ~NotifyIncoming(t)
        BY <2>2 DEF NotifyUpdate, NotifyIncoming
      <4> QED BY <2>2, <3>1, <4>1 DEF OrderCallback
    <3> QED BY <3>2, <3>3, UpdateInforms
  <2>3. CASE NotifyIncoming(t) /\ ~NotifyUpdate(t)
    <3>1. onOrderUpdated(incoming[t])
      BY <2>3 DEF OrderCallback
    <3>2. CASE incoming[t] \in Ids
      <4>1. PICK id \in Ids : id = incoming[t]
        BY <3>2
      <4>2. reported' = [reported EXCEPT ![id] = View(order[id])]
        BY <2>3, <4>1 DEF NotifyIncoming
      <4> QED BY <3>1, <4>1, <4>2, UpdateInforms
    <3>3. CASE incoming[t] \notin Ids
      <4>1. reported \in [Ids -> Views]
        BY DEF IInv, TypeOK
      <4>2. UNCHANGED reported
        BY <2>3, <3>3, <4>1 DEF NotifyIncoming
      <4>3. /\ DOMAIN told' = Ids /\ \A j \in Ids : told'[j] = told[j]
            /\ order_owners' = order_owners
        BY <1>2, <3>1, <3>3 DEF onOrderUpdated
      <4> QED BY <1>2, <4>2, <4>3 DEF Uninformed
    <3> QED BY <3>2, <3>3
  <2> QED BY <2>1, <2>2, <2>3 DEF OrderCallback
<1>5. ServerType' /\ RequestRight'
  BY <1>1, <1>4 DEF ServerInv, ServerType, RequestRight
<1>6. \A id \in Ids : order_owners'[id] \in {NoClient, order_owners[id]}
  BY <1>4 DEF Informed, Uninformed
<1>7. OwnersRight'
  BY <1>1, <1>6 DEF ServerInv, OwnersRight
<1>8. LinksRight'
  BY <1>1, <1>6, ClientsAssumption DEF ServerInv, LinksRight
<1>9. ASSUME NEW id \in Ids, submitter[id] \in sessions, id # request.id
      PROVE  /\ \/ order_owners'[id] = submitter[id]
                \/ Done(order[id]) /\ told'[id] = View(order[id])
             /\ told'[id] = reported'[id] \/ Triggered(id) \/ Refused(id)
  <2>1. \/ order_owners[id] = submitter[id]
        \/ Done(order[id]) /\ told[id] = View(order[id])
    BY <1>9 DEF ServerInv, OwnedOrDone
  <2>2. told[id] = reported[id] \/ Triggered(id) \/ Refused(id)
    BY <1>9 DEF ServerInv, ToldReported
  <2>3. CASE Informed(id)
    <3>1. told'[id] = View(order[id])
      BY <1>9, <2>1, <2>3 DEF Informed
    <3> QED BY <2>1, <2>3, <3>1 DEF Informed
  <2>4. CASE Uninformed(id)
    BY <2>1, <2>2, <2>4 DEF Uninformed
  <2> QED BY <1>4, <2>3, <2>4
<1>10. OwnedOrDone'
  BY <1>1, <1>9 DEF OwnedOrDone
<1>11. ToldReported'
  <2>1. \A j \in Ids : (Triggered(j) => Triggered(j)') /\ (Refused(j) => Refused(j)')
    BY <1>1 DEF Triggered, Refused
  <2> QED BY <1>1, <1>9, <2>1 DEF ToldReported
<1>12. TradesHeard' /\ CanceledOnRequest'
  BY <1>1 DEF ServerInv, TradesHeard, CanceledOnRequest
<1> QED BY <1>3, <1>5, <1>7, <1>8, <1>10, <1>11, <1>12 DEF ServerInv

----------------------------------------------------------------------------
(* The theorems.                                                           *)

LEMMA SvNextInv ==
  IInv /\ OwedInv /\ DeliverInv /\ ServerInv /\ [SvNext]_allVars => ServerInv'
<1> SUFFICES ASSUME IInv, OwedInv, DeliverInv, ServerInv, [SvNext]_allVars
             PROVE  ServerInv'
  OBVIOUS
<1>1. CASE UNCHANGED allVars
  <2>1. /\ UNCHANGED <<order, pc, pending_order_updates, incoming, delivered,
                       reported, stop_ids>>
        /\ UNCHANGED <<link, sessions, subscriptions, order_owners, request,
                       submitter, told, heard, asked>>
    BY <1>1 DEF allVars, vars, callVars, history, serverVars, toldVars
  <2>2. ServerType' /\ RequestRight' /\ LinksRight' /\ OwnersRight'
    BY <2>1 DEF ServerInv, ServerType, RequestRight, LinksRight, OwnersRight
  <2>3. OwnedOrDone' /\ TradesHeard' /\ OtherThreads' /\ CanceledOnRequest'
    BY <2>1 DEF ServerInv, OwnedOrDone, TradesHeard, OtherThreads, CanceledOnRequest
  <2>4. ToldReported'
    BY <2>1 DEF ServerInv, ToldReported, Triggered, Refused
  <2> QED BY <2>2, <2>3, <2>4 DEF ServerInv
<1>2. CASE sendOrderbookSnapshots
  BY <1>1, <1>2 DEF sendOrderbookSnapshots
<1>3. CASE \E c \in Clients : acceptConnection(c) \/ Disconnect(c)
                              \/ handleSnapshotRequest(c)
  BY <1>3, ConnectionServer
<1>4. CASE \E c \in Clients, id \in Ids :
               handleOrderCancel(c, id) \/ handleOrderStatus(c, id)
  BY <1>4, CancelServer, StatusServer
<1>5. CASE \E c \in Clients, id \in Ids, in \in Inputs : handleOrderSubmit(c, id, in)
  BY <1>5, SubmitServer
<1>6. CASE RecordOwner
  BY <1>6, RecordOwnerServer
<1>7. CASE \E id \in Ids, in \in Inputs : GeneratedOrder(id, in)
  BY <1>7, GeneratedServer
<1>8. CASE \E t \in Threads \ {IoThread}, id \in Ids : GeneratorCancel(t, id)
  BY <1>8, GeneratorCancelServer
<1>9. CASE \E t \in Threads : BookStep(t) \/ onTradeExecuted(t) \/ OrderCallback(t)
  BY <1>9, BookStepServer, TradeServer, CallbackServer
<1> QED BY <1>1, <1>2, <1>3, <1>4, <1>5, <1>6, <1>7, <1>8, <1>9 DEF SvNext

\* sessions_, subscriptions_ and order_owners_ stay consistent with each other,
\* with the book and with what the clients were sent, at every step of every
\* handler and callback of server.cpp, whatever the other thread cancels.
THEOREM ServerInvariant == SvSpec => [](IInv /\ OwedInv /\ ServerInv)
<1>1. SvSpec => []IInv /\ []OwedInv /\ []DeliverInv
  BY ServerRunsBook, BookAlways, OwedAlways, DeliverAlways, PTL
<1>2. SvSpec => [](IInv /\ OwedInv /\ DeliverInv /\ ServerInv)
  BY <1>1, SvInitInv, SvNextInv, PTL DEF SvSpec
<1> QED BY <1>2, PTL

\* While the io thread runs no handler a connected client knows the state of
\* each of its orders: onOrderUpdated reaches the owner although
\* handleOrderSubmit records it only after the callbacks of addOrder.
THEOREM ClientsStayInformed == SvSpec => []ClientInformed
<1>1. IInv /\ OwedInv /\ ServerInv => ClientInformed
  <2> SUFFICES ASSUME IInv, OwedInv, ServerInv, IoFree,
                      NEW id \in Ids, submitter[id] \in sessions
               PROVE  told[id] = View(order[id]) \/ Triggered(id) \/ Refused(id)
    BY DEF ClientInformed
  <2>1. pc[IoThread] = "idle" /\ id # request.id /\ submitter[id] \in Clients
    BY NoRequestNoOrder DEF IoFree, ServerInv, ServerType
  <2>2. told[id] = reported[id] \/ Triggered(id) \/ Refused(id)
    BY <2>1 DEF ServerInv, ToldReported
  <2> QED BY <2>1, <2>2, NothingOwed
<1> QED BY <1>1, ServerInvariant, PTL

\* A connected client has been sent exactly the traded quantity the book
\* delivered for each of its orders: handleOrderSubmit subscribes it before
\* addOrder and onTradeExecuted sends to every subscriber.
THEOREM ClientsHearTheirTrades == SvSpec => []OwnTradesHeard
<1>1. ServerInv => OwnTradesHeard
  BY DEF ServerInv, TradesHeard, OwnTradesHeard
<1> QED BY <1>1, ServerInvariant, PTL

\* A connected client can cancel each of its orders that is in the book:
\* no callback erases the entry of handleOrderSubmit while the order lives.
THEOREM LiveOrdersAreOwned == SvSpec => []LiveOwned
<1>1. IInv /\ ServerInv => LiveOwned
  <2> SUFFICES ASSUME IInv, ServerInv, IoFree, NEW id \in Ids,
                      submitter[id] \in sessions, id \in orders_by_id
               PROVE  order_owners[id] = submitter[id]
    BY DEF LiveOwned
  <2>1. mutex = NoThread
    <3>1. \A t \in Threads : pc[t] \notin {"match", "scan"}
      BY DEF IoFree, ServerInv, OtherThreads
    <3> QED BY <3>1 DEF IInv, MutualExclusion, TypeOK
  <2>2. ~InFlight(id)
    BY <2>1 DEF IInv, MutualExclusion, InFlight, InQueue
  <2>3. Resting(id) \/ Stored(id)
    BY <2>2 DEF IInv, IndexExact
  <2>4. ~Done(order[id])
    BY <2>3 DEF IInv, BookSound, StopsSound, Resting, Stored, Open, Done
  <2>5. id # request.id
    BY NoRequestNoOrder DEF IoFree
  <2> QED BY <2>4, <2>5 DEF ServerInv, OwnedOrDone
<1> QED BY <1>1, ServerInvariant, PTL

\* A client's limit or stop order is canceled only when that client asked for it
\* with handleOrderCancel: the generator's thread and other clients cannot.
THEOREM NobodyElseCancels == SvSpec => []CanceledOnRequest
<1>1. ServerInv => CanceledOnRequest
  BY DEF ServerInv
<1> QED BY <1>1, ServerInvariant, PTL

\* removeSession leaves nothing of a closed session in subscriptions_ and
\* order_owners_, unless a message received before the close is handled later.
THEOREM ClosedSessionsForgotten == SvSpec => []CleanedUp
<1>1. ServerInv => CleanedUp
  BY DEF ServerInv, LinksRight, CleanedUp
<1> QED BY <1>1, ServerInvariant, PTL
=============================================================================
