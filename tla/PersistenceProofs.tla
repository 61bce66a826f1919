------------------------- MODULE PersistenceProofs -------------------------
(***************************************************************************)
(* The database and the book, for any threads, orders, inputs and number   *)
(* of crashes: rows follow their orders, what is done stays done over      *)
(* restarts, the tables of orders and trades balance, and a restart of an  *)
(* idle server brings back its book.                                       *)
(*                                                                         *)
(* The first three need each other and some more (PersistInv): a row       *)
(* is written from a view that is still true when the statement runs       *)
(* (WritesTrue), which holds because threads other than the io thread      *)
(* touch only orders without a row (CallsRight); an order is made once per *)
(* life of the process, from a row that is active (RestoresActive,         *)
(* SavedNew); and the trades table is compared with the order through what *)
(* was delivered since the order was made (Balance), because between two   *)
(* callbacks of a call neither table has caught up with the book.  The     *)
(* last one goes through the table: before the crash and after the restart *)
(* clients' orders stand in their queues in the order of their rows.       *)
(***************************************************************************)
EXTENDS Persistence, OrderBookProofs

Rowed(id) == row[id].status # "NONE"
Made(id) == order[id].status # "NONE"

StoreType ==
    /\ row \in [Ids -> Orders]
    /\ rows \in Seq(Ids)
    /\ db_traded \in [Ids -> Nat]
    /\ saved \in Ids \cup {NoId}
    /\ write \in [Threads -> [id : Ids \cup {NoId}, view : Views]]
    /\ \A t \in Threads : write[t] = NoWrite \/ write[t].id \in Ids
    /\ restoring \in Seq(Ids)
    /\ used \subseteq Ids
    /\ dirty \in BOOLEAN

\* A uuid is used before anything is known under it.
UsedOnce ==
    \A id \in Ids : /\ Made(id) \/ Rowed(id) => id \in used
                    /\ id \notin used => db_traded[id] = 0

\* An order that is saved and not yet added is new, and the io thread is free
\* to add it.
SavedNew ==
    saved # NoId =>
        /\ \E in \in Inputs : row[saved] = NewOrder(in)
        /\ ~Made(saved)
        /\ pc[IoThread] = "idle" /\ write[IoThread] = NoWrite
        /\ phase = "serving"

\* What is still to be restored is active.
RestoresActive ==
    \A k \in 1 .. Len(restoring) : ~Made(restoring[k]) => Active(restoring[k])

\* A statement about to run on an order with a row is the io thread's and says
\* what the order is now.
WritesTrue ==
    \A t \in Threads : write[t] # NoWrite =>
        /\ Made(write[t].id)
        /\ pc[t] \in {"idle", "notify"}
        /\ Rowed(write[t].id) => /\ t = IoThread
                                 /\ write[t].view = View(order[write[t].id])

\* Reports are owed of orders that exist; threads other than the io thread run
\* only cancels of orders without a row.
CallsRight ==
    /\ \A id \in Ids : ReportDue(id) => Made(id)
    /\ \A t \in Threads : IF pc[t] = "idle" THEN pending_order_updates[t] = <<>>
                                            ELSE incoming[t] \in Ids
    /\ \A t \in Threads \ {IoThread} :
           /\ pc[t] \in {"idle", "notify"}
           /\ pending_trades[t] = <<>>
           /\ pending_order_updates[t] = <<>>
           /\ incoming[t] \in Ids => ~Rowed(incoming[t])

\* RowsCurrent for the quantity, without its exception.
RemCurrent ==
    \A id \in Ids : Rowed(id) /\ Made(id) =>
        row[id].rem = order[id].rem \/ WriteDue(id)

\* A stop order, in the table or in the book, has not traded.
StopsWhole ==
    \A id \in Ids : Rowed(id) =>
        /\ isStopOrder(row[id]) => row[id].rem = row[id].qty
        /\ Made(id) /\ isStopOrder(order[id]) => order[id].rem = row[id].qty

\* What the trades table holds of an order is what its row lost before the
\* order was made plus what was delivered since.
Balance ==
    ~dirty => \A id \in Ids : Rowed(id) =>
        IF Made(id) THEN db_traded[id] + order[id].qty = row[id].qty + delivered[id]
                    ELSE row[id].rem + db_traded[id] = row[id].qty

PersistInv ==
    /\ StoreType
    /\ UsedOnce
    /\ SavedNew
    /\ RestoresActive
    /\ WritesTrue
    /\ CallsRight
    /\ RowsCurrent
    /\ RemCurrent
    /\ DoneStaysDone
    /\ StopsWhole
    /\ Balance

----------------------------------------------------------------------------
(* Orders and views.                                                       *)

LEMMA ViewFields ==
  ASSUME NEW o \in Orders
  PROVE  /\ View(o) \in Views
         /\ View(o).type = o.type /\ View(o).rem = o.rem /\ View(o).status = o.status
  BY DEF View, Views, Orders

LEMMA NoOrderIsOrder == NoOrder \in Orders /\ NoOrder.status = "NONE"
  BY PricesAssumption DEF NoOrder, Orders, Sides, OrderTypes, Statuses

LEMMA NoWriteFields ==
  /\ NoWrite \in [id : Ids \cup {NoId}, view : Views]
  /\ NoWrite.id \notin Ids
  BY NoOrderIsOrder, ViewFields, IdsAssumption DEF NoWrite

\* The order made from a row has what is left in the row, and nothing of it is
\* traded yet.
LEMMA FromRowFields ==
  ASSUME NEW r \in Orders
  PROVE  /\ FromRow(r) \in Orders
         /\ FromRow(r).type = r.type /\ FromRow(r).side = r.side
         /\ FromRow(r).price = r.price /\ FromRow(r).stop = r.stop
         /\ FromRow(r).rem = r.rem /\ FromRow(r).qty = r.rem
         /\ r.rem > 0 => FromRow(r).status \in {"PENDING", "PARTIAL"}
         /\ r.rem = r.qty => FromRow(r).status = "PENDING"
         /\ r.rem < r.qty /\ r.rem > 0 => FromRow(r).status = "PARTIAL"
<1> DEFINE o == [r EXCEPT !.qty = r.rem, !.status = "PENDING"]
<1>1. /\ o \in Orders /\ o.type = r.type /\ o.rem = r.rem /\ o.qty = r.rem
      /\ o.side = r.side /\ o.price = r.price /\ o.stop = r.stop
      /\ o.status = "PENDING" /\ r.rem \in Nat /\ r.qty \in Nat
  BY DEF Orders, Statuses
<1>2. FromRow(r) = IF r.rem < r.qty THEN fill(o, 0) ELSE o
  BY DEF FromRow
<1> HIDE DEF o
<1>3. /\ fill(o, 0) \in Orders /\ fill(o, 0).type = o.type /\ fill(o, 0).qty = o.qty
      /\ fill(o, 0).side = o.side /\ fill(o, 0).price = o.price
      /\ fill(o, 0).stop = o.stop
      /\ fill(o, 0).rem = o.rem - 0
      /\ fill(o, 0).status = IF o.rem = 0 THEN "FILLED" ELSE "PARTIAL"
  BY <1>1, FillFields
<1>4. CASE r.rem < r.qty
  BY <1>1, <1>2, <1>3, <1>4
<1>5. CASE ~(r.rem < r.qty)
  BY <1>1, <1>2, <1>5
<1> QED BY <1>4, <1>5

\* With no call in progress the tables agree about each order.
LEMMA QuietBalance ==
  ASSUME BookInv, PersistInv, ~dirty, Quiet, NEW id \in Ids, Rowed(id)
  PROVE  row[id].rem + db_traded[id] = row[id].qty
<1>1. CASE ~Made(id)
  BY <1>1 DEF PersistInv, Balance
<1>2. CASE Made(id)
  <2>1. ~WriteDue(id)
    <3>1. ASSUME NEW t \in Threads
          PROVE  /\ incoming[t] # id /\ ~InQueue(pending_order_updates[t], id)
                 /\ write[t].id # id
      <4>1. pc[t] = "idle" /\ write[t] = NoWrite
        BY DEF Quiet
      <4>2. incoming[t] = NoId /\ pending_order_updates[t] = <<>>
        BY <4>1 DEF BookInv, OwedInv, PersistInv, CallsRight
      <4> QED BY <4>1, <4>2, IdsAssumption, NoWriteFields DEF InQueue
    <3> QED BY <3>1 DEF WriteDue, ReportDue
  <2>2. row[id].rem = order[id].rem
    BY <1>2, <2>1 DEF PersistInv, RemCurrent
  <2>3. traded[id] = delivered[id]
    <3>1. \A t \in Threads : pending_trades[t] = <<>>
      BY DEF Quiet, BookInv, ScanInv, ScanSound
    <3>2. Undelivered(id) = {}
      BY <3>1, UndeliveredUnits DEF Holds
    <3>3. traded[id] = delivered[id] + 0 /\ delivered[id] \in Nat
      BY <3>2, FS_EmptySet DEF BookInv, DeliverInv, TradesDelivered, IInv, TypeOK
    <3> QED BY <3>3
  <2>4. order[id].rem + traded[id] = order[id].qty
    BY DEF BookInv, IInv, Conservation
  <2>5. db_traded[id] + order[id].qty = row[id].qty + delivered[id]
    BY <1>2 DEF PersistInv, Balance
  <2>6. /\ order[id].rem \in Nat /\ order[id].qty \in Nat /\ row[id].qty \in Nat
        /\ delivered[id] \in Nat /\ db_traded[id] \in Nat
    BY DEF BookInv, IInv, TypeOK, PersistInv, StoreType, Orders
  <2> QED BY <2>2, <2>3, <2>4, <2>5, <2>6
<1> QED BY <1>1, <1>2

----------------------------------------------------------------------------
(* Steps of the book.                                                      *)

\* addOrder by the io thread, of a new order or of one that is restored from its
\* active row.
LEMMA AddPersists ==
  ASSUME BookInv, PersistInv, NEW id \in Ids, NEW N \in Orders,
         addOrder(IoThread, id, N), write[IoThread] = NoWrite,
         N.status \in {"PENDING", "PARTIAL"}, N.rem = N.qty,
         Rowed(id) => Active(id) /\ N.rem = row[id].rem /\ N.type = row[id].type,
         saved' = NoId, used' = used \cup {id}, restoring' \in Seq(Ids),
         \A k \in 1 .. Len(restoring') :
             \E j \in 1 .. Len(restoring) : restoring'[k] = restoring[j],
         UNCHANGED <<row, rows, db_traded, write, dirty>>
  PROVE  PersistInv'
<1>0. IoThread \in Threads
  BY MainThreadAssumption
<1>1. /\ ~Made(id) /\ order'[id] = N /\ N.rem > 0
      /\ \A j \in Ids \ {id} : order'[j] = order[j]
      /\ pc[IoThread] = "idle" /\ pc'[IoThread] # "idle"
      /\ \A u \in Threads \ {IoThread} : pc'[u] = pc[u] /\ incoming'[u] = incoming[u]
      /\ incoming'[IoThread] = id
      /\ \A j \in Ids \ {id} : j \in stop_ids' <=> j \in stop_ids
      /\ UNCHANGED <<pending_order_updates, pending_trades, delivered>>
  BY <1>0, AddEffect DEF BookInv, Made
<1>2. /\ Made(id)' /\ \A j \in Ids \ {id} : Made(j)' <=> Made(j)
      /\ \A j \in Ids : Rowed(j)' <=> Rowed(j)
  BY <1>1 DEF Made, Rowed
<1>3. incoming[IoThread] = NoId
  BY <1>0, <1>1 DEF BookInv, OwedInv
<1>4. \A j \in Ids : ReportDue(j)' <=> ReportDue(j) \/ j = id
  BY <1>0, <1>1, <1>3, IdsAssumption DEF ReportDue
<1>5. \A j \in Ids : WriteDue(j) \/ j = id => WriteDue(j)'
  BY <1>4 DEF WriteDue
<1>6. StoreType' /\ SavedNew'
  BY DEF PersistInv, StoreType, SavedNew
<1>7. UsedOnce'
  BY <1>2 DEF PersistInv, UsedOnce
<1>8. RestoresActive'
  <2>1. ASSUME NEW k \in 1 .. Len(restoring'), ~Made(restoring[k])'
        PROVE  Active(restoring[k])'
    <3>1. PICK j \in 1 .. Len(restoring) : restoring'[k] = restoring[j]
      OBVIOUS
    <3>2. restoring[j] \in Ids
      BY DEF PersistInv, StoreType
    <3>3. ~Made(restoring[j])
      BY <1>2, <2>1, <3>1, <3>2 DEF Made
    <3> QED BY <3>1, <3>3 DEF PersistInv, RestoresActive, Active
  <2> QED BY <2>1 DEF RestoresActive
<1>9. WritesTrue'
  <2>1. ASSUME NEW t \in Threads, write[t] # NoWrite
        PROVE  /\ t # IoThread /\ write[t].id \in Ids /\ Made(write[t].id)
               /\ ~Rowed(write[t].id) /\ pc[t] \in {"idle", "notify"}
    BY <2>1 DEF PersistInv, StoreType, WritesTrue
  <2> QED BY <1>1, <1>2, <2>1 DEF WritesTrue, Made
<1>10. CallsRight'
  BY <1>0, <1>1, <1>2, <1>4 DEF PersistInv, CallsRight
<1>11. RowsCurrent'
  <2>1. \A j \in Ids \ {id} : Triggered(j)' <=> Triggered(j)
    BY <1>1 DEF Triggered
  <2> QED BY <1>1, <1>5, <2>1 DEF PersistInv, RowsCurrent
<1>12. RemCurrent'
  BY <1>1, <1>2, <1>5 DEF PersistInv, RemCurrent
<1>13. DoneStaysDone'
  <2>1. row[id].status \in {"FILLED", "CANCELED"} => FALSE
    BY DEF Rowed, Active
  <2> QED BY <1>1, <2>1 DEF PersistInv, DoneStaysDone
<1>14. StopsWhole'
  <2>1. Rowed(id) /\ isStopOrder(N) => N.rem = row[id].qty
    BY DEF PersistInv, StopsWhole, isStopOrder
  <2> QED BY <1>1, <1>2, <2>1 DEF PersistInv, StopsWhole
<1>15. Balance'
  <2>1. delivered[id] = 0
    BY <1>1, FreshUndelivered DEF BookInv, Made
  <2>2. row[id].qty \in Nat /\ row[id].rem \in Nat /\ db_traded[id] \in Nat
    BY DEF PersistInv, StoreType, Orders
  <2>3. ~dirty /\ Rowed(id) => db_traded[id] + N.qty = row[id].qty + delivered[id]
    BY <1>1, <2>1, <2>2 DEF PersistInv, Balance
  <2> QED BY <1>1, <1>2, <2>3 DEF PersistInv, Balance
<1> QED BY <1>6, <1>7, <1>8, <1>9, <1>10, <1>11, <1>12, <1>13, <1>14, <1>15
        DEF PersistInv

\* cancelOrder by the io thread, or by another thread of an order without a row.
LEMMA CancelPersists ==
  ASSUME BookInv, PersistInv, NEW t \in Threads, NEW id \in Ids,
         CancelOrder(t, id), write[t] = NoWrite,
         t = IoThread => saved = NoId, t # IoThread => ~Rowed(id),
         UNCHANGED <<dbVars, runVars, used>>
  PROVE  PersistInv'
<1>1. /\ order[id].status \in {"PENDING", "PARTIAL"}
      /\ order'[id].status = "CANCELED" /\ order'[id].type = order[id].type
      /\ order'[id].qty = order[id].qty /\ order'[id].rem = order[id].rem
      /\ \A j \in Ids \ {id} : order'[j] = order[j]
      /\ pc[t] = "idle" /\ pc'[t] = "notify" /\ \A u \in Threads \ {t} : pc'[u] = pc[u]
      /\ incoming'[t] = id /\ \A u \in Threads \ {t} : incoming'[u] = incoming[u]
      /\ UNCHANGED <<pending_order_updates, pending_trades, delivered, stop_ids>>
  BY CancelEffect DEF BookInv
<1>2. UNCHANGED <<row, rows, db_traded, saved, write, phase, restoring, used, dirty>>
  BY DEF dbVars, runVars
<1>3. \A j \in Ids : (Made(j)' <=> Made(j)) /\ (Rowed(j)' <=> Rowed(j))
  BY <1>1, <1>2 DEF Made, Rowed
<1>4. incoming[t] = NoId
  BY <1>1 DEF BookInv, OwedInv
<1>5. \A j \in Ids : ReportDue(j)' <=> ReportDue(j) \/ j = id
  BY <1>1, <1>4, IdsAssumption DEF ReportDue
<1>6. \A j \in Ids : WriteDue(j) \/ j = id => WriteDue(j)'
  BY <1>2, <1>5 DEF WriteDue
<1>7. StoreType' /\ UsedOnce'
  BY <1>2, <1>3 DEF PersistInv, StoreType, UsedOnce
<1>8. SavedNew'
  <2>1. saved # NoId => saved \in Ids /\ t # IoThread
    BY DEF PersistInv, StoreType
  <2> QED BY <1>1, <1>2, <1>3, <2>1, MainThreadAssumption
          DEF PersistInv, SavedNew, Made
<1>9. RestoresActive'
  <2>1. \A k \in 1 .. Len(restoring) : restoring[k] \in Ids
    BY DEF PersistInv, StoreType
  <2> QED BY <1>2, <1>3, <2>1 DEF PersistInv, RestoresActive, Active, Made
<1>10. WritesTrue'
  <2>1. ASSUME NEW u \in Threads, write[u] # NoWrite
        PROVE  /\ u # t /\ write[u].id \in Ids /\ Made(write[u].id)
               /\ pc[u] \in {"idle", "notify"}
               /\ Rowed(write[u].id) => /\ u = IoThread /\ write[u].id # id
                                        /\ write[u].view = View(order[write[u].id])
    BY <2>1 DEF PersistInv, StoreType, WritesTrue
  <2> QED BY <1>1, <1>2, <1>3, <2>1 DEF WritesTrue, Made, Rowed
<1>11. CallsRight'
  BY <1>1, <1>2, <1>3, <1>5 DEF PersistInv, CallsRight, Made, Rowed
<1>12. RowsCurrent'
  <2>1. \A j \in Ids : Triggered(j)' <=> Triggered(j)
    BY <1>1 DEF Triggered, isStopOrder
  <2> QED BY <1>1, <1>2, <1>6, <2>1 DEF PersistInv, RowsCurrent
<1>13. RemCurrent'
  BY <1>1, <1>2, <1>3, <1>6 DEF PersistInv, RemCurrent
<1>14. DoneStaysDone'
  BY <1>1, <1>2 DEF PersistInv, DoneStaysDone
<1>15. StopsWhole'
  BY <1>1, <1>2, <1>3 DEF PersistInv, StopsWhole, isStopOrder
<1>16. Balance'
  BY <1>1, <1>2, <1>3 DEF PersistInv, Balance
<1> QED BY <1>7, <1>8, <1>9, <1>10, <1>11, <1>12, <1>13, <1>14, <1>15, <1>16
        DEF PersistInv

\* A step under the lock is the io thread's, which has nothing to write then.
LEMMA WorkPersists ==
  ASSUME BookInv, PersistInv, NEW t \in Threads, Work(t)
  PROVE  PersistInv'
<1>1. LockStep(t) /\ UNCHANGED <<row, rows, db_traded, saved, write, phase, restoring,
                                 used, dirty>>
  BY DEF Work, LockStep, dbVars, runVars
<1>2. /\ OrdersStay
      /\ pc[t] \in {"match", "scan"} /\ pc'[t] # "idle"
      /\ \A u \in Threads \ {t} :
             /\ pc'[u] = pc[u]
             /\ pending_order_updates'[u] = pending_order_updates[u]
             /\ pending_trades'[u] = pending_trades[u]
  BY <1>1, LockStepStays DEF BookInv
<1>3. t = IoThread /\ write[t] = NoWrite /\ saved = NoId
  BY <1>2 DEF PersistInv, CallsRight, WritesTrue, SavedNew
<1>4. UNCHANGED <<delivered, incoming, stop_ids>>
  BY <1>2 DEF OrdersStay
<1>5. \A j \in Ids : (Made(j)' <=> Made(j)) /\ (Rowed(j)' <=> Rowed(j))
  BY <1>1, <1>2 DEF Made, Rowed, OrdersStay
<1>6. \A j \in Ids :
          /\ ReportDue(j) => ReportDue(j)'
          /\ ReportDue(j)' => ReportDue(j) \/ Made(j)
          /\ Triggered(j) => Triggered(j)'
          /\ \/ order'[j] = order[j]
             \/ ReportDue(j)'
             \/ Triggered(j)' /\ order'[j].rem = order[j].rem
  BY <1>1, LockStepOwes DEF BookInv, Made
<1>7. \A j \in Ids : WriteDue(j) => WriteDue(j)'
  BY <1>1, <1>6 DEF WriteDue
<1>8. StoreType' /\ UsedOnce' /\ SavedNew'
  BY <1>1, <1>3, <1>5 DEF PersistInv, StoreType, UsedOnce, SavedNew
<1>9. RestoresActive'
  <2>1. \A k \in 1 .. Len(restoring) : restoring[k] \in Ids
    BY DEF PersistInv, StoreType
  <2> QED BY <1>1, <1>5, <2>1 DEF PersistInv, RestoresActive, Active, Made
<1>10. WritesTrue'
  <2>1. ASSUME NEW u \in Threads, write[u] # NoWrite
        PROVE  /\ u # t /\ write[u].id \in Ids /\ Made(write[u].id)
               /\ pc[u] \in {"idle", "notify"} /\ ~Rowed(write[u].id)
    BY <1>3, <2>1 DEF PersistInv, StoreType, WritesTrue
  <2> QED BY <1>1, <1>2, <1>5, <2>1 DEF WritesTrue, Made, Rowed
<1>11. CallsRight'
  BY <1>1, <1>2, <1>3, <1>4, <1>5, <1>6 DEF PersistInv, CallsRight, Made, Rowed
<1>12. RowsCurrent'
  BY <1>1, <1>5, <1>6, <1>7 DEF PersistInv, RowsCurrent, WriteDue, Made, Rowed
<1>13. RemCurrent'
  BY <1>1, <1>5, <1>6, <1>7 DEF PersistInv, RemCurrent, WriteDue
<1>14. DoneStaysDone'
  <2>1. \A j \in Ids : order[j].status \in {"NONE", "FILLED", "CANCELED"} =>
            order'[j].status \in {"NONE", "FILLED", "CANCELED"}
    BY <1>2 DEF OrdersStay
  <2> QED BY <1>1, <2>1 DEF PersistInv, DoneStaysDone
<1>15. StopsWhole'
  <2>1. \A j \in Ids : isStopOrder(order'[j]) => order'[j] = order[j]
    BY <1>2 DEF OrdersStay
  <2> QED BY <1>1, <1>5, <2>1 DEF PersistInv, StopsWhole
<1>16. Balance'
  <2>1. \A j \in Ids : order'[j].qty = order[j].qty
    BY <1>2 DEF OrdersStay
  <2> QED BY <1>1, <1>4, <1>5, <2>1 DEF PersistInv, Balance
<1> QED BY <1>8, <1>9, <1>10, <1>11, <1>12, <1>13, <1>14, <1>15, <1>16
        DEF PersistInv

----------------------------------------------------------------------------
(* The database, crashes and restarts.                                     *)

\* Steps that leave the book and the tables alone.
LEMMA SamePersists ==
  ASSUME PersistInv, UNCHANGED <<vars, dbVars, write, used, dirty>>,
         saved' = NoId \/ UNCHANGED <<saved, phase>>,
         restoring' \in Seq(Ids),
         \A k \in 1 .. Len(restoring') : ~Made(restoring'[k]) => Active(restoring'[k])
  PROVE  PersistInv'
<1>1. UNCHANGED <<order, pc, pending_trades, pending_order_updates, incoming, delivered,
                  stop_ids, row, rows, db_traded, write, used, dirty>>
  BY DEF vars, callVars, history, dbVars
<1>2. \A j \in Ids : /\ (Made(j)' <=> Made(j)) /\ (Rowed(j)' <=> Rowed(j))
                     /\ ReportDue(j)' <=> ReportDue(j)
                     /\ WriteDue(j)' <=> WriteDue(j)
                     /\ Triggered(j)' <=> Triggered(j)
  BY <1>1 DEF Made, Rowed, ReportDue, WriteDue, Triggered
<1>3. StoreType'
  BY <1>1 DEF PersistInv, StoreType
<1>4. UsedOnce'
  BY <1>1, <1>2 DEF PersistInv, UsedOnce
<1>5. SavedNew'
  BY <1>1 DEF PersistInv, SavedNew, Made
<1>6. RestoresActive'
  BY <1>1 DEF RestoresActive, Made, Active
<1>7. WritesTrue'
  BY <1>1 DEF PersistInv, WritesTrue, Made, Rowed
<1>8. CallsRight'
  BY <1>1, <1>2 DEF PersistInv, CallsRight, Rowed
<1>9. RowsCurrent' /\ RemCurrent' /\ DoneStaysDone'
  BY <1>1, <1>2 DEF PersistInv, RowsCurrent, RemCurrent, DoneStaysDone
<1>10. StopsWhole' /\ Balance'
  BY <1>1, <1>2 DEF PersistInv, StopsWhole, Balance
<1> QED BY <1>3, <1>4, <1>5, <1>6, <1>7, <1>8, <1>9, <1>10 DEF PersistInv

\* saveOrder: a new row under a new uuid.
LEMMA SavePersists ==
  ASSUME BookInv, PersistInv, NEW id \in Ids, NEW in \in Inputs, saveOrder(id, in)
  PROVE  PersistInv'
<1>1. UNCHANGED <<order, pc, pending_trades, pending_order_updates, incoming, delivered,
                  stop_ids, db_traded, write, phase, restoring, dirty>>
  BY DEF saveOrder, vars, callVars, history
<1>2. /\ phase = "serving" /\ pc[IoThread] = "idle" /\ write[IoThread] = NoWrite
      /\ id \notin used /\ used' = used \cup {id}
      /\ rows' = Append(rows, id) /\ saved' = id
  BY DEF saveOrder, IoFree
<1>3. /\ NewOrder(in) \in Orders /\ NewOrder(in).status = "PENDING"
      /\ NewOrder(in).rem = NewOrder(in).qty
  BY NewOrderFields
<1>4. /\ row' \in [Ids -> Orders] /\ row'[id] = NewOrder(in)
      /\ \A j \in Ids \ {id} : row'[j] = row[j]
  BY <1>3 DEF saveOrder, PersistInv, StoreType
<1>5. ~Made(id) /\ ~Rowed(id) /\ db_traded[id] = 0
  BY <1>2 DEF PersistInv, UsedOnce
<1>6. \A j \in Ids : /\ Made(j)' <=> Made(j)
                     /\ Rowed(j)' <=> Rowed(j) \/ j = id
                     /\ ReportDue(j)' <=> ReportDue(j)
                     /\ WriteDue(j)' <=> WriteDue(j)
                     /\ Triggered(j)' <=> Triggered(j)
  BY <1>1, <1>3, <1>4 DEF Made, Rowed, ReportDue, WriteDue, Triggered
<1>7. StoreType'
  <2>1. rows' \in Seq(Ids)
    BY <1>2 DEF PersistInv, StoreType
  <2> QED BY <1>1, <1>2, <1>4, <2>1 DEF PersistInv, StoreType
<1>8. UsedOnce'
  BY <1>1, <1>2, <1>6 DEF PersistInv, UsedOnce
<1>9. SavedNew'
  BY <1>1, <1>2, <1>4, <1>5 DEF SavedNew, Made
<1>10. RestoresActive'
  <2>1. \A k \in 1 .. Len(restoring) : restoring[k] \in Ids
    BY DEF PersistInv, StoreType
  <2> QED BY <1>1, <1>3, <1>4, <2>1 DEF PersistInv, RestoresActive, Made, Active
<1>11. WritesTrue'
  <2>1. ASSUME NEW t \in Threads, write[t] # NoWrite
        PROVE  write[t].id \in Ids /\ write[t].id # id
    BY <1>5, <2>1 DEF PersistInv, StoreType, WritesTrue
  <2> QED BY <1>1, <1>4, <2>1 DEF PersistInv, WritesTrue, Made, Rowed
<1>12. CallsRight'
  <2>1. \A t \in Threads : incoming[t] # id
    BY <1>5 DEF PersistInv, CallsRight, ReportDue
  <2> QED BY <1>1, <1>4, <1>6, <2>1 DEF PersistInv, CallsRight, Rowed
<1>13. RowsCurrent'
  BY <1>1, <1>4, <1>5, <1>6 DEF PersistInv, RowsCurrent, Made
<1>14. RemCurrent'
  BY <1>1, <1>4, <1>5, <1>6 DEF PersistInv, RemCurrent
<1>15. DoneStaysDone'
  BY <1>1, <1>3, <1>4 DEF PersistInv, DoneStaysDone
<1>16. StopsWhole'
  BY <1>1, <1>3, <1>4, <1>5, <1>6 DEF PersistInv, StopsWhole
<1>17. Balance'
  <2>1. NewOrder(in).rem \in Nat
    BY <1>3 DEF Orders
  <2>2. row'[id].rem + db_traded[id] = row'[id].qty
    BY <1>3, <1>4, <1>5, <2>1
  <2> QED BY <1>1, <1>4, <1>5, <1>6, <2>2 DEF PersistInv, Balance
<1> QED BY <1>7, <1>8, <1>9, <1>10, <1>11, <1>12, <1>13, <1>14, <1>15, <1>16, <1>17
        DEF PersistInv

LEMMA NothingDelivered ==
  BookInv => \A i \in Ids : order[i].status = "NONE" => delivered[i] = 0
  BY FreshUndelivered DEF BookInv

\* saveTrade: the trades table grows by what is delivered.
LEMMA TradePersists ==
  ASSUME BookInv, BookInv', PersistInv, NEW t \in Threads, saveTrade(t)
  PROVE  PersistInv'
<1>1. UNCHANGED <<order, pc, pending_order_updates, incoming, stop_ids, row, rows, saved,
                  write, phase, restoring, used, dirty>>
  BY DEF saveTrade, NotifyTrade, runVars
<1>2. pc[t] = "notify" /\ pending_trades[t] # <<>>
      /\ pending_trades' = [pending_trades EXCEPT ![t] = Tail(@)]
  BY DEF saveTrade, NotifyTrade
<1>3. t = IoThread
  BY <1>2 DEF PersistInv, CallsRight
<1>4. /\ pending_trades \in [Threads -> Seq(Trades)]
      /\ delivered \in [Ids -> Nat] /\ db_traded \in [Ids -> Nat]
  BY DEF BookInv, IInv, TypeOK, PersistInv, StoreType
<1>5. PICK a \in Ids, b \in Ids, q \in Nat :
          /\ a # b
          /\ delivered' = [delivered EXCEPT ![a] = @ + q, ![b] = @ + q]
          /\ db_traded' = [db_traded EXCEPT ![a] = @ + q, ![b] = @ + q]
  <2>1. PICK h \in Trades : h = Head(pending_trades[t]) /\ h = pending_trades[t][1]
    BY <1>2, <1>4
  <2>2. h.buy \in Ids /\ h.sell \in Ids /\ h.qty \in Nat
    BY DEF Trades
  <2>3. h.buy # h.sell
    <3>1. 1 \in 1 .. Len(pending_trades[t])
      BY <1>2, <1>4
    <3> QED BY <2>1, <3>1 DEF BookInv, DeliverInv
  <2>4. /\ delivered' = [delivered EXCEPT ![h.buy] = @ + h.qty, ![h.sell] = @ + h.qty]
        /\ db_traded' = [db_traded EXCEPT ![h.buy] = @ + h.qty, ![h.sell] = @ + h.qty]
    BY <2>1 DEF saveTrade, NotifyTrade
  <2> QED BY <2>2, <2>3, <2>4
<1>6. /\ db_traded' \in [Ids -> Nat]
      /\ \A j \in Ids : \E d \in Nat : /\ delivered'[j] = delivered[j] + d
                                       /\ db_traded'[j] = db_traded[j] + d
  <2>1. \A f \in [Ids -> Nat] : \A j \in Ids :
            [f EXCEPT ![a] = @ + q, ![b] = @ + q][j] =
                f[j] + (IF j \in {a, b} THEN q ELSE 0)
    BY <1>5
  <2>2. ASSUME NEW j \in Ids
        PROVE  \E d \in Nat : /\ delivered'[j] = delivered[j] + d
                              /\ db_traded'[j] = db_traded[j] + d
    <3>1. PICK d \in Nat : d = IF j \in {a, b} THEN q ELSE 0
      OBVIOUS
    <3> QED BY <1>4, <1>5, <2>1, <3>1
  <2>3. DOMAIN db_traded' = Ids /\ db_traded' = [j \in Ids |-> db_traded'[j]]
    BY <1>4, <1>5
  <2>4. \A j \in Ids : db_traded'[j] \in Nat
    BY <1>4, <2>2
  <2> QED BY <2>2, <2>3, <2>4
<1>7. ASSUME NEW j \in Ids, ~Made(j)
      PROVE  db_traded'[j] = db_traded[j]
  <2>1. delivered[j] = 0
    BY <1>7, FreshUndelivered DEF BookInv, Made
  <2>2. order'[j].status = "NONE"
    BY <1>1, <1>7 DEF Made
  <2>3. (\A i \in Ids : order[i].status = "NONE" => delivered[i] = 0)'
    BY NothingDelivered, PTL
  <2>4. delivered'[j] = 0
    BY <2>2, <2>3
  <2>5. PICK d \in Nat : /\ delivered'[j] = delivered[j] + d
                         /\ db_traded'[j] = db_traded[j] + d
    BY <1>6
  <2>6. d = 0
    BY <2>1, <2>4, <2>5
  <2>7. db_traded[j] \in Nat
    BY <1>4
  <2> QED BY <2>5, <2>6, <2>7
<1>8. \A j \in Ids : /\ (Made(j)' <=> Made(j)) /\ (Rowed(j)' <=> Rowed(j))
                     /\ ReportDue(j)' <=> ReportDue(j)
                     /\ WriteDue(j)' <=> WriteDue(j)
                     /\ Triggered(j)' <=> Triggered(j)
  BY <1>1 DEF Made, Rowed, ReportDue, WriteDue, Triggered
<1>9. StoreType'
  BY <1>1, <1>6 DEF PersistInv, StoreType
<1>10. UsedOnce'
  BY <1>1, <1>7, <1>8 DEF PersistInv, UsedOnce
<1>11. SavedNew' /\ RestoresActive' /\ WritesTrue'
  BY <1>1 DEF PersistInv, SavedNew, RestoresActive, WritesTrue, Made, Rowed, Active
<1>12. CallsRight'
  BY <1>1, <1>2, <1>3, <1>4, <1>8 DEF PersistInv, CallsRight, Rowed
<1>13. RowsCurrent' /\ RemCurrent' /\ DoneStaysDone' /\ StopsWhole'
  BY <1>1, <1>8 DEF PersistInv, RowsCurrent, RemCurrent, DoneStaysDone, StopsWhole
<1>14. Balance'
  <2>1. ASSUME NEW j \in Ids, ~dirty, Rowed(j), Made(j)
        PROVE  db_traded'[j] + order[j].qty = row[j].qty + delivered'[j]
    <3>1. db_traded[j] + order[j].qty = row[j].qty + delivered[j]
      BY <2>1 DEF PersistInv, Balance
    <3>2. order[j].qty \in Nat /\ row[j].qty \in Nat
      BY DEF BookInv, IInv, TypeOK, PersistInv, StoreType, Orders
    <3>3. PICK d \in Nat : /\ delivered'[j] = delivered[j] + d
                           /\ db_traded'[j] = db_traded[j] + d
      BY <1>6
    <3>4. delivered[j] \in Nat /\ db_traded[j] \in Nat
      BY <1>4
    <3> QED BY <3>1, <3>2, <3>3, <3>4
  <2> QED BY <1>1, <1>7, <1>8, <2>1 DEF PersistInv, Balance
<1> QED BY <1>9, <1>10, <1>11, <1>12, <1>13, <1>14 DEF PersistInv

\* What is left of a list of updates after its first.
LEMMA RestOfUpdates ==
  ASSUME NEW p \in Seq(Ids), p # <<>>
  PROVE  /\ Head(p) \in Ids /\ InQueue(p, Head(p)) /\ Tail(p) \in Seq(Ids)
         /\ \A j : InQueue(p, j) => j = Head(p) \/ InQueue(Tail(p), j)
         /\ \A j : InQueue(Tail(p), j) => InQueue(p, j)
<1>1. /\ Len(p) \in Nat \ {0} /\ Head(p) = p[1] /\ Head(p) \in Ids
      /\ Tail(p) \in Seq(Ids) /\ Len(Tail(p)) = Len(p) - 1
      /\ \A i \in 1 .. Len(p) - 1 : Tail(p)[i] = p[i + 1]
  OBVIOUS
<1>2. ASSUME NEW i \in 1 .. Len(p), i # 1
      PROVE  InQueue(Tail(p), p[i])
  <2>1. i - 1 \in 1 .. Len(Tail(p)) /\ Tail(p)[i - 1] = p[i]
    BY <1>1, <1>2
  <2> QED BY <2>1 DEF InQueue
<1>3. ASSUME NEW i \in 1 .. Len(Tail(p))
      PROVE  InQueue(p, Tail(p)[i])
  <2>1. i + 1 \in 1 .. Len(p) /\ Tail(p)[i] = p[i + 1]
    BY <1>1
  <2> QED BY <2>1 DEF InQueue
<1>4. InQueue(p, Head(p))
  BY <1>1 DEF InQueue
<1>5. \A j : InQueue(p, j) => j = Head(p) \/ InQueue(Tail(p), j)
  BY <1>1, <1>2 DEF InQueue
<1>6. \A j : InQueue(Tail(p), j) => InQueue(p, j)
  BY <1>3 DEF InQueue
<1> QED BY <1>1, <1>4, <1>5, <1>6

\* updateOrder reads an order x of which a report is owed; no other report is
\* forgotten.
LEMMA ReadEffect ==
  ASSUME BookInv, PersistInv, NEW t \in Threads, ReadOrder(t)
  PROVE  \E x \in Ids :
             /\ Made(x) /\ (t # IoThread => ~Rowed(x))
             /\ \/ write' = write
                \/ write' = [write EXCEPT ![t] = [id |-> x, view |-> View(order[x])]]
             /\ \A j \in Ids : ReportDue(j) =>
                    ReportDue(j)' \/ (j = x /\ write'[t].id = x)
             /\ \A j \in Ids : ReportDue(j)' => ReportDue(j)
             /\ pc[t] = "notify" /\ pc'[t] \in {"idle", "notify"}
             /\ IF pc'[t] = "idle" THEN pending_order_updates'[t] = <<>>
                                   ELSE incoming'[t] \in Ids
             /\ t # IoThread => /\ pending_order_updates'[t] = <<>>
                                /\ incoming'[t] \in Ids => ~Rowed(incoming'[t])
             /\ \A u \in Threads \ {t} :
                    /\ pc'[u] = pc[u] /\ incoming'[u] = incoming[u]
                    /\ pending_order_updates'[u] = pending_order_updates[u]
<1>1. /\ pc \in [Threads -> {"idle", "match", "scan", "notify"}]
      /\ incoming \in [Threads -> Ids \cup {NoId}]
      /\ pending_order_updates \in [Threads -> Seq(Ids)]
      /\ write \in [Threads -> [id : Ids \cup {NoId}, view : Views]]
  BY DEF BookInv, IInv, TypeOK, PersistInv, StoreType
<1>2. /\ \A id \in Ids : ReportDue(id) => Made(id)
      /\ IF pc[t] = "idle" THEN pending_order_updates[t] = <<>> ELSE incoming[t] \in Ids
      /\ t # IoThread => /\ pending_order_updates[t] = <<>>
                         /\ incoming[t] \in Ids => ~Rowed(incoming[t])
  BY DEF PersistInv, CallsRight
<1>3. CASE NotifyUpdate(t)
  <2>0. /\ pc[t] = "notify" /\ pending_order_updates[t] # <<>>
        /\ UNCHANGED <<pc, incoming>>
        /\ pending_order_updates' = [pending_order_updates EXCEPT ![t] = Tail(@)]
    BY <1>3 DEF NotifyUpdate
  <2>1. PICK p \in Seq(Ids) : p = pending_order_updates[t] /\ p # <<>>
    BY <1>1, <2>0
  <2>2. PICK x \in Ids : x = Head(p)
    BY <2>1, RestOfUpdates
  <2>3. /\ InQueue(p, x) /\ \A j : InQueue(p, j) => j = x \/ InQueue(Tail(p), j)
        /\ \A j : InQueue(Tail(p), j) => InQueue(p, j)
    BY <2>1, <2>2, RestOfUpdates
  <2>4. write' = IF x = incoming[t] THEN write
                 ELSE [write EXCEPT ![t] = [id |-> x, view |-> View(order[x])]]
    BY <1>3, <2>1, <2>2 DEF ReadOrder, NotifyUpdate, NotifyIncoming
  <2>5. /\ pending_order_updates'[t] = Tail(p)
        /\ \A u \in Threads \ {t} : pending_order_updates'[u] = pending_order_updates[u]
    BY <1>1, <2>0, <2>1
  <2>6. Made(x)
    BY <1>2, <2>1, <2>3 DEF ReportDue
  <2>7. t = IoThread
    BY <1>2, <2>1
  <2>8. write'[t].id = x \/ x = incoming[t]
    BY <1>1, <2>4
  <2>9. \A j \in Ids : ReportDue(j) => ReportDue(j)' \/ (j = x /\ write'[t].id = x)
    <3>1. ASSUME NEW j \in Ids, NEW u \in Threads, incoming[u] = j
          PROVE  ReportDue(j)'
      BY <2>0, <3>1 DEF ReportDue
    <3>2. ASSUME NEW j \in Ids, NEW u \in Threads, InQueue(pending_order_updates[u], j)
          PROVE  ReportDue(j)' \/ j = x
      BY <2>1, <2>3, <2>5, <3>2 DEF ReportDue
    <3>3. ReportDue(x)' \/ write'[t].id = x
      BY <2>8, <3>1
    <3>4. \A j \in Ids : ReportDue(j) => ReportDue(j)' \/ j = x
      BY <3>1, <3>2 DEF ReportDue
    <3> QED BY <3>3, <3>4
  <2>10. \A j \in Ids : ReportDue(j)' => ReportDue(j)
    BY <2>0, <2>1, <2>3, <2>5 DEF ReportDue
  <2>11. IF pc'[t] = "idle" THEN pending_order_updates'[t] = <<>> ELSE incoming'[t] \in Ids
    BY <1>2, <2>0
  <2>12. /\ pc'[t] \in {"idle", "notify"}
         /\ \A u \in Threads \ {t} : pc'[u] = pc[u] /\ incoming'[u] = incoming[u]
    BY <2>0
  <2> QED BY <2>0, <2>4, <2>5, <2>6, <2>7, <2>9, <2>10, <2>11, <2>12
<1>4. CASE NotifyIncoming(t) /\ ~NotifyUpdate(t)
  <2>0. /\ pc[t] = "notify" /\ pending_order_updates[t] = <<>>
        /\ UNCHANGED pending_order_updates
        /\ pc' = [pc EXCEPT ![t] = "idle"] /\ incoming' = [incoming EXCEPT ![t] = NoId]
    BY <1>4 DEF NotifyIncoming
  <2>1. PICK x \in Ids : x = incoming[t]
    BY <1>2, <2>0
  <2>2. write' = [write EXCEPT ![t] = [id |-> x, view |-> View(order[x])]]
    BY <1>4, <2>1 DEF ReadOrder
  <2>3. Made(x) /\ (t # IoThread => ~Rowed(x))
    BY <1>2, <2>1 DEF ReportDue
  <2>4. /\ incoming'[t] = NoId /\ pc'[t] = "idle" /\ write'[t].id = x
        /\ \A u \in Threads \ {t} : incoming'[u] = incoming[u] /\ pc'[u] = pc[u]
    BY <1>1, <2>0, <2>2
  <2>5. \A j \in Ids : ReportDue(j) => ReportDue(j)' \/ (j = x /\ write'[t].id = x)
    <3>1. ASSUME NEW j \in Ids, NEW u \in Threads, incoming[u] = j
          PROVE  ReportDue(j)' \/ j = x
      BY <2>1, <2>4, <3>1 DEF ReportDue
    <3>2. ASSUME NEW j \in Ids, NEW u \in Threads, InQueue(pending_order_updates[u], j)
          PROVE  ReportDue(j)'
      BY <2>0, <3>2 DEF ReportDue
    <3> QED BY <2>4, <3>1, <3>2 DEF ReportDue
  <2>6. \A j \in Ids : ReportDue(j)' => ReportDue(j)
    BY <2>0, <2>4, IdsAssumption DEF ReportDue
  <2> QED BY <2>0, <2>2, <2>3, <2>4, <2>5, <2>6, IdsAssumption
<1> QED BY <1>3, <1>4 DEF ReadOrder

LEMMA ReadPersists ==
  ASSUME BookInv, PersistInv, NEW t \in Threads, ReadOrder(t)
  PROVE  PersistInv'
<1>1. UNCHANGED <<order, pending_trades, delivered, stop_ids, row, rows, db_traded, saved,
                  phase, restoring, used, dirty>>
  BY DEF ReadOrder, NotifyUpdate, NotifyIncoming, dbVars
<1>2. PICK x \in Ids :
          /\ Made(x) /\ (t # IoThread => ~Rowed(x))
          /\ \/ write' = write
             \/ write' = [write EXCEPT ![t] = [id |-> x, view |-> View(order[x])]]
          /\ \A j \in Ids : ReportDue(j) =>
                 ReportDue(j)' \/ (j = x /\ write'[t].id = x)
          /\ \A j \in Ids : ReportDue(j)' => ReportDue(j)
          /\ pc[t] = "notify" /\ pc'[t] \in {"idle", "notify"}
          /\ IF pc'[t] = "idle" THEN pending_order_updates'[t] = <<>>
                                ELSE incoming'[t] \in Ids
          /\ t # IoThread => /\ pending_order_updates'[t] = <<>>
                             /\ incoming'[t] \in Ids => ~Rowed(incoming'[t])
          /\ \A u \in Threads \ {t} :
                 /\ pc'[u] = pc[u] /\ incoming'[u] = incoming[u]
                 /\ pending_order_updates'[u] = pending_order_updates[u]
  BY ReadEffect
<1>3. /\ write[t] = NoWrite
      /\ write \in [Threads -> [id : Ids \cup {NoId}, view : Views]]
      /\ \A u \in Threads : write[u] = NoWrite \/ write[u].id \in Ids
  BY DEF ReadOrder, PersistInv, StoreType
<1>4. /\ write' \in [Threads -> [id : Ids \cup {NoId}, view : Views]]
      /\ \A u \in Threads \ {t} : write'[u] = write[u]
      /\ \/ write'[t] = NoWrite
         \/ write'[t].id = x /\ write'[t].view = View(order[x])
  <2>1. order[x] \in Orders
    BY DEF BookInv, IInv, TypeOK
  <2>2. [id |-> x, view |-> View(order[x])] \in [id : Ids \cup {NoId}, view : Views]
    BY <2>1, ViewFields
  <2> QED BY <1>2, <1>3, <2>2
<1>5. \A j \in Ids : /\ (Made(j)' <=> Made(j)) /\ (Rowed(j)' <=> Rowed(j))
                     /\ Triggered(j)' <=> Triggered(j)
  BY <1>1 DEF Made, Rowed, Triggered
<1>6. \A j \in Ids : WriteDue(j) => WriteDue(j)'
  <2>1. \A j \in Ids : ReportDue(j) => WriteDue(j)'
    BY <1>2 DEF WriteDue
  <2>2. ASSUME NEW j \in Ids, NEW u \in Threads, write[u].id = j
        PROVE  WriteDue(j)'
    <3>1. u # t
      BY <1>3, <2>2, NoWriteFields
    <3> QED BY <1>4, <2>2, <3>1 DEF WriteDue
  <2> QED BY <2>1, <2>2 DEF WriteDue
<1>7. StoreType'
  <2>1. \A u \in Threads : write'[u] = NoWrite \/ write'[u].id \in Ids
    BY <1>3, <1>4
  <2> QED BY <1>1, <1>4, <2>1 DEF PersistInv, StoreType
<1>8. UsedOnce'
  BY <1>1, <1>5 DEF PersistInv, UsedOnce
<1>9. SavedNew'
  BY <1>1, <1>2, <1>4, MainThreadAssumption DEF PersistInv, SavedNew, Made
<1>10. RestoresActive'
  BY <1>1 DEF PersistInv, RestoresActive, Made, Active
<1>11. WritesTrue'
  <2>1. ASSUME NEW u \in Threads, write'[u] # NoWrite
        PROVE  /\ Made(write'[u].id) /\ pc'[u] \in {"idle", "notify"}
               /\ Rowed(write'[u].id) => /\ u = IoThread
                                         /\ write'[u].view = View(order[write'[u].id])
    <3>1. CASE u = t
      BY <1>2, <1>4, <2>1, <3>1
    <3>2. CASE u # t
      BY <1>2, <1>4, <2>1, <3>2 DEF PersistInv, WritesTrue
    <3> QED BY <3>1, <3>2
  <2> QED BY <1>1, <2>1 DEF WritesTrue, Made, Rowed
<1>12. CallsRight'
  <2>1. \A id \in Ids : ReportDue(id)' => Made(id)'
    BY <1>2, <1>5 DEF PersistInv, CallsRight
  <2>2. ASSUME NEW u \in Threads
        PROVE  IF pc'[u] = "idle" THEN pending_order_updates'[u] = <<>>
                                  ELSE incoming'[u] \in Ids
    BY <1>2 DEF PersistInv, CallsRight
  <2>3. ASSUME NEW u \in Threads \ {IoThread}
        PROVE  /\ pc'[u] \in {"idle", "notify"} /\ pending_trades'[u] = <<>>
               /\ pending_order_updates'[u] = <<>>
               /\ incoming'[u] \in Ids => ~Rowed(incoming'[u])
    BY <1>1, <1>2 DEF PersistInv, CallsRight
  <2> QED BY <1>1, <2>1, <2>2, <2>3 DEF CallsRight, Rowed
<1>13. RowsCurrent' /\ RemCurrent' /\ DoneStaysDone'
  BY <1>1, <1>5, <1>6 DEF PersistInv, RowsCurrent, RemCurrent, DoneStaysDone
<1>14. StopsWhole' /\ Balance'
  BY <1>1, <1>5 DEF PersistInv, StopsWhole, Balance
<1> QED BY <1>7, <1>8, <1>9, <1>10, <1>11, <1>12, <1>13, <1>14 DEF PersistInv

\* The UPDATE statement sets three columns of one row.
UpdatedTable(f, id, v) ==
    [f EXCEPT ![id].rem = v.rem, ![id].status = v.status, ![id].type = v.type]

LEMMA RowUpdated ==
  ASSUME NEW f \in [Ids -> Orders], NEW id \in Ids, NEW v \in Views
  PROVE  \E r \in Orders :
             /\ UpdatedTable(f, id, v) = [f EXCEPT ![id] = r]
             /\ r.rem = v.rem /\ r.status = v.status /\ r.type = v.type
             /\ r.qty = f[id].qty /\ r.side = f[id].side
             /\ r.price = f[id].price /\ r.stop = f[id].stop
<1>0. PICK rem \in Nat, st \in Statuses \cup {"NONE"}, ty \in OrderTypes :
          v.rem = rem /\ v.status = st /\ v.type = ty
  BY DEF Views
<1>1. PICK r1 : r1 = [f[id] EXCEPT !.rem = rem]
  OBVIOUS
<1>2. PICK r2 : r2 = [r1 EXCEPT !.status = st]
  OBVIOUS
<1>3. PICK r : r = [r2 EXCEPT !.type = ty]
  OBVIOUS
<1>4. /\ r \in Orders /\ r.rem = rem /\ r.status = st /\ r.type = ty
      /\ r.qty = f[id].qty /\ r.side = f[id].side
      /\ r.price = f[id].price /\ r.stop = f[id].stop
  BY <1>1, <1>2, <1>3 DEF Orders
<1>5. PICK f1 : f1 = [f EXCEPT ![id] = r1]
  OBVIOUS
<1>6. f1[id] = r1
  BY <1>5
<1>7. PICK f2 : f2 = [f1 EXCEPT ![id] = r2]
  OBVIOUS
<1>8. f2[id] = r2
  BY <1>5, <1>7
<1>9. [f2 EXCEPT ![id] = r] = [f EXCEPT ![id] = r]
  BY <1>5, <1>7
<1>10. UpdatedTable(f, id, v) = [f2 EXCEPT ![id] = r]
  BY <1>0, <1>1, <1>2, <1>3, <1>5, <1>6, <1>7, <1>8 DEF UpdatedTable
<1> QED BY <1>0, <1>4, <1>9, <1>10

\* updateOrder of order id by thread t: the row becomes what the order still is.
Written(t, id) ==
    /\ id = write[t].id /\ write[t] # NoWrite /\ Made(id)
    /\ Rowed(id) => t = IoThread /\ write[t].view = View(order[id])
    /\ write' \in [Threads -> [id : Ids \cup {NoId}, view : Views]]
    /\ write'[t] = NoWrite /\ \A u \in Threads \ {t} : write'[u] = write[u]
    /\ row' \in [Ids -> Orders]
    /\ \A j \in Ids \ {id} : row'[j] = row[j]
    /\ ~Rowed(id) => row' = row
    /\ Rowed(id) => /\ row'[id].type = order[id].type
                    /\ row'[id].rem = order[id].rem
                    /\ row'[id].status = order[id].status
                    /\ row'[id].qty = row[id].qty
                    /\ row'[id].side = row[id].side
                    /\ row'[id].price = row[id].price
                    /\ row'[id].stop = row[id].stop

LEMMA UpdateEffect ==
  ASSUME BookInv, PersistInv, NEW t \in Threads, updateOrder(t)
  PROVE  \E id \in Ids : Written(t, id)
<1>2. PICK id \in Ids : id = write[t].id
  BY DEF updateOrder, PersistInv, StoreType
<1>3. /\ write[t] # NoWrite /\ Made(id)
      /\ Rowed(id) => t = IoThread /\ write[t].view = View(order[id])
  BY <1>2 DEF updateOrder, PersistInv, WritesTrue
<1>4. /\ write \in [Threads -> [id : Ids \cup {NoId}, view : Views]]
      /\ row \in [Ids -> Orders] /\ order \in [Ids -> Orders]
      /\ write' = [write EXCEPT ![t] = NoWrite]
  BY DEF updateOrder, BookInv, IInv, TypeOK, PersistInv, StoreType
<1>5. /\ write' \in [Threads -> [id : Ids \cup {NoId}, view : Views]]
      /\ write'[t] = NoWrite /\ \A u \in Threads \ {t} : write'[u] = write[u]
  BY <1>4, NoWriteFields
<1>6. /\ row' \in [Ids -> Orders]
      /\ \A j \in Ids \ {id} : row'[j] = row[j]
      /\ ~Rowed(id) => row' = row
      /\ Rowed(id) => /\ row'[id].type = order[id].type
                      /\ row'[id].rem = order[id].rem
                      /\ row'[id].status = order[id].status
                      /\ row'[id].qty = row[id].qty
                      /\ row'[id].side = row[id].side
                      /\ row'[id].price = row[id].price
                      /\ row'[id].stop = row[id].stop
  <2>1. CASE ~Rowed(id)
    BY <1>2, <1>4, <2>1 DEF updateOrder, Rowed
  <2>2. CASE Rowed(id)
    <3>1. PICK v \in Views : v = write[t].view
      BY <1>4
    <3>2. v.rem = order[id].rem /\ v.status = order[id].status /\ v.type = order[id].type
      BY <1>3, <1>4, <2>2, <3>1, ViewFields
    <3>3. row' = UpdatedTable(row, id, v)
      BY <1>2, <2>2, <3>1 DEF updateOrder, Rowed, UpdatedTable
    <3>4. row \in [Ids -> Orders]
      BY <1>4
    <3>5. PICK r \in Orders :
              /\ UpdatedTable(row, id, v) = [row EXCEPT ![id] = r]
              /\ r.rem = v.rem /\ r.status = v.status /\ r.type = v.type
              /\ r.qty = row[id].qty /\ r.side = row[id].side
              /\ r.price = row[id].price /\ r.stop = row[id].stop
      BY <3>4, RowUpdated
    <3>6. row' = [row EXCEPT ![id] = r]
      BY <3>3, <3>5
    <3>7. row'[id] = r /\ row' \in [Ids -> Orders] /\ \A j \in Ids \ {id} : row'[j] = row[j]
      BY <3>4, <3>6
    <3> QED BY <2>2, <3>2, <3>5, <3>7
  <2> QED BY <2>1, <2>2
<1> QED BY <1>2, <1>3, <1>5, <1>6 DEF Written

\* updateOrder writes what the order still is: by then the row is current.
LEMMA UpdatePersists ==
  ASSUME BookInv, PersistInv, NEW t \in Threads, updateOrder(t)
  PROVE  PersistInv'
<1>1. UNCHANGED <<order, pc, pending_trades, pending_order_updates, incoming, delivered,
                  stop_ids, rows, db_traded, saved, phase, restoring, used, dirty>>
  BY DEF updateOrder, vars, callVars, history
<1>2. PICK id \in Ids : Written(t, id)
  BY UpdateEffect
<1>3. /\ id = write[t].id /\ write[t] # NoWrite /\ Made(id)
      /\ Rowed(id) => t = IoThread /\ write[t].view = View(order[id])
  BY <1>2 DEF Written
<1>5. /\ write' \in [Threads -> [id : Ids \cup {NoId}, view : Views]]
      /\ write'[t] = NoWrite /\ \A u \in Threads \ {t} : write'[u] = write[u]
  BY <1>2 DEF Written
<1>6. /\ row' \in [Ids -> Orders]
      /\ \A j \in Ids \ {id} : row'[j] = row[j]
      /\ ~Rowed(id) => row' = row
      /\ Rowed(id) => /\ row'[id].type = order[id].type
                      /\ row'[id].rem = order[id].rem
                      /\ row'[id].status = order[id].status
                      /\ row'[id].qty = row[id].qty
  BY <1>2 DEF Written
<1>7. \A j \in Ids : /\ (Made(j)' <=> Made(j)) /\ (Rowed(j)' <=> Rowed(j))
                     /\ ReportDue(j)' <=> ReportDue(j)
                     /\ Triggered(j)' <=> Triggered(j)
  BY <1>1, <1>3, <1>6 DEF Made, Rowed, ReportDue, Triggered
<1>8. \A j \in Ids \ {id} : WriteDue(j) => WriteDue(j)'
  <2>1. ASSUME NEW j \in Ids \ {id}, NEW u \in Threads, write[u].id = j
        PROVE  WriteDue(j)'
    BY <1>3, <1>5, <2>1 DEF WriteDue
  <2> QED BY <1>7, <2>1 DEF WriteDue
<1>9. StoreType'
  <2>1. \A u \in Threads : write'[u] = NoWrite \/ write'[u].id \in Ids
    BY <1>5 DEF PersistInv, StoreType
  <2> QED BY <1>1, <1>5, <1>6, <2>1 DEF PersistInv, StoreType
<1>10. UsedOnce'
  BY <1>1, <1>7 DEF PersistInv, UsedOnce
<1>11. SavedNew'
  <2>1. ASSUME saved # NoId
        PROVE  saved \in Ids \ {id} /\ t # IoThread
    BY <1>3, <2>1 DEF PersistInv, SavedNew, StoreType
  <2> QED BY <1>1, <1>5, <1>6, <2>1, MainThreadAssumption DEF PersistInv, SavedNew, Made
<1>12. RestoresActive'
  <2>1. \A k \in 1 .. Len(restoring) : restoring[k] \in Ids
    BY DEF PersistInv, StoreType
  <2> QED BY <1>1, <1>3, <1>6, <2>1 DEF PersistInv, RestoresActive, Made, Active
<1>13. WritesTrue'
  <2>1. ASSUME NEW u \in Threads, write'[u] # NoWrite
        PROVE  u # t /\ write'[u] = write[u] /\ write[u].id \in Ids
    BY <1>5, <2>1 DEF PersistInv, StoreType
  <2>2. ASSUME NEW u \in Threads, write'[u] # NoWrite
        PROVE  /\ Made(write[u].id) /\ pc[u] \in {"idle", "notify"}
               /\ Rowed(write[u].id) => /\ u = IoThread
                                        /\ write[u].view = View(order[write[u].id])
    BY <2>1, <2>2 DEF PersistInv, WritesTrue
  <2>3. \A j \in Ids : Rowed(j) <=> row'[j].status # "NONE"
    BY <1>7 DEF Rowed
  <2> QED BY <1>1, <2>1, <2>2, <2>3 DEF WritesTrue, Made, Rowed
<1>14. CallsRight'
  <2>1. \A j \in Ids : Rowed(j) <=> row'[j].status # "NONE"
    BY <1>7 DEF Rowed
  <2> QED BY <1>1, <1>7, <2>1 DEF PersistInv, CallsRight, Rowed
<1>15. RowsCurrent'
  <2>1. Rowed(id) => View(row'[id]) = View(order[id])
    BY <1>6 DEF View
  <2> QED BY <1>1, <1>6, <1>7, <1>8, <2>1 DEF PersistInv, RowsCurrent, Rowed
<1>16. RemCurrent'
  BY <1>1, <1>6, <1>7, <1>8 DEF PersistInv, RemCurrent
<1>17. DoneStaysDone'
  BY <1>1, <1>6 DEF PersistInv, DoneStaysDone, Rowed
<1>18. StopsWhole'
  BY <1>1, <1>3, <1>6, <1>7 DEF PersistInv, StopsWhole, isStopOrder
<1>19. Balance'
  BY <1>1, <1>3, <1>6, <1>7 DEF PersistInv, Balance
<1> QED BY <1>9, <1>10, <1>11, <1>12, <1>13, <1>14, <1>15, <1>16, <1>17, <1>18, <1>19
        DEF PersistInv

\* A crash forgets the book; without a call in progress the tables balance.
LEMMA CrashPersists ==
  ASSUME BookInv, PersistInv, Crash
  PROVE  PersistInv'
<1>1. /\ UNCHANGED <<row, rows, db_traded, used>>
      /\ saved' = NoId /\ restoring' = <<>> /\ write' = [t \in Threads |-> NoWrite]
      /\ dirty' = (dirty \/ ~Quiet \/ phase = "restoring")
      /\ order' = [i \in Ids |-> NoOrder] /\ pc' = [t \in Threads |-> "idle"]
      /\ pending_trades' = [t \in Threads |-> <<>>]
      /\ pending_order_updates' = [t \in Threads |-> <<>>]
      /\ incoming' = [t \in Threads |-> NoId]
  BY DEF Crash, BookLost, dbVars
<1>2. \A j \in Ids : ~Made(j)' /\ (Rowed(j)' <=> Rowed(j)) /\ ~ReportDue(j)'
  BY <1>1, NoOrderIsOrder, IdsAssumption DEF Made, Rowed, ReportDue, InQueue
<1>3. StoreType'
  BY <1>1, NoWriteFields DEF PersistInv, StoreType
<1>4. UsedOnce'
  BY <1>1, <1>2 DEF PersistInv, UsedOnce
<1>5. SavedNew' /\ RestoresActive' /\ WritesTrue'
  BY <1>1 DEF SavedNew, RestoresActive, WritesTrue
<1>6. CallsRight'
  BY <1>1, <1>2, IdsAssumption DEF CallsRight
<1>7. RowsCurrent' /\ RemCurrent' /\ StopsWhole'
  <2>1. RowsCurrent' /\ RemCurrent'
    BY <1>2 DEF RowsCurrent, RemCurrent, Made
  <2> QED BY <1>1, <1>2, <2>1 DEF PersistInv, StopsWhole
<1>8. DoneStaysDone'
  BY <1>2 DEF DoneStaysDone, Made
<1>9. Balance'
  <2>1. ASSUME ~dirty', NEW j \in Ids, Rowed(j)
        PROVE  row[j].rem + db_traded[j] = row[j].qty
    BY <1>1, <2>1, QuietBalance DEF PersistInv, StoreType
  <2> QED BY <1>1, <1>2, <2>1 DEF Balance
<1> QED BY <1>3, <1>4, <1>5, <1>6, <1>7, <1>8, <1>9 DEF PersistInv

\* loadAllActiveOrders finds active orders.
LEMMA LoadPersists ==
  ASSUME PersistInv, loadAllActiveOrders
  PROVE  PersistInv'
<1> DEFINE active == {k \in 1 .. Len(rows) : Active(rows[k])}
<1>1. rows \in Seq(Ids) /\ Len(rows) \in Nat
  BY DEF PersistInv, StoreType
<1>2. IsFiniteSet(1 .. Len(rows)) /\ active \subseteq 1 .. Len(rows)
  BY <1>1, FS_Interval
<1>3. IsFiniteSet(active)
  BY <1>2, FS_Subset
<1>4. Cardinality(active) \in Nat
  BY <1>3, FS_CardinalityType
<1>5. PICK at \in [1 .. Cardinality(active) -> active] :
          restoring' = [i \in DOMAIN at |-> rows[at[i]]]
  BY DEF loadAllActiveOrders
<1>6. PICK n \in Nat : n = Cardinality(active)
  BY <1>4
<1>7. /\ restoring' = [i \in 1 .. n |-> rows[at[i]]]
      /\ \A i \in 1 .. n : at[i] \in active
  BY <1>5, <1>6
<1>8. \A i \in 1 .. n : rows[at[i]] \in Ids /\ Active(rows[at[i]])
  BY <1>1, <1>7
<1>9. restoring' \in Seq(Ids) /\ Len(restoring') = n
  BY <1>7, <1>8
<1>10. \A k \in 1 .. Len(restoring') : Active(restoring'[k])
  BY <1>7, <1>8, <1>9
<1>11. UNCHANGED <<vars, dbVars, write, used, dirty>> /\ saved' = saved
  BY DEF loadAllActiveOrders
<1>12. saved = NoId
  BY DEF PersistInv, SavedNew, loadAllActiveOrders
<1> QED BY <1>9, <1>10, <1>11, <1>12, SamePersists

\* A row that is restored: addOrder gets an order of which nothing is traded.
LEMMA RestoredOrder ==
  ASSUME PersistInv, RestoreNext
  PROVE  \E id \in Ids, N \in Orders :
             /\ id = Head(restoring) /\ N = FromRow(row[id])
             /\ N.rem = N.qty /\ N.rem = row[id].rem /\ N.type = row[id].type
             /\ ~Made(id) => Active(id)
             /\ N.rem > 0 => N.status \in {"PENDING", "PARTIAL"}
             /\ isStopOrder(N) /\ Rowed(id) => N.status = "PENDING"
<1>1. restoring \in Seq(Ids) /\ restoring # <<>> /\ row \in [Ids -> Orders]
  BY DEF PersistInv, StoreType, RestoreNext
<1>2. PICK id \in Ids : id = Head(restoring) /\ id = restoring[1]
  BY <1>1
<1>3. 1 \in 1 .. Len(restoring)
  BY <1>1
<1>4. ~Made(id) => Active(id)
  BY <1>2, <1>3 DEF PersistInv, RestoresActive
<1>5. row[id] \in Orders
  BY <1>1
<1>6. PICK N \in Orders :
          /\ N = FromRow(row[id])
          /\ N.rem = N.qty /\ N.rem = row[id].rem /\ N.type = row[id].type
          /\ N.rem > 0 => N.status \in {"PENDING", "PARTIAL"}
          /\ row[id].rem = row[id].qty => N.status = "PENDING"
  BY <1>5, FromRowFields
<1>7. isStopOrder(N) /\ Rowed(id) => N.status = "PENDING"
  BY <1>6 DEF PersistInv, StopsWhole, isStopOrder
<1> QED BY <1>2, <1>4, <1>6, <1>7

LEMMA RestorePersists ==
  ASSUME BookInv, PersistInv, RestoreNext
  PROVE  PersistInv' /\ BookInv'
<1>1. PICK id \in Ids, N \in Orders :
          /\ id = Head(restoring) /\ N = FromRow(row[id])
          /\ N.rem = N.qty /\ N.rem = row[id].rem /\ N.type = row[id].type
          /\ ~Made(id) => Active(id)
          /\ N.rem > 0 => N.status \in {"PENDING", "PARTIAL"}
          /\ isStopOrder(N) /\ Rowed(id) => N.status = "PENDING"
  BY RestoredOrder
<1>2. /\ write[IoThread] = NoWrite /\ phase = "restoring" /\ restoring # <<>>
      /\ restoring' = Tail(restoring)
      /\ UNCHANGED <<dbVars, saved, write, phase, dirty, used>>
  BY DEF RestoreNext
<1>3. saved = NoId
  BY <1>2 DEF PersistInv, SavedNew
<1>4. /\ restoring' \in Seq(Ids)
      /\ \A k \in 1 .. Len(restoring') :
             \E j \in 1 .. Len(restoring) : restoring'[k] = restoring[j]
  <2>1. PICK p \in Seq(Ids) : p = restoring /\ p # <<>>
    BY <1>2 DEF PersistInv, StoreType
  <2>2. /\ Tail(p) \in Seq(Ids) /\ Len(p) \in Nat /\ Len(Tail(p)) = Len(p) - 1
        /\ \A k \in 1 .. Len(Tail(p)) : Tail(p)[k] = p[k + 1]
    BY <2>1
  <2>3. \A k \in 1 .. Len(Tail(p)) : k + 1 \in 1 .. Len(p)
    BY <2>2
  <2>4. \A k \in 1 .. Len(Tail(p)) : \E j \in 1 .. Len(p) : Tail(p)[k] = p[j]
    BY <2>2, <2>3
  <2> QED BY <1>2, <2>1, <2>2, <2>4
<1>5. CASE addOrder(IoThread, id, N)
  <2>1. ~Made(id) /\ N.rem > 0
    BY <1>5 DEF addOrder, AddStop, AddPlain, Accepts, Made
  <2>2. Active(id) /\ Rowed(id) /\ id \in used
    BY <1>1, <2>1 DEF Active, Rowed, PersistInv, UsedOnce
  <2>3. UNCHANGED <<row, rows, db_traded, write, dirty>> /\ used' = used \cup {id}
    BY <1>2, <2>2 DEF dbVars
  <2>4. PersistInv'
    BY <1>1, <1>2, <1>3, <1>4, <1>5, <2>1, <2>2, <2>3, AddPersists
  <2>5. BookInv'
    BY <1>1, <1>5, <2>1, <2>2, BookAdd, MainThreadAssumption
  <2> QED BY <2>4, <2>5
<1>6. CASE UNCHANGED vars
  <2>1. \A k \in 1 .. Len(restoring') : ~Made(restoring'[k]) => Active(restoring'[k])
    BY <1>4 DEF PersistInv, RestoresActive
  <2>2. BookInv'
    BY <1>6, BookNext
  <2> QED BY <1>2, <1>3, <1>4, <1>6, <2>1, <2>2, SamePersists
<1> QED BY <1>1, <1>5, <1>6 DEF RestoreNext

----------------------------------------------------------------------------
(* Every step.                                                             *)

LEMMA PersistInit == PInit => BookInv /\ PersistInv
<1> SUFFICES ASSUME PInit PROVE BookInv /\ PersistInv
  OBVIOUS
<1>1. BookInv
  BY BookInit DEF PInit
<1>2. /\ order = [i \in Ids |-> NoOrder] /\ row = [i \in Ids |-> NoOrder]
      /\ db_traded = [i \in Ids |-> 0] /\ rows = <<>> /\ restoring = <<>>
      /\ saved = NoId /\ write = [t \in Threads |-> NoWrite] /\ used = {} /\ dirty = FALSE
      /\ pc = [t \in Threads |-> "idle"] /\ pending_trades = [t \in Threads |-> <<>>]
      /\ pending_order_updates = [t \in Threads |-> <<>>]
      /\ incoming = [t \in Threads |-> NoId]
  BY DEF PInit, Init
<1>3. \A j \in Ids : ~Made(j) /\ ~Rowed(j) /\ ~ReportDue(j)
  BY <1>2, NoOrderIsOrder, IdsAssumption DEF Made, Rowed, ReportDue, InQueue
<1>4. StoreType
  <2>0. dirty \in BOOLEAN /\ used \subseteq Ids
    BY <1>2
  <2>1. rows \in Seq(Ids) /\ restoring \in Seq(Ids)
    BY <1>2
  <2>2. row \in [Ids -> Orders] /\ db_traded \in [Ids -> Nat]
    BY <1>2, NoOrderIsOrder
  <2>3. /\ write \in [Threads -> [id : Ids \cup {NoId}, view : Views]]
        /\ \A t \in Threads : write[t] = NoWrite
    BY <1>2, NoWriteFields
  <2> QED BY <1>2, <2>0, <2>1, <2>2, <2>3 DEF StoreType
<1>5. UsedOnce
  BY <1>2, <1>3 DEF UsedOnce
<1>6. SavedNew /\ RestoresActive /\ WritesTrue
  BY <1>2 DEF SavedNew, RestoresActive, WritesTrue
<1>7. CallsRight
  BY <1>2, <1>3, IdsAssumption DEF CallsRight
<1>8. RowsCurrent /\ RemCurrent /\ DoneStaysDone
  BY <1>3 DEF RowsCurrent, RemCurrent, DoneStaysDone, Rowed, Made
<1>9. StopsWhole /\ Balance
  BY <1>3 DEF StopsWhole, Balance
<1> QED BY <1>1, <1>4, <1>5, <1>6, <1>7, <1>8, <1>9 DEF PersistInv

\* A new order from a caller's input is an order of which nothing is traded.
LEMMA NewIsNew ==
  ASSUME BookInv, NEW id \in Ids, NEW in \in Inputs,
         addOrder(IoThread, id, NewOrder(in))
  PROVE  /\ BookInv' /\ ~Made(id)
         /\ NewOrder(in) \in Orders /\ NewOrder(in).status = "PENDING"
         /\ NewOrder(in).rem = NewOrder(in).qty
<1>1. BookInv'
  BY BookNext, MainThreadAssumption DEF Next, Call
<1>2. ~Made(id)
  BY DEF addOrder, AddStop, AddPlain, Accepts, Made
<1> QED BY <1>1, <1>2, NewOrderFields

\* Requests that bring a new order.
LEMMA RequestsPersist ==
  ASSUME BookInv, PersistInv, NEW id \in Ids, NEW in \in Inputs,
         saveOrder(id, in) \/ AddGenerated(id, in)
  PROVE  BookInv' /\ PersistInv'
<1>1. CASE saveOrder(id, in)
  <2>1. UNCHANGED vars
    BY <1>1 DEF saveOrder
  <2> QED BY <1>1, <2>1, BookNext, SavePersists
<1>2. CASE AddGenerated(id, in)
  <2>1. /\ addOrder(IoThread, id, NewOrder(in)) /\ write[IoThread] = NoWrite
        /\ id \notin used /\ used' = used \cup {id} /\ saved = NoId
        /\ UNCHANGED <<row, rows, db_traded, saved, write, restoring, dirty>>
    BY <1>2 DEF AddGenerated, IoFree, dbVars, runVars
  <2>2. ~Rowed(id)
    BY <2>1 DEF PersistInv, UsedOnce
  <2>3. /\ restoring' \in Seq(Ids)
        /\ \A k \in 1 .. Len(restoring') :
               \E j \in 1 .. Len(restoring) : restoring'[k] = restoring[j]
    BY <2>1 DEF PersistInv, StoreType
  <2>4. /\ BookInv' /\ NewOrder(in) \in Orders /\ NewOrder(in).status = "PENDING"
        /\ NewOrder(in).rem = NewOrder(in).qty
    BY <2>1, NewIsNew
  <2>5. PersistInv'
    BY <2>1, <2>2, <2>3, <2>4, AddPersists
  <2> QED BY <2>4, <2>5
<1> QED BY <1>1, <1>2

LEMMA AddSavedPersists ==
  ASSUME BookInv, PersistInv, AddSaved
  PROVE  BookInv' /\ PersistInv'
<1>1. PICK id \in Ids : id = saved
  BY DEF AddSaved, PersistInv, StoreType
<1>2. PICK in \in Inputs : row[id] = NewOrder(in)
  BY <1>1, IdsAssumption DEF PersistInv, SavedNew
<1>3. /\ write[IoThread] = NoWrite /\ saved' = NoId
      /\ UNCHANGED <<row, rows, db_traded, write, restoring, dirty, used>>
      /\ addOrder(IoThread, id, NewOrder(in)) \/ UNCHANGED vars
  BY <1>1, <1>2, IdsAssumption DEF AddSaved, PersistInv, SavedNew, dbVars
<1>4. CASE addOrder(IoThread, id, NewOrder(in))
  <2>1. /\ BookInv' /\ NewOrder(in) \in Orders /\ NewOrder(in).status = "PENDING"
        /\ NewOrder(in).rem = NewOrder(in).qty
    BY <1>4, NewIsNew
  <2>2. Rowed(id) /\ Active(id)
    BY <1>2, <2>1 DEF Rowed, Active
  <2>3. used' = used \cup {id}
    BY <1>3, <2>2 DEF PersistInv, UsedOnce
  <2>4. /\ restoring' \in Seq(Ids)
        /\ \A k \in 1 .. Len(restoring') :
               \E j \in 1 .. Len(restoring) : restoring'[k] = restoring[j]
    BY <1>3 DEF PersistInv, StoreType
  <2>5. PersistInv'
    BY <1>2, <1>3, <1>4, <2>1, <2>2, <2>3, <2>4, AddPersists
  <2> QED BY <2>1, <2>5
<1>5. CASE UNCHANGED vars
  <2>1. UNCHANGED <<vars, dbVars, write, used, dirty>>
    BY <1>3, <1>5 DEF dbVars
  <2>2. /\ restoring' \in Seq(Ids)
        /\ \A k \in 1 .. Len(restoring') : ~Made(restoring'[k]) => Active(restoring'[k])
    BY <1>3 DEF PersistInv, StoreType, RestoresActive
  <2>3. PersistInv'
    BY <1>3, <2>1, <2>2, SamePersists
  <2> QED BY <1>5, <2>3, BookNext
<1> QED BY <1>3, <1>4, <1>5

\* The steps of one thread.
LEMMA ThreadPersists ==
  ASSUME BookInv, PersistInv, NEW t \in Threads,
         \/ Work(t) \/ saveTrade(t) \/ ReadOrder(t) \/ updateOrder(t)
         \/ t # IoThread /\ \E id \in Ids : GeneratorCancel(t, id)
  PROVE  BookInv' /\ PersistInv'
<1>1. BookInv'
  <2>1. CASE Work(t)
    BY <2>1, BookNext DEF Work, Next, Step
  <2>2. CASE saveTrade(t)
    BY <2>2, BookNext DEF saveTrade, Next, Step
  <2>3. CASE ReadOrder(t)
    BY <2>3, BookNext DEF ReadOrder, Next, Step
  <2>4. CASE updateOrder(t)
    BY <2>4, BookNext DEF updateOrder
  <2>5. CASE \E id \in Ids : GeneratorCancel(t, id)
    BY <2>5, BookNext DEF GeneratorCancel, Next, Call
  <2> QED BY <2>1, <2>2, <2>3, <2>4, <2>5
<1>2. CASE t # IoThread /\ \E id \in Ids : GeneratorCancel(t, id)
  <2>1. PICK id \in Ids : GeneratorCancel(t, id)
    BY <1>2
  <2>2. /\ write[t] = NoWrite /\ ~Rowed(id) /\ CancelOrder(t, id)
        /\ UNCHANGED <<dbVars, runVars, used>>
    BY <2>1 DEF GeneratorCancel, Rowed
  <2>3. PersistInv'
    BY <1>2, <2>2, CancelPersists
  <2> QED BY <1>1, <2>3
<1> QED BY <1>1, <1>2, WorkPersists, TradePersists, ReadPersists, UpdatePersists

\* Steps that only change the phase, and those that change nothing.
LEMMA IdlePersists ==
  ASSUME BookInv, PersistInv, start \/ CancelRefused \/ UNCHANGED pvars
  PROVE  BookInv' /\ PersistInv'
<1>1. /\ UNCHANGED <<vars, dbVars, write, used, dirty, restoring>>
      /\ saved' = NoId \/ UNCHANGED <<saved, phase>>
  BY DEF start, Quiet, CancelRefused, pvars, runVars
<1>2. /\ restoring' \in Seq(Ids)
      /\ \A k \in 1 .. Len(restoring') : ~Made(restoring'[k]) => Active(restoring'[k])
  BY <1>1 DEF PersistInv, StoreType, RestoresActive
<1>3. PersistInv'
  BY <1>1, <1>2, SamePersists
<1> QED BY <1>1, <1>3, BookNext

\* After a crash the book is as at the start.
LEMMA CrashedBook == Crash => BookInv'
<1>1. Init' => BookInv'
  BY BookInit, PTL
<1>2. Crash => Init'
  BY DEF Crash, BookLost, Init
<1> QED BY <1>1, <1>2

LEMMA PersistNext == BookInv /\ PersistInv /\ [PNext]_pvars => BookInv' /\ PersistInv'
<1> SUFFICES ASSUME BookInv, PersistInv, [PNext]_pvars PROVE BookInv' /\ PersistInv'
  OBVIOUS
<1>1. CASE \E id \in Ids, in \in Inputs : saveOrder(id, in) \/ AddGenerated(id, in)
  BY <1>1, RequestsPersist
<1>2. CASE AddSaved
  BY <1>2, AddSavedPersists
<1>3. CASE start \/ CancelRefused \/ UNCHANGED pvars
  BY <1>3, IdlePersists
<1>4. CASE \E id \in Ids : ClientCancel(id)
  <2>1. PICK id \in Ids : ClientCancel(id)
    BY <1>4
  <2>2. /\ CancelOrder(IoThread, id) /\ write[IoThread] = NoWrite /\ saved = NoId
        /\ UNCHANGED <<dbVars, runVars, used>>
    BY <2>1 DEF ClientCancel, IoFree
  <2>3. BookInv'
    BY <2>2, BookNext, MainThreadAssumption DEF Next, Call
  <2> QED BY <2>2, <2>3, CancelPersists, MainThreadAssumption
<1>5. CASE \E t \in Threads \ {IoThread}, id \in Ids : GeneratorCancel(t, id)
  BY <1>5, ThreadPersists
<1>6. CASE \E t \in Threads : Work(t) \/ saveTrade(t) \/ ReadOrder(t) \/ updateOrder(t)
  BY <1>6, ThreadPersists
<1>7. CASE Crash
  BY <1>7, CrashedBook, CrashPersists
<1>8. CASE loadAllActiveOrders
  <2>1. UNCHANGED vars
    BY <1>8 DEF loadAllActiveOrders
  <2> QED BY <1>8, <2>1, BookNext, LoadPersists
<1>9. CASE RestoreNext
  BY <1>9, RestorePersists
<1> QED BY <1>1, <1>2, <1>3, <1>4, <1>5, <1>6, <1>7, <1>8, <1>9 DEF PNext

LEMMA StoreAlways == PSpec => [](BookInv /\ PersistInv)
  BY PersistInit, PersistNext, PTL DEF PSpec

(***************************************************************************)
(* The row of an order in the book is current or will be written again by  *)
(* a callback that is due, whatever the interleaving of the io thread and  *)
(* the generator's thread and wherever the process crashed; triggered stop *)
(* orders are the exception (onOrderUpdated, OrderStore::updateOrder).     *)
(***************************************************************************)
THEOREM RowsStayCurrent == PSpec => []RowsCurrent
<1>1. PersistInv => RowsCurrent
  BY DEF PersistInv
<1> QED BY <1>1, StoreAlways, PTL

(***************************************************************************)
(* An order whose row is FILLED or CANCELED is never live in the book      *)
(* again, over any number of crashes (loadAllActiveOrders,                 *)
(* initPersistence).                                                       *)
(***************************************************************************)
THEOREM DoneNeverReturns == PSpec => []DoneStaysDone
<1>1. PersistInv => DoneStaysDone
  BY DEF PersistInv
<1> QED BY <1>1, StoreAlways, PTL

(***************************************************************************)
(* If no crash hit a call in progress, then whenever no call is in         *)
(* progress the trades table holds of each order exactly what its row      *)
(* lost, restarts included (saveTrade, updateOrder, initPersistence).      *)
(***************************************************************************)
THEOREM TablesAlwaysBalance == PSpec => []TablesBalance
<1>1. BookInv /\ PersistInv => TablesBalance
  BY QuietBalance DEF TablesBalance, Rowed
<1> QED BY <1>1, StoreAlways, PTL

(***************************************************************************)
(* The book keeps its own invariants inside the server with its database,  *)
(* although the orders that initPersistence adds are not new: the maps are *)
(* sound, the book is not crossed and every quantity is accounted for.     *)
(***************************************************************************)
THEOREM RestoredBookSound ==
    PSpec => [](MapsSound /\ Uncrossed /\ Conservation /\ TradesDelivered)
<1>1. BookInv => MapsSound /\ Uncrossed /\ Conservation /\ TradesDelivered
  BY DEF BookInv, IInv, DeliverInv, MapsSound
<1> QED BY <1>1, StoreAlways, PTL

----------------------------------------------------------------------------
(* What a restart brings back.                                             *)

\* Row a was written before row b.
Earlier(a, b) ==
    \E x, y \in 1 .. Len(rows) : x < y /\ rows[x] = a /\ rows[y] = b

TriggeredIds == {id \in stop_ids : ~isStopOrder(order[id])}

\* Order a stands before order b in a queue of m.
Ahead(m, a, b) ==
    \E p \in DOMAIN m : \E i, j \in 1 .. Len(m[p]) :
        i < j /\ m[p][i] = a /\ m[p][j] = b

\* Clients' orders stand in the queues of m in the order of their rows, but for
\* those in X.
RowOrdered(m, X) ==
    \A a, b \in Ids :
        Ahead(m, a, b) /\ Rowed(a) /\ Rowed(b) /\ a \notin X /\ b \notin X => Earlier(a, b)

\* An order that is not done is in the index.
LiveIndexed ==
    \A id \in Ids : order[id].status \in {"PENDING", "PARTIAL"} =>
        order[id].rem > 0 /\ id \in orders_by_id

RowsListed == NoRepeat(rows) /\ \A id \in Ids : Rowed(id) <=> InQueue(rows, id)

\* An order has the side and the prices of its row; the quantity left of both
\* is the whole quantity of the row exactly while their status is PENDING.
LikeRow ==
    \A id \in Ids : Rowed(id) =>
        /\ row[id].status = "PENDING" => row[id].rem = row[id].qty
        /\ row[id].status = "PARTIAL" => row[id].rem < row[id].qty
        /\ Made(id) =>
               /\ order[id].side = row[id].side
               /\ order[id].price = row[id].price
               /\ order[id].stop = row[id].stop
               /\ order[id].status = "PENDING" => order[id].rem = row[id].qty
               /\ order[id].status = "PARTIAL" => order[id].rem < row[id].qty

\* The row of a triggered stop order is still that of a stop order, or right.
StaleStops ==
    \A id \in Ids : Rowed(id) /\ Made(id) /\ Triggered(id) =>
        \/ isStopOrder(row[id])
        \/ WriteDue(id)
        \/ View(row[id]) = View(order[id]) /\ ~InFlight(id)

\* A row that a restart brings back.
Offered(id) == Active(id) /\ row[id].rem > 0

\* Every such row has its order in the process or on its way there.
ActiveMade ==
    /\ phase \in {"down", "restoring", "serving"}
    /\ phase # "restoring" => restoring = <<>>
    /\ phase = "down" => \A id \in Ids : ~Made(id)
    /\ \A id \in Ids : Offered(id) =>
           Made(id) \/ id = saved \/ InQueue(restoring, id) \/ phase = "down"

RowInv == LiveIndexed /\ RowsListed /\ LikeRow /\ StaleStops

QueuesByRow ==
    \A s \in Sides : RowOrdered(book[s], TriggeredIds) /\ RowOrdered(stops[s], TriggeredIds)

\* All other orders that were made have an earlier row than order id.
NewestRow(id) == \A j \in Ids : Made(j) /\ Rowed(j) => j = id \/ Earlier(j, id)

\* What is added next, or is being added, has the last row of all orders that
\* were made.
LastAdded ==
    /\ saved # NoId => rows # <<>> /\ rows[Len(rows)] = saved
    /\ \A k \in 1 .. Len(restoring) :
           /\ Rowed(restoring[k])
           /\ \A l \in 1 .. Len(restoring) : k < l => Earlier(restoring[k], restoring[l])
           /\ \A id \in Ids : Made(id) /\ Rowed(id) => Earlier(id, restoring[k])
    /\ pc[IoThread] \in {"match", "scan"} /\ Rowed(incoming[IoThread]) =>
           NewestRow(incoming[IoThread])

\* Every open order is in the one queue that its side and price name.
PlacesRight(ord, bk, st) ==
    \A id \in Ids, s \in Sides, p \in Prices :
        /\ At(bk[s], p, id) <=> /\ Open(ord[id]) /\ ~isStopOrder(ord[id])
                                /\ ord[id].side = s /\ ord[id].price = p
        /\ At(st[s], p, id) <=> /\ Open(ord[id]) /\ isStopOrder(ord[id])
                                /\ ord[id].side = s /\ ord[id].stop = p

GoodMap(m) == IsLevelMap(m) /\ WellFormed(m)

\* The book that was lost, compared with the rows that stayed.
BookBefore ==
    /\ PlacesRight(before.order, before.book, before.stops)
    /\ \A s \in Sides :
           /\ GoodMap(before.book[s]) /\ RowOrdered(before.book[s], before.triggered)
           /\ GoodMap(before.stops[s]) /\ RowOrdered(before.stops[s], before.triggered)
    /\ \A id \in KnownBefore \ before.triggered :
           /\ View(row[id]) = View(before.order[id])
           /\ row[id].side = before.order[id].side
           /\ row[id].price = before.order[id].price
           /\ row[id].stop = before.order[id].stop

\* The rows to be restored do not trade with each other.
RowsUncrossed ==
    /\ \A id \in Ids : Offered(id) => row[id].type # "MARKET"
    /\ \A a, b \in Ids :
           /\ Offered(a) /\ row[a].type = "LIMIT" /\ row[a].side = "BUY"
           /\ Offered(b) /\ row[b].type = "LIMIT" /\ row[b].side = "SELL"
           => row[a].price < row[b].price

\* So far nothing has happened but that orders were made from their rows.
AsRestored ==
    /\ \A id \in Ids : /\ Made(id) => Offered(id) /\ order[id] = FromRow(row[id])
                       /\ ~Triggered(id)
    /\ prices = {} /\ triggered = <<>>
    /\ \A t \in Threads : pending_trades[t] = <<>>

RestartInv ==
    ~dirty /\ phase \in {"down", "restoring"} => BookBefore /\ RowsUncrossed /\ AsRestored

----------------------------------------------------------------------------
(* The steps under the lock, order by order.                               *)

\* What a step under the lock does to an order.
Executed(id) ==
    /\ order[id].status \in {"PENDING", "PARTIAL"}
    /\ order'[id].type = order[id].type
    /\ order'[id].rem < order[id].rem
    /\ order'[id].status = IF order'[id].rem = 0 THEN "FILLED" ELSE "PARTIAL"

Discarded(id) == order'[id].status = "CANCELED" /\ order[id].type = "MARKET"

Fired(id) ==
    /\ isStopOrder(order[id]) /\ ~isStopOrder(order'[id]) /\ Stored(id)
    /\ order'[id].rem = order[id].rem /\ order'[id].status = order[id].status

SameTerms(id) ==
    /\ order'[id].side = order[id].side
    /\ order'[id].price = order[id].price
    /\ order'[id].stop = order[id].stop

LEMMA MatchChanges ==
  ASSUME IInv, NEW t \in Threads, Match(t), NEW id \in Ids
  PROVE  SameTerms(id) /\ (order'[id] = order[id] \/ Executed(id))
<1>1. PICK taker \in Ids, maker \in Ids, other \in Sides, level \in Prices, q \in Nat :
          Traded(t, taker, maker, other, level, q)
  BY MatchEffect
<1>2. /\ Paired(taker, maker, other, level, q)
      /\ order' = [order EXCEPT ![taker] = fill(@, q), ![maker] = fill(@, q)]
  BY <1>1 DEF Traded
<1>3. /\ order[taker] \in Orders /\ Open(order[taker]) /\ q <= order[taker].rem
      /\ order[maker] \in Orders /\ Open(order[maker]) /\ q <= order[maker].rem
      /\ maker # taker /\ q > 0
  BY <1>2 DEF Paired
<1>4. order \in [Ids -> Orders]
  BY DEF IInv, TypeOK
<1>5. CASE id \notin {taker, maker}
  BY <1>2, <1>4, <1>5 DEF SameTerms
<1>6. CASE id \in {taker, maker}
  <2>1. /\ order'[id] = fill(order[id], q) /\ order[id] \in Orders
        /\ order[id].status \in {"PENDING", "PARTIAL"} /\ q <= order[id].rem
    BY <1>2, <1>3, <1>4, <1>6 DEF Open
  <2>2. /\ order'[id].side = order[id].side /\ order'[id].type = order[id].type
        /\ order'[id].price = order[id].price /\ order'[id].stop = order[id].stop
        /\ order'[id].rem = order[id].rem - q
        /\ order'[id].status = IF order[id].rem = q THEN "FILLED" ELSE "PARTIAL"
    BY <2>1, FillFields
  <2>3. order[id].rem \in Nat
    BY <2>1 DEF Orders
  <2>4. /\ order'[id].rem < order[id].rem
        /\ order'[id].status = IF order'[id].rem = 0 THEN "FILLED" ELSE "PARTIAL"
    BY <1>3, <2>1, <2>2, <2>3
  <2> QED BY <2>1, <2>2, <2>4 DEF Executed, SameTerms
<1> QED BY <1>5, <1>6

LEMMA SettleChanges ==
  ASSUME IInv, NEW t \in Threads, Settle(t), NEW id \in Ids
  PROVE  /\ SameTerms(id)
         /\ order'[id] = order[id] \/ (Discarded(id) /\ InFlight(id))
<1>1. PICK h \in Ids : h = Head(todo)
  BY TodoHead DEF Settle
<1>2. order \in [Ids -> Orders] /\ InFlight(h)
  BY <1>1, TodoHead DEF IInv, TypeOK, Settle
<1>3. CASE order' = order
  BY <1>3 DEF SameTerms
<1>4. CASE order' # order
  <2>1. /\ order[h].rem > 0 /\ order[h].status \notin {"FILLED", "CANCELED"}
        /\ order[h].type = "MARKET"
        /\ order' = [order EXCEPT ![h] = cancel(order[h])]
    BY <1>1, <1>4 DEF Settle
  <2>2. order[h].status \in {"PENDING", "PARTIAL"} /\ order[h] \in Orders
    <3>1. Open(order[h]) \/ order[h].status = "FILLED"
      BY <1>1, TodoHead DEF Settle
    <3> QED BY <2>1, <3>1, <1>2 DEF Open
  <2>3. /\ order'[h].status = "CANCELED" /\ order'[h].side = order[h].side
        /\ order'[h].price = order[h].price /\ order'[h].stop = order[h].stop
    BY <2>1, <2>2, <1>2, CancelFields
  <2>4. id # h => order'[id] = order[id]
    BY <2>1, <1>2
  <2> QED BY <1>2, <2>1, <2>3, <2>4 DEF Discarded, SameTerms
<1> QED BY <1>3, <1>4

LEMMA TriggerChanges ==
  ASSUME IInv, NEW t \in Threads, TriggerBuy(t) \/ TriggerSell(t), NEW id \in Ids
  PROVE  SameTerms(id) /\ (order'[id] = order[id] \/ Fired(id))
<1>1. PICK side \in Sides : \E p \in DOMAIN stops[side] : TriggerLevel(side, p)
  BY TriggeredLevel
<1>2. PICK p \in DOMAIN stops[side] : TriggerLevel(side, p)
  BY <1>1
<1>3. CASE order'[id] = order[id]
  BY <1>3 DEF SameTerms
<1>4. CASE order'[id] # order[id]
  <2>1. InQueue(stops[side][p], id) /\ order'[id] = trigger(order[id])
    BY <1>2, <1>4 DEF TriggerLevel
  <2>2. p \in Prices /\ order[id] \in Orders
    BY DEF IInv, TypeOK, IsLevelMap
  <2>3. At(stops[side], p, id) /\ Stored(id)
    BY <2>1, <2>2 DEF At, Stored
  <2>4. isStopOrder(order[id])
    BY <2>2, <2>3 DEF IInv, StopsSound
  <2> QED BY <2>1, <2>2, <2>3, <2>4, TriggerFields DEF Fired, SameTerms
<1> QED BY <1>3, <1>4

LEMMA LockChanges ==
  ASSUME IInv, NEW t \in Threads, LockStep(t), NEW id \in Ids
  PROVE  /\ SameTerms(id)
         /\ \/ order'[id] = order[id]
            \/ Executed(id)
            \/ Discarded(id) /\ InFlight(id)
            \/ Fired(id)
<1>1. CASE EndRound(t) \/ NextPrice(t) \/ NextRound(t) \/ Unlock(t)
  <2>1. UNCHANGED order
    BY <1>1 DEF EndRound, NextPrice, NextRound, Unlock
  <2> QED BY <2>1 DEF SameTerms
<1> QED BY <1>1, MatchChanges, SettleChanges, TriggerChanges DEF LockStep

----------------------------------------------------------------------------
(* Orders and rows.                                                        *)

\* An order that is not done is in the index: it leaves when it is done.
LEMMA LiveLock ==
  ASSUME IInv, LiveIndexed, NEW t \in Threads, LockStep(t)
  PROVE  LiveIndexed'
<1> SUFFICES ASSUME NEW id \in Ids, order'[id].status \in {"PENDING", "PARTIAL"}
             PROVE  order'[id].rem > 0 /\ id \in orders_by_id'
  BY DEF LiveIndexed
<1>0. order \in [Ids -> Orders] /\ order' \in [Ids -> Orders]
  <2>1. IInv'
    BY NextInv DEF LockStep, Next, Step
  <2> QED BY <2>1 DEF IInv, TypeOK
<1>1. order[id].status \in {"PENDING", "PARTIAL"} /\ order'[id].rem > 0
  <2>1. CASE order'[id] = order[id]
    BY <2>1 DEF LiveIndexed
  <2>2. CASE Executed(id)
    <3>1. order'[id].rem # 0 /\ order'[id].rem \in Nat
      BY <1>0, <2>2 DEF Executed, Orders
    <3> QED BY <2>2, <3>1 DEF Executed
  <2>3. CASE Fired(id)
    BY <2>3 DEF Fired, LiveIndexed
  <2> QED BY <2>1, <2>2, <2>3, LockChanges DEF Discarded
<1>2. id \in orders_by_id
  BY <1>1 DEF LiveIndexed
<1> SUFFICES id \in orders_by_id'
  BY <1>1
<1>3. CASE Match(t)
  <2>1. PICK taker \in Ids, maker \in Ids, other \in Sides, level \in Prices, q \in Nat :
            Traded(t, taker, maker, other, level, q)
    BY <1>3, MatchEffect
  <2>2. /\ maker = Head(book[other][level]) /\ level = BestPrice(other)
        /\ taker = Head(todo) /\ other = Opposite(order[taker].side)
    BY <2>1 DEF Traded, Paired
  <2>3. \/ UNCHANGED orders_by_id
        \/ order'[maker].rem = 0 /\ orders_by_id' = orders_by_id \ {maker}
    BY <1>3, <2>2 DEF Match
  <2>4. CASE UNCHANGED orders_by_id
    BY <1>2, <2>4
  <2>5. CASE order'[maker].rem = 0 /\ orders_by_id' = orders_by_id \ {maker}
    <3>1. order'[id].rem # 0
      BY <1>1
    <3>2. id # maker
      BY <2>5, <3>1
    <3> QED BY <1>2, <2>5, <3>2
  <2> QED BY <2>3, <2>4, <2>5
<1>4. CASE Settle(t)
  <2>1. PICK h \in Ids : h = Head(todo)
    BY <1>4, TodoHead DEF Settle
  <2>2. Open(order[h]) \/ (order[h].status = "FILLED" /\ order[h].rem = 0)
    BY <1>4, <2>1, TodoHead DEF Settle
  <2>3. CASE id # h
    BY <1>2, <1>4, <2>1, <2>3 DEF Settle
  <2>4. CASE id = h
    <3>1. order[h].rem > 0 /\ order[h].status \notin {"FILLED", "CANCELED"}
      BY <1>1, <2>2, <2>4 DEF Open
    <3>2. order[h].type # "MARKET"
      <4>1. CASE order[h].type = "MARKET"
        <5>1. order' = [order EXCEPT ![h] = cancel(order[h])]
          BY <1>4, <2>1, <3>1, <4>1 DEF Settle
        <5>2. order'[h].status = "CANCELED"
          BY <1>0, <1>1, <2>4, <5>1, CancelFields
        <5> QED BY <2>4, <5>2
      <4> QED BY <4>1
    <3>3. orders_by_id' = orders_by_id
      BY <1>4, <2>1, <3>1, <3>2 DEF Settle
    <3> QED BY <1>2, <3>3
  <2> QED BY <2>3, <2>4
<1>5. CASE ~Match(t) /\ ~Settle(t)
  <2>1. UNCHANGED orders_by_id
    BY <1>5 DEF LockStep, EndRound, TriggerBuy, TriggerSell, NextPrice, NextRound, Unlock
  <2> QED BY <1>2, <2>1
<1> QED BY <1>3, <1>4, <1>5

LEMMA LiveAdd ==
  ASSUME IInv, LiveIndexed, NEW t \in Threads, NEW id \in Ids, NEW N, addOrder(t, id, N)
  PROVE  LiveIndexed'
<1>1. /\ order'[id] = N /\ N.rem > 0
      /\ \A j \in Ids \ {id} : order'[j] = order[j]
  BY AddEffect
<1>2. orders_by_id' = orders_by_id \cup {id}
  BY DEF addOrder, AddStop, AddPlain
<1> QED BY <1>1, <1>2 DEF LiveIndexed

LEMMA LiveCancel ==
  ASSUME IInv, LiveIndexed, NEW t \in Threads, NEW id \in Ids, CancelOrder(t, id)
  PROVE  LiveIndexed'
<1>1. /\ order'[id].status = "CANCELED"
      /\ \A j \in Ids \ {id} : order'[j] = order[j]
  BY CancelEffect
<1>2. orders_by_id' = orders_by_id \ {id}
  BY DEF CancelOrder
<1> QED BY <1>1, <1>2 DEF LiveIndexed

\* Steps that change neither the orders nor the rows and forget no write.
LEMMA SameRows ==
  ASSUME RowInv, UNCHANGED <<order, orders_by_id, row, rows, stop_ids, todo, triggered>>,
         \A j \in Ids : WriteDue(j) => WriteDue(j)'
  PROVE  RowInv'
<1>1. \A j \in Ids : /\ (Made(j)' <=> Made(j)) /\ (Rowed(j)' <=> Rowed(j))
                     /\ Triggered(j)' <=> Triggered(j)
                     /\ InFlight(j)' <=> InFlight(j)
  BY DEF Made, Rowed, Triggered, InFlight
<1>2. LiveIndexed'
  BY DEF RowInv, LiveIndexed
<1>3. RowsListed'
  BY <1>1 DEF RowInv, RowsListed
<1>4. LikeRow'
  BY <1>1 DEF RowInv, LikeRow
<1>5. StaleStops'
  BY <1>1 DEF RowInv, StaleStops
<1> QED BY <1>2, <1>3, <1>4, <1>5 DEF RowInv

\* One more element at the end.
LEMMA AppendRows ==
  ASSUME NEW q \in Seq(Ids), NEW id \in Ids
  PROVE  /\ Append(q, id) \in Seq(Ids)
         /\ Len(q) \in Nat /\ Len(Append(q, id)) = Len(q) + 1
         /\ \A i \in 1 .. Len(q) : Append(q, id)[i] = q[i]
         /\ Append(q, id)[Len(q) + 1] = id
         /\ \A j : InQueue(Append(q, id), j) <=> InQueue(q, j) \/ j = id
         /\ NoRepeat(q) /\ ~InQueue(q, id) => NoRepeat(Append(q, id))
<1> DEFINE a == Append(q, id)
<1>1. /\ a \in Seq(Ids) /\ Len(q) \in Nat /\ Len(a) = Len(q) + 1
      /\ \A i \in 1 .. Len(q) : a[i] = q[i]
      /\ a[Len(q) + 1] = id
  OBVIOUS
<1> HIDE DEF a
<1>2. \A i \in 1 .. Len(a) : i \in 1 .. Len(q) \/ i = Len(q) + 1
  BY <1>1
<1>3. Len(q) + 1 \in 1 .. Len(a) /\ \A i \in 1 .. Len(q) : i \in 1 .. Len(a)
  BY <1>1
<1>4. \A j : InQueue(a, j) <=> InQueue(q, j) \/ j = id
  BY <1>1, <1>2, <1>3 DEF InQueue
<1>5. NoRepeat(q) /\ ~InQueue(q, id) => NoRepeat(a)
  BY <1>1, <1>2 DEF NoRepeat, InQueue
<1> QED BY <1>1, <1>4, <1>5 DEF a

LEMMA SaveRows ==
  ASSUME BookInv, PersistInv, RowInv, NEW id \in Ids, NEW in \in Inputs, saveOrder(id, in)
  PROVE  RowInv'
<1>1. /\ UNCHANGED <<order, orders_by_id, incoming, pending_order_updates, stop_ids, todo,
                     triggered, write>>
      /\ rows' = Append(rows, id) /\ id \notin used
  BY DEF saveOrder, vars, callVars, history, lockVars
<1>2. /\ NewOrder(in) \in Orders /\ NewOrder(in).status = "PENDING"
      /\ NewOrder(in).rem = NewOrder(in).qty
  BY NewOrderFields
<1>3. /\ row'[id] = NewOrder(in) /\ \A j \in Ids \ {id} : row'[j] = row[j]
  BY <1>2 DEF saveOrder, PersistInv, StoreType
<1>4. ~Made(id) /\ ~Rowed(id)
  BY <1>1 DEF PersistInv, UsedOnce
<1>5. \A j \in Ids : /\ Made(j)' <=> Made(j)
                     /\ Rowed(j)' <=> Rowed(j) \/ j = id
                     /\ WriteDue(j)' <=> WriteDue(j)
                     /\ Triggered(j)' <=> Triggered(j)
                     /\ InFlight(j)' <=> InFlight(j)
  BY <1>1, <1>2, <1>3 DEF Made, Rowed, ReportDue, WriteDue, Triggered, InFlight
<1>6. LiveIndexed'
  BY <1>1 DEF RowInv, LiveIndexed
<1>7. RowsListed'
  <2>1. rows \in Seq(Ids) /\ ~InQueue(rows, id)
    BY <1>4 DEF PersistInv, StoreType, RowInv, RowsListed
  <2> QED BY <1>1, <1>5, <2>1, AppendRows DEF RowInv, RowsListed
<1>8. LikeRow'
  BY <1>1, <1>2, <1>3, <1>4, <1>5 DEF RowInv, LikeRow
<1>9. StaleStops'
  BY <1>1, <1>3, <1>4, <1>5 DEF RowInv, StaleStops
<1> QED BY <1>6, <1>7, <1>8, <1>9 DEF RowInv

\* The order that is added agrees with its row, if it has one.
Matches(N, r) ==
    /\ N.side = r.side /\ N.price = r.price /\ N.stop = r.stop
    /\ N.status = "PENDING" => N.rem = r.qty
    /\ N.status = "PARTIAL" => N.rem < r.qty

LEMMA AddRows ==
  ASSUME BookInv, PersistInv, RowInv, NEW id \in Ids, NEW N, addOrder(IoThread, id, N),
         Rowed(id) => Matches(N, row[id]),
         UNCHANGED <<row, rows, write>>
  PROVE  RowInv'
<1>0. IoThread \in Threads /\ IInv
  BY MainThreadAssumption DEF BookInv
<1>1. /\ ~Made(id) /\ order'[id] = N /\ N.rem > 0
      /\ \A j \in Ids \ {id} : order'[j] = order[j]
      /\ pc[IoThread] = "idle"
      /\ incoming'[IoThread] = id
      /\ \A u \in Threads \ {IoThread} : incoming'[u] = incoming[u]
      /\ \A j \in Ids \ {id} : j \in stop_ids' <=> j \in stop_ids
      /\ UNCHANGED pending_order_updates
  BY <1>0, AddEffect DEF Made
<1>2. \A j \in Ids : (j # id => (Made(j)' <=> Made(j))) /\ (Rowed(j)' <=> Rowed(j))
  BY <1>1 DEF Made, Rowed
<1>3. incoming[IoThread] = NoId
  BY <1>0, <1>1 DEF BookInv, OwedInv
<1>4. \A j \in Ids : WriteDue(j) \/ j = id => WriteDue(j)'
  <2>1. \A j \in Ids : ReportDue(j) \/ j = id => ReportDue(j)'
    BY <1>0, <1>1, <1>3, IdsAssumption DEF ReportDue
  <2> QED BY <2>1 DEF WriteDue
<1>5. \A j \in Ids \ {id} : InFlight(j)' => InFlight(j)
  <2>1. \/ UNCHANGED <<todo, triggered>>
        \/ todo' = <<id>> /\ UNCHANGED triggered
    BY DEF addOrder, AddStop, AddPlain, lockVars
  <2> QED BY <2>1 DEF InFlight, InQueue
<1>6. LiveIndexed'
  BY <1>0, LiveAdd DEF RowInv
<1>7. RowsListed'
  BY <1>2 DEF RowInv, RowsListed
<1>8. LikeRow'
  <2>1. ASSUME NEW j \in Ids, Rowed(j), Made(j)', j # id
        PROVE  Made(j) /\ order'[j] = order[j]
    BY <1>1, <1>2, <2>1
  <2> QED BY <1>1, <1>2, <2>1 DEF RowInv, LikeRow, Matches
<1>9. StaleStops'
  <2>1. ASSUME NEW j \in Ids, j # id, Rowed(j), Made(j)', Triggered(j)'
        PROVE  Made(j) /\ Triggered(j) /\ order'[j] = order[j]
    BY <1>1, <1>2, <2>1 DEF Triggered
  <2> QED BY <1>2, <1>4, <1>5, <2>1 DEF RowInv, StaleStops
<1> QED BY <1>6, <1>7, <1>8, <1>9 DEF RowInv

LEMMA CancelRows ==
  ASSUME BookInv, PersistInv, RowInv, NEW t \in Threads, NEW id \in Ids,
         CancelOrder(t, id), UNCHANGED <<row, rows, write>>
  PROVE  RowInv'
<1>0. IInv
  BY DEF BookInv
<1>1. /\ order[id].status \in {"PENDING", "PARTIAL"}
      /\ order'[id].status = "CANCELED"
      /\ \A j \in Ids \ {id} : order'[j] = order[j]
      /\ pc[t] = "idle"
      /\ incoming'[t] = id /\ \A u \in Threads \ {t} : incoming'[u] = incoming[u]
      /\ UNCHANGED <<pending_order_updates, stop_ids>>
  BY <1>0, CancelEffect
<1>2. /\ order'[id].side = order[id].side /\ order'[id].price = order[id].price
      /\ order'[id].stop = order[id].stop
  <2>1. order \in [Ids -> Orders] /\ order' = [order EXCEPT ![id] = cancel(order[id])]
    BY <1>0 DEF IInv, TypeOK, CancelOrder
  <2>2. order'[id] = cancel(order[id]) /\ order[id] \in Orders
    BY <2>1
  <2> QED BY <1>1, <2>2, CancelFields
<1>3. \A j \in Ids : (Made(j)' <=> Made(j)) /\ (Rowed(j)' <=> Rowed(j))
  BY <1>1 DEF Made, Rowed
<1>4. incoming[t] = NoId
  BY <1>1 DEF BookInv, OwedInv
<1>5. \A j \in Ids : WriteDue(j) \/ j = id => WriteDue(j)'
  <2>1. \A j \in Ids : ReportDue(j) \/ j = id => ReportDue(j)'
    BY <1>1, <1>4, IdsAssumption DEF ReportDue
  <2> QED BY <2>1 DEF WriteDue
<1>6. \A j \in Ids : InFlight(j)' <=> InFlight(j)
  BY DEF CancelOrder, lockVars, InFlight
<1>7. LiveIndexed'
  BY <1>0, LiveCancel DEF RowInv
<1>8. RowsListed'
  BY <1>3 DEF RowInv, RowsListed
<1>9. LikeRow'
  BY <1>1, <1>2, <1>3 DEF RowInv, LikeRow
<1>10. StaleStops'
  <2>1. \A j \in Ids \ {id} : Triggered(j)' <=> Triggered(j)
    BY <1>1 DEF Triggered
  <2> QED BY <1>1, <1>3, <1>5, <1>6, <2>1 DEF RowInv, StaleStops
<1> QED BY <1>7, <1>8, <1>9, <1>10 DEF RowInv

\* Only a stop order that fires begins to be matched under the lock.
LEMMA LockFlight ==
  ASSUME IInv, NEW t \in Threads, LockStep(t), NEW id \in Ids, InFlight(id)'
  PROVE  InFlight(id) \/ Fired(id)
<1>1. CASE Settle(t)
  <2>1. InQueue(Tail(todo), id) => InQueue(todo, id)
    BY <1>1, TodoHead DEF Settle
  <2>2. todo' = Tail(todo) /\ triggered' = triggered
    BY <1>1 DEF Settle
  <2> QED BY <2>1, <2>2 DEF InFlight
<1>2. CASE TriggerBuy(t) \/ TriggerSell(t)
  <2>1. PICK side \in Sides : \E p \in DOMAIN stops[side] : TriggerLevel(side, p)
    BY <1>2, TriggeredLevel
  <2>2. PICK p \in DOMAIN stops[side] : TriggerLevel(side, p)
    BY <2>1
  <2>3. stops[side][p] \in Seq(Ids) /\ triggered \in Seq(Ids)
    BY DEF IInv, TypeOK, IsLevelMap
  <2>4. PICK q \in Seq(Ids) : q = stops[side][p]
    BY <2>3
  <2>5. triggered' = triggered \o q /\ UNCHANGED todo
    BY <1>2, <2>2, <2>4 DEF TriggerLevel, TriggerBuy, TriggerSell
  <2>6. InFlight(id) \/ InQueue(q, id)
    <3>1. PICK r \in Seq(Ids) : r = triggered
      BY <2>3
    <3>2. ASSUME NEW i \in 1 .. Len(r \o q), (r \o q)[i] = id
          PROVE  InQueue(r, id) \/ InQueue(q, id)
      <4>1. /\ Len(r) \in Nat /\ Len(q) \in Nat /\ Len(r \o q) = Len(r) + Len(q)
            /\ (r \o q)[i] = IF i <= Len(r) THEN r[i] ELSE q[i - Len(r)]
        OBVIOUS
      <4>2. i \in 1 .. Len(r) \/ i - Len(r) \in 1 .. Len(q)
        BY <4>1
      <4> QED BY <3>2, <4>1, <4>2 DEF InQueue
    <3> QED BY <2>5, <3>1, <3>2 DEF InFlight, InQueue
  <2>7. ASSUME InQueue(q, id) PROVE Fired(id)
    <3>1. p \in Prices /\ order[id] \in Orders
      BY DEF IInv, TypeOK, IsLevelMap
    <3>2. At(stops[side], p, id)
      BY <2>4, <2>7, <3>1 DEF At
    <3>3. isStopOrder(order[id])
      BY <3>1, <3>2 DEF IInv, StopsSound
    <3>4. order'[id] = trigger(order[id])
      BY <2>2, <2>4, <2>7 DEF TriggerLevel
    <3>5. Stored(id)
      BY <3>1, <3>2 DEF Stored
    <3> QED BY <3>1, <3>3, <3>4, <3>5, TriggerFields DEF Fired
  <2> QED BY <2>6, <2>7
<1>3. CASE NextRound(t)
  BY <1>3 DEF NextRound, InFlight, InQueue
<1>4. CASE Match(t) \/ EndRound(t) \/ NextPrice(t) \/ Unlock(t)
  BY <1>4 DEF Match, EndRound, NextPrice, Unlock, InFlight, lockVars
<1> QED BY <1>1, <1>2, <1>3, <1>4 DEF LockStep

LEMMA WorkRows ==
  ASSUME BookInv, PersistInv, RowInv, NEW t \in Threads, Work(t)
  PROVE  RowInv'
<1>0. IInv /\ OwedInv
  BY DEF BookInv
<1>1. LockStep(t) /\ UNCHANGED <<row, rows, write>>
  BY DEF Work, LockStep, dbVars, runVars
<1>2. OrdersStay /\ stop_ids' = stop_ids
  BY <1>0, <1>1, LockStepStays DEF OrdersStay
<1>3. \A j \in Ids : (Made(j)' <=> Made(j)) /\ (Rowed(j)' <=> Rowed(j))
  BY <1>1, <1>2 DEF Made, Rowed, OrdersStay
<1>4. \A j \in Ids :
          /\ ReportDue(j) => ReportDue(j)'
          /\ \/ order'[j] = order[j]
             \/ ReportDue(j)'
             \/ Triggered(j)' /\ order'[j].rem = order[j].rem
  BY <1>0, <1>1, LockStepOwes
<1>5. \A j \in Ids : /\ WriteDue(j) => WriteDue(j)'
                     /\ ReportDue(j)' => WriteDue(j)'
  BY <1>1, <1>4 DEF WriteDue
<1>6. \A j \in Ids : /\ SameTerms(j)
                     /\ \/ order'[j] = order[j]
                        \/ Executed(j)
                        \/ Discarded(j) /\ InFlight(j)
                        \/ Fired(j)
  BY <1>0, <1>1, LockChanges
<1>7. order \in [Ids -> Orders] /\ order' \in [Ids -> Orders] /\ row \in [Ids -> Orders]
  <2>1. IInv'
    BY <1>0, <1>1, NextInv DEF LockStep, Next, Step
  <2> QED BY <1>0, <2>1 DEF IInv, TypeOK, PersistInv, StoreType
<1>8. LiveIndexed'
  BY <1>0, <1>1, LiveLock DEF RowInv
<1>9. RowsListed'
  BY <1>1, <1>3 DEF RowInv, RowsListed
<1>10. LikeRow'
  <2>1. ASSUME NEW j \in Ids, Rowed(j), Made(j)
        PROVE  /\ order'[j].side = row[j].side
               /\ order'[j].price = row[j].price
               /\ order'[j].stop = row[j].stop
               /\ order'[j].status = "PENDING" => order'[j].rem = row[j].qty
               /\ order'[j].status = "PARTIAL" => order'[j].rem < row[j].qty
    <3>1. /\ order[j].side = row[j].side /\ order[j].price = row[j].price
          /\ order[j].stop = row[j].stop
          /\ order[j].status = "PENDING" => order[j].rem = row[j].qty
          /\ order[j].status = "PARTIAL" => order[j].rem < row[j].qty
      BY <2>1 DEF RowInv, LikeRow
    <3>2. /\ order'[j].side = row[j].side /\ order'[j].price = row[j].price
          /\ order'[j].stop = row[j].stop
      BY <1>6, <3>1 DEF SameTerms
    <3>3. order[j].rem \in Nat /\ order'[j].rem \in Nat /\ row[j].qty \in Nat
      BY <1>7 DEF Orders
    <3>4. CASE order'[j] = order[j]
      BY <3>1, <3>2, <3>4
    <3>5. CASE Executed(j)
      <4>1. order'[j].rem < row[j].qty
        BY <3>1, <3>3, <3>5 DEF Executed
      <4>2. order'[j].status # "PENDING"
        BY <3>5 DEF Executed
      <4> QED BY <3>2, <4>1, <4>2
    <3>6. CASE Discarded(j)
      BY <3>2, <3>6 DEF Discarded
    <3>7. CASE Fired(j)
      BY <3>1, <3>2, <3>7 DEF Fired
    <3> QED BY <1>6, <3>4, <3>5, <3>6, <3>7
  <2> QED BY <1>1, <1>3, <2>1 DEF RowInv, LikeRow
<1>11. StaleStops'
  <2>1. ASSUME NEW j \in Ids, Rowed(j), Made(j), Triggered(j)', ~WriteDue(j)',
               ~isStopOrder(row[j])
        PROVE  View(row[j]) = View(order'[j]) /\ ~InFlight(j)'
    <3>1. ~WriteDue(j) /\ ~ReportDue(j)'
      BY <1>5, <2>1
    <3>2. ~Fired(j)
      <4>1. CASE Fired(j)
        <5>1. isStopOrder(order[j]) /\ ~Triggered(j)
          BY <4>1 DEF Fired, Triggered
        <5>2. View(row[j]) = View(order[j])
          BY <2>1, <3>1, <5>1 DEF PersistInv, RowsCurrent, Rowed, Made
        <5>3. row[j].type = order[j].type
          BY <5>2 DEF View
        <5> QED BY <2>1, <5>1, <5>3 DEF isStopOrder
      <4> QED BY <4>1
    <3>3. Triggered(j)
      <4>1. ~isStopOrder(order[j])
        <5>1. isStopOrder(order[j]) => order'[j] = order[j]
          <6>1. CASE Executed(j)
            BY <1>2, <2>1, <6>1 DEF Executed, isStopOrder, Triggered
          <6>2. CASE Discarded(j)
            BY <6>2 DEF Discarded, isStopOrder
          <6> QED BY <1>6, <3>2, <6>1, <6>2
        <5> QED BY <2>1, <5>1 DEF Triggered
      <4> QED BY <1>2, <2>1, <4>1 DEF Triggered
    <3>4. View(row[j]) = View(order[j]) /\ ~InFlight(j)
      BY <2>1, <3>1, <3>3 DEF RowInv, StaleStops
    <3>5. ~InFlight(j)'
      BY <1>0, <1>1, <3>2, <3>4, LockFlight
    <3>6. order'[j] = order[j]
      <4>1. CASE Executed(j)
        <5>1. order'[j].rem < order[j].rem /\ order[j].rem \in Nat
          BY <1>7, <4>1 DEF Executed, Orders
        <5>2. order'[j].rem # order[j].rem
          BY <5>1
        <5> QED BY <1>4, <3>1, <5>2
      <4> QED BY <1>6, <3>2, <3>4, <4>1
    <3> QED BY <3>4, <3>5, <3>6
  <2> QED BY <1>1, <1>3, <2>1 DEF StaleStops
<1> QED BY <1>8, <1>9, <1>10, <1>11 DEF RowInv

\* A report that is read is written next: no write is forgotten.
LEMMA ReadKeepsDue ==
  ASSUME BookInv, PersistInv, NEW t \in Threads, ReadOrder(t), NEW j \in Ids, WriteDue(j)
  PROVE  WriteDue(j)'
<1>1. PICK x \in Ids :
          /\ \/ write' = write
             \/ write' = [write EXCEPT ![t] = [id |-> x, view |-> View(order[x])]]
          /\ \A i \in Ids : ReportDue(i) => ReportDue(i)' \/ (i = x /\ write'[t].id = x)
  BY ReadEffect
<1>2. write[t] = NoWrite /\ \A u \in Threads \ {t} : write'[u] = write[u]
  BY <1>1 DEF ReadOrder, PersistInv, StoreType
<1>3. CASE ReportDue(j)
  BY <1>1, <1>3 DEF WriteDue
<1>4. CASE \E u \in Threads : write[u].id = j
  <2>1. PICK u \in Threads : write[u].id = j
    BY <1>4
  <2>2. u # t
    BY <1>2, <2>1, NoWriteFields
  <2> QED BY <1>2, <2>1, <2>2 DEF WriteDue
<1> QED BY <1>3, <1>4 DEF WriteDue

\* While the io thread writes a row nothing is being matched.
LEMMA WritingFree ==
  ASSUME BookInv, PersistInv, pc[IoThread] \in {"idle", "notify"}
  PROVE  mutex = NoThread /\ \A id \in Ids : ~InFlight(id)
<1>1. mutex \notin Threads
  BY DEF BookInv, IInv, MutualExclusion, PersistInv, CallsRight
<1>2. mutex = NoThread
  BY <1>1 DEF BookInv, IInv, TypeOK
<1>3. todo = <<>> /\ triggered = <<>>
  BY <1>2 DEF BookInv, IInv, MutualExclusion
<1> QED BY <1>2, <1>3 DEF InFlight, InQueue

LEMMA UpdateRows ==
  ASSUME BookInv, PersistInv, RowInv, NEW t \in Threads, updateOrder(t)
  PROVE  RowInv'
<1>1. UNCHANGED <<order, orders_by_id, incoming, pending_order_updates, stop_ids, rows,
                  todo, triggered>>
  BY DEF updateOrder, vars, callVars, history, lockVars
<1>2. PICK id \in Ids : Written(t, id)
  BY UpdateEffect
<1>3. /\ id = write[t].id /\ write[t] # NoWrite /\ Made(id)
      /\ \A u \in Threads \ {t} : write'[u] = write[u]
      /\ \A j \in Ids \ {id} : row'[j] = row[j]
      /\ ~Rowed(id) => row' = row
      /\ Rowed(id) => /\ t = IoThread
                      /\ row'[id].type = order[id].type
                      /\ row'[id].rem = order[id].rem
                      /\ row'[id].status = order[id].status
                      /\ row'[id].qty = row[id].qty
                      /\ row'[id].side = row[id].side
                      /\ row'[id].price = row[id].price
                      /\ row'[id].stop = row[id].stop
  BY <1>2 DEF Written
<1>4. \A j \in Ids : /\ (Made(j)' <=> Made(j)) /\ (Rowed(j)' <=> Rowed(j))
                     /\ ReportDue(j)' <=> ReportDue(j)
                     /\ Triggered(j)' <=> Triggered(j)
                     /\ InFlight(j)' <=> InFlight(j)
  BY <1>1, <1>3 DEF Made, Rowed, ReportDue, Triggered, InFlight
<1>5. \A j \in Ids \ {id} : WriteDue(j) => WriteDue(j)'
  <2>1. ASSUME NEW j \in Ids \ {id}, NEW u \in Threads, write[u].id = j
        PROVE  WriteDue(j)'
    BY <1>3, <2>1 DEF WriteDue
  <2> QED BY <1>4, <2>1 DEF WriteDue
<1>6. LiveIndexed'
  BY <1>1 DEF RowInv, LiveIndexed
<1>7. RowsListed'
  BY <1>1, <1>4 DEF RowInv, RowsListed
<1>8. LikeRow'
  BY <1>1, <1>3, <1>4 DEF RowInv, LikeRow
<1>9. StaleStops'
  <2>1. Rowed(id) => View(row'[id]) = View(order[id]) /\ ~InFlight(id)
    <3>1. Rowed(id) => View(row'[id]) = View(order[id])
      BY <1>3 DEF View
    <3>2. ASSUME Rowed(id) PROVE ~InFlight(id)
      <4>1. pc[IoThread] \in {"idle", "notify"}
        BY <1>3, <3>2, MainThreadAssumption DEF PersistInv, WritesTrue
      <4> QED BY <4>1, WritingFree
    <3> QED BY <3>1, <3>2
  <2> QED BY <1>1, <1>3, <1>4, <1>5, <2>1 DEF RowInv, StaleStops
<1> QED BY <1>6, <1>7, <1>8, <1>9 DEF RowInv

LEMMA CrashRows ==
  ASSUME RowInv, Crash
  PROVE  RowInv'
<1>1. UNCHANGED <<row, rows>> /\ order' = [i \in Ids |-> NoOrder]
  BY DEF Crash, BookLost, dbVars
<1>2. \A j \in Ids : ~Made(j)' /\ (Rowed(j)' <=> Rowed(j))
  BY <1>1, NoOrderIsOrder DEF Made, Rowed
<1>3. LiveIndexed'
  BY <1>2 DEF LiveIndexed, Made
<1>4. RowsListed' /\ LikeRow' /\ StaleStops'
  BY <1>1, <1>2 DEF RowInv, RowsListed, LikeRow, StaleStops
<1> QED BY <1>3, <1>4 DEF RowInv

\* The order that is restored next agrees with its row.
LEMMA RestoredMatches ==
  ASSUME PersistInv, RowInv, RestoreNext
  PROVE  \E id \in Ids : /\ restoring \in Seq(Ids) /\ restoring # <<>> /\ id = Head(restoring)
                         /\ id = restoring[1] /\ row[id] \in Orders
                         /\ Active(id) /\ row[id].rem > 0 => Matches(FromRow(row[id]), row[id])
                         /\ Active(id) /\ row[id].rem > 0 =>
                                FromRow(row[id]).status = row[id].status
                         /\ ~Made(id) => Active(id)
<1>1. restoring \in Seq(Ids) /\ restoring # <<>> /\ row \in [Ids -> Orders]
  BY DEF PersistInv, StoreType, RestoreNext
<1>2. PICK id \in Ids : id = Head(restoring) /\ id = restoring[1]
  BY <1>1
<1>3. row[id] \in Orders /\ row[id].rem \in Nat /\ row[id].qty \in Nat
  BY <1>1 DEF Orders
<1>4. ~Made(id) => Active(id)
  <2>1. 1 \in 1 .. Len(restoring)
    BY <1>1
  <2> QED BY <1>2, <2>1 DEF PersistInv, RestoresActive
<1>5. ASSUME Active(id), row[id].rem > 0
      PROVE  /\ Matches(FromRow(row[id]), row[id])
             /\ FromRow(row[id]).status = row[id].status
  <2>1. /\ row[id].status \in {"PENDING", "PARTIAL"}
        /\ row[id].status = "PENDING" => row[id].rem = row[id].qty
        /\ row[id].status = "PARTIAL" => row[id].rem < row[id].qty
    BY <1>5 DEF RowInv, LikeRow, Rowed, Active
  <2>2. PICK N \in Orders :
            /\ N = FromRow(row[id])
            /\ N.side = row[id].side /\ N.price = row[id].price /\ N.stop = row[id].stop
            /\ N.rem = row[id].rem
            /\ row[id].rem = row[id].qty => N.status = "PENDING"
            /\ row[id].rem < row[id].qty /\ row[id].rem > 0 => N.status = "PARTIAL"
    BY <1>3, FromRowFields
  <2>3. CASE row[id].status = "PENDING"
    BY <2>1, <2>2, <2>3 DEF Matches
  <2>4. CASE row[id].status = "PARTIAL"
    BY <1>5, <2>1, <2>2, <2>4 DEF Matches
  <2> QED BY <2>1, <2>3, <2>4
<1> QED BY <1>1, <1>2, <1>3, <1>4, <1>5

\* Steps that leave the book and the tables alone.
LEMMA IdleRows ==
  ASSUME RowInv, UNCHANGED <<vars, dbVars, write>>
  PROVE  RowInv'
<1>1. UNCHANGED <<order, orders_by_id, row, rows, stop_ids, todo, triggered, incoming,
                  pending_order_updates, write>>
  BY DEF vars, callVars, history, lockVars, dbVars
<1>2. \A j \in Ids : WriteDue(j) => WriteDue(j)'
  BY <1>1 DEF WriteDue, ReportDue
<1> QED BY <1>1, <1>2, SameRows

LEMMA RowsNext == BookInv /\ PersistInv /\ RowInv /\ [PNext]_pvars => RowInv'
<1> SUFFICES ASSUME BookInv, PersistInv, RowInv, [PNext]_pvars PROVE RowInv'
  OBVIOUS
<1>1. ASSUME NEW id \in Ids, NEW in \in Inputs, saveOrder(id, in) PROVE RowInv'
  BY <1>1, SaveRows
<1>2. ASSUME NEW id \in Ids, NEW in \in Inputs, AddGenerated(id, in) PROVE RowInv'
  <2>1. /\ addOrder(IoThread, id, NewOrder(in)) /\ id \notin used
        /\ UNCHANGED <<row, rows, write>>
    BY <1>2 DEF AddGenerated, dbVars, runVars
  <2>2. ~Rowed(id)
    BY <2>1 DEF PersistInv, UsedOnce
  <2> QED BY <2>1, <2>2, AddRows
<1>3. CASE AddSaved
  <2>1. PICK id \in Ids : id = saved
    BY <1>3 DEF AddSaved, PersistInv, StoreType
  <2>2. PICK in \in Inputs : row[id] = NewOrder(in)
    BY <2>1, IdsAssumption DEF PersistInv, SavedNew
  <2>3. /\ UNCHANGED <<dbVars, write>> /\ UNCHANGED <<row, rows, write>>
        /\ addOrder(IoThread, id, row[id]) \/ UNCHANGED vars
    BY <1>3, <2>1 DEF AddSaved, dbVars
  <2>4. Matches(row[id], row[id])
    BY <2>2, NewOrderFields DEF Matches
  <2> QED BY <2>3, <2>4, AddRows, IdleRows
<1>4. CASE start \/ CancelRefused \/ UNCHANGED pvars \/ loadAllActiveOrders
  <2>1. UNCHANGED <<vars, dbVars, write>>
    BY <1>4 DEF start, CancelRefused, pvars, runVars, loadAllActiveOrders
  <2> QED BY <2>1, IdleRows
<1>5. ASSUME NEW id \in Ids, ClientCancel(id) PROVE RowInv'
  <2>1. CancelOrder(IoThread, id) /\ UNCHANGED <<row, rows, write>>
    BY <1>5 DEF ClientCancel, dbVars, runVars
  <2> QED BY <2>1, CancelRows, MainThreadAssumption
<1>6. ASSUME NEW t \in Threads, NEW id \in Ids, GeneratorCancel(t, id) PROVE RowInv'
  <2>1. CancelOrder(t, id) /\ UNCHANGED <<row, rows, write>>
    BY <1>6 DEF GeneratorCancel, dbVars, runVars
  <2> QED BY <2>1, CancelRows
<1>7. ASSUME NEW t \in Threads, saveTrade(t) PROVE RowInv'
  <2>1. UNCHANGED <<order, orders_by_id, row, rows, stop_ids, todo, triggered, incoming,
                    pending_order_updates, write>>
    BY <1>7 DEF saveTrade, NotifyTrade, runVars, lockVars
  <2>2. \A j \in Ids : WriteDue(j) => WriteDue(j)'
    BY <2>1 DEF WriteDue, ReportDue
  <2> QED BY <2>1, <2>2, SameRows
<1>8. ASSUME NEW t \in Threads, ReadOrder(t) PROVE RowInv'
  <2>1. UNCHANGED <<order, orders_by_id, row, rows, stop_ids, todo, triggered>>
    BY <1>8 DEF ReadOrder, NotifyUpdate, NotifyIncoming, dbVars, lockVars
  <2> QED BY <1>8, <2>1, ReadKeepsDue, SameRows
<1>9. CASE RestoreNext
  <2>1. PICK id \in Ids :
            /\ id = Head(restoring)
            /\ Active(id) /\ row[id].rem > 0 => Matches(FromRow(row[id]), row[id])
            /\ ~Made(id) => Active(id) /\ row[id] \in Orders
    BY <1>9, RestoredMatches
  <2>2. /\ UNCHANGED <<dbVars, write>> /\ UNCHANGED <<row, rows, write>>
        /\ addOrder(IoThread, id, FromRow(row[id])) \/ UNCHANGED vars
    BY <1>9, <2>1 DEF RestoreNext, dbVars
  <2>3. CASE addOrder(IoThread, id, FromRow(row[id]))
    <3>1. ~Made(id) /\ FromRow(row[id]).rem > 0
      BY <2>3 DEF addOrder, AddStop, AddPlain, Accepts, Made
    <3>2. FromRow(row[id]).rem = row[id].rem
      BY <2>1, <3>1, FromRowFields
    <3>3. Matches(FromRow(row[id]), row[id])
      BY <2>1, <3>1, <3>2
    <3> QED BY <2>2, <2>3, <3>3, AddRows
  <2> QED BY <2>2, <2>3, IdleRows
<1> QED BY <1>1, <1>2, <1>3, <1>4, <1>5, <1>6, <1>7, <1>8, <1>9, WorkRows, UpdateRows,
           CrashRows DEF PNext

----------------------------------------------------------------------------
(* What is restored.                                                       *)

\* Steps that make no order and write only the rows of orders that are there.
LEMMA SameMade ==
  ASSUME ActiveMade, UNCHANGED <<phase, saved, restoring>>,
         \A j \in Ids : /\ Made(j)' <=> Made(j)
                        /\ row'[j] = row[j] \/ Made(j)
  PROVE  ActiveMade'
<1>1. \A j \in Ids : Offered(j)' => Offered(j) \/ Made(j)
  BY DEF Offered, Active
<1> QED BY <1>1 DEF ActiveMade

\* Steps that make an order.
LEMMA MoreMade ==
  ASSUME ActiveMade, phase # "down", UNCHANGED <<phase, row>>,
         phase # "restoring" => restoring' = <<>>,
         \A j \in Ids : Made(j) => Made(j)',
         \A j \in Ids : Offered(j) /\ (j = saved \/ InQueue(restoring, j)) =>
             Made(j)' \/ j = saved' \/ InQueue(restoring', j)
  PROVE  ActiveMade'
<1>1. \A j \in Ids : Offered(j)' <=> Offered(j)
  BY DEF Offered, Active
<1> QED BY <1>1 DEF ActiveMade

\* loadAllActiveOrders finds all active rows, in the order of the table.
LEMMA LoadFinds ==
  ASSUME PersistInv, RowInv, loadAllActiveOrders
  PROVE  /\ \A id \in Ids : Active(id) => InQueue(restoring', id)
         /\ \A k \in 1 .. Len(restoring') : restoring'[k] \in Ids /\ Active(restoring'[k])
         /\ \A k, l \in 1 .. Len(restoring') : k < l => Earlier(restoring'[k], restoring'[l])
<1> DEFINE active == {k \in 1 .. Len(rows) : Active(rows[k])}
<1>1. rows \in Seq(Ids) /\ Len(rows) \in Nat
  BY DEF PersistInv, StoreType
<1>2. IsFiniteSet(1 .. Len(rows)) /\ active \subseteq 1 .. Len(rows)
  BY <1>1, FS_Interval
<1>3. IsFiniteSet(active)
  BY <1>2, FS_Subset
<1>4. Cardinality(active) \in Nat
  BY <1>3, FS_CardinalityType
<1>5. PICK at \in [1 .. Cardinality(active) -> active] :
          /\ \A i, j \in DOMAIN at : i < j => at[i] < at[j]
          /\ restoring' = [i \in DOMAIN at |-> rows[at[i]]]
  BY DEF loadAllActiveOrders
<1>6. PICK n \in Nat : n = Cardinality(active)
  BY <1>4
<1>7. /\ at \in [1 .. n -> active]
      /\ restoring' = [i \in 1 .. n |-> rows[at[i]]]
      /\ \A i \in 1 .. n : at[i] \in active
      /\ \A i, j \in 1 .. n : i < j => at[i] < at[j]
  BY <1>5, <1>6
<1>8. \A i \in 1 .. n : /\ at[i] \in 1 .. Len(rows) /\ rows[at[i]] \in Ids
                        /\ Active(rows[at[i]])
  BY <1>1, <1>7
<1>9. Len(restoring') = n /\ \A i \in 1 .. n : restoring'[i] = rows[at[i]]
  <2>1. restoring' \in Seq(Ids)
    BY <1>7, <1>8
  <2> QED BY <1>7, <2>1
<1>10. at \in Surjection(1 .. n, active)
  <2>1. \A i, j \in 1 .. n : at[i] = at[j] => i = j
    <3>1. \A i, j \in 1 .. n : i < j \/ j < i \/ i = j
      OBVIOUS
    <3>2. \A i \in 1 .. n : at[i] \in Nat
      BY <1>8
    <3> QED BY <1>7, <3>1, <3>2
  <2>2. at \in Injection(1 .. n, active)
    BY <1>7, <2>1 DEF Injection, IsInjective
  <2>3. Cardinality(1 .. n) = Cardinality(active)
    BY <1>6, FS_Interval
  <2> HIDE DEF active
  <2> QED BY <1>3, <2>2, <2>3, FS_Injection
<1>11. ASSUME NEW id \in Ids, Active(id)
       PROVE  InQueue(restoring', id)
  <2>1. InQueue(rows, id)
    BY <1>11 DEF Active, Rowed, RowInv, RowsListed
  <2>2. PICK k \in 1 .. Len(rows) : rows[k] = id
    BY <2>1 DEF InQueue
  <2>3. k \in active
    BY <1>11, <2>2
  <2>4. PICK i \in 1 .. n : at[i] = k
    BY <1>10, <2>3 DEF Surjection
  <2> QED BY <1>9, <2>2, <2>4 DEF InQueue
<1>12. ASSUME NEW k \in 1 .. n, NEW l \in 1 .. n, k < l
       PROVE  Earlier(restoring'[k], restoring'[l])
  BY <1>7, <1>8, <1>9, <1>12 DEF Earlier
<1>13. \A k \in 1 .. n : restoring'[k] \in Ids /\ Active(restoring'[k])
  BY <1>8, <1>9
<1> QED BY <1>9, <1>11, <1>12, <1>13

\* Which orders are made by which step.
LEMMA MadeNext == BookInv /\ PersistInv /\ RowInv /\ ActiveMade /\ [PNext]_pvars => ActiveMade'
<1> SUFFICES ASSUME BookInv, PersistInv, RowInv, ActiveMade, [PNext]_pvars
             PROVE  ActiveMade'
  OBVIOUS
<1>0. IInv /\ IoThread \in Threads
  BY MainThreadAssumption DEF BookInv
<1>1. ASSUME NEW id \in Ids, NEW in \in Inputs, saveOrder(id, in) PROVE ActiveMade'
  <2>1. /\ phase = "serving" /\ saved = NoId /\ saved' = id
        /\ UNCHANGED <<order, phase, restoring>>
        /\ row' = [row EXCEPT ![id] = NewOrder(in)]
    BY <1>1 DEF saveOrder, IoFree, vars
  <2>2. \A j \in Ids \ {id} : row'[j] = row[j]
    BY <2>1 DEF PersistInv, StoreType
  <2>3. \A j \in Ids : (Made(j)' <=> Made(j)) /\ (j # id => (Offered(j)' <=> Offered(j)))
    BY <2>1, <2>2 DEF Made, Offered, Active
  <2> QED BY <2>1, <2>3, IdsAssumption DEF ActiveMade
<1>2. ASSUME NEW id \in Ids, NEW in \in Inputs, AddGenerated(id, in) PROVE ActiveMade'
  <2>1. /\ addOrder(IoThread, id, NewOrder(in)) /\ phase = "serving" /\ saved = NoId
        /\ UNCHANGED <<phase, row, saved, restoring>>
    BY <1>2 DEF AddGenerated, IoFree, dbVars, runVars
  <2>2. restoring = <<>>
    BY <2>1 DEF ActiveMade
  <2>3. \A j \in Ids : Made(j) => Made(j)'
    BY <1>0, <2>1, AddEffect DEF Made
  <2> QED BY <2>1, <2>2, <2>3, MoreMade
<1>3. CASE AddSaved
  <2>1. PICK id \in Ids : id = saved
    BY <1>3 DEF AddSaved, PersistInv, StoreType
  <2>2. phase = "serving"
    BY <2>1, IdsAssumption DEF PersistInv, SavedNew
  <2>3. UNCHANGED <<phase, row, restoring>> /\ restoring = <<>>
    BY <1>3, <2>2 DEF AddSaved, dbVars, ActiveMade
  <2>4. CASE addOrder(IoThread, id, row[id])
    <3>1. row[id].rem > 0 /\ row[id].status = "PENDING"
      <4>1. PICK in \in Inputs : row[id] = NewOrder(in)
        BY <2>1, IdsAssumption DEF PersistInv, SavedNew
      <4> QED BY <1>0, <2>4, <4>1, AddEffect, NewOrderFields
    <3>2. Made(id)' /\ \A j \in Ids : Made(j) => Made(j)'
      BY <1>0, <2>4, <3>1, AddEffect DEF Made
    <3> QED BY <2>1, <2>2, <2>3, <3>2, MoreMade DEF InQueue
  <2>5. CASE row[id].rem = 0 /\ UNCHANGED vars
    <3>1. \A j \in Ids : Made(j) => Made(j)'
      BY <2>5 DEF vars, Made
    <3>2. ~Offered(id)
      BY <2>5 DEF Offered
    <3> QED BY <2>1, <2>2, <2>3, <3>1, <3>2, MoreMade DEF InQueue
  <2> QED BY <1>3, <2>1, <2>4, <2>5 DEF AddSaved
<1>4. CASE CancelRefused \/ UNCHANGED pvars
  <2>1. UNCHANGED <<order, phase, saved, restoring, row>>
    BY <1>4 DEF CancelRefused, pvars, vars, dbVars, runVars
  <2> QED BY <2>1, SameMade DEF Made
<1>5. CASE start
  <2>1. /\ UNCHANGED <<order, row, saved, restoring>>
        /\ phase = "restoring" /\ phase' = "serving" /\ restoring = <<>>
    BY <1>5 DEF start, vars, dbVars
  <2>2. \A j \in Ids : (Made(j)' <=> Made(j)) /\ (Offered(j)' <=> Offered(j))
    BY <2>1 DEF Made, Offered, Active
  <2> QED BY <2>1, <2>2 DEF ActiveMade
<1>6. ASSUME NEW t \in Threads, NEW id \in Ids, ClientCancel(id) \/ GeneratorCancel(t, id)
      PROVE  ActiveMade'
  <2>1. PICK u \in Threads : CancelOrder(u, id)
    BY <1>0, <1>6 DEF ClientCancel, GeneratorCancel
  <2>2. UNCHANGED <<phase, saved, restoring, row>>
    BY <1>6 DEF ClientCancel, GeneratorCancel, dbVars, runVars
  <2>3. \A j \in Ids : Made(j)' <=> Made(j)
    BY <1>0, <2>1, CancelEffect DEF Made
  <2> QED BY <2>2, <2>3, SameMade
<1>7. ASSUME NEW t \in Threads, Work(t) PROVE ActiveMade'
  <2>1. LockStep(t) /\ UNCHANGED <<phase, saved, restoring, row>>
    BY <1>7 DEF Work, LockStep, dbVars, runVars
  <2>2. \A j \in Ids : Made(j)' <=> Made(j)
    BY <1>0, <2>1, LockStepStays DEF OrdersStay, Made
  <2> QED BY <2>1, <2>2, SameMade
<1>8. ASSUME NEW t \in Threads, saveTrade(t) \/ ReadOrder(t) PROVE ActiveMade'
  <2>1. UNCHANGED <<order, phase, saved, restoring, row>>
    BY <1>8 DEF saveTrade, NotifyTrade, ReadOrder, NotifyUpdate, NotifyIncoming, dbVars,
                runVars
  <2> QED BY <2>1, SameMade DEF Made
<1>9. ASSUME NEW t \in Threads, updateOrder(t) PROVE ActiveMade'
  <2>1. UNCHANGED <<order, phase, saved, restoring>>
    BY <1>9 DEF updateOrder, vars
  <2>2. PICK id \in Ids : Written(t, id)
    BY <1>9, UpdateEffect
  <2>3. \A j \in Ids : row'[j] = row[j] \/ Made(j)
    BY <2>2 DEF Written
  <2> QED BY <2>1, <2>3, SameMade DEF Made
<1>10. CASE Crash
  <2>1. phase' = "down" /\ restoring' = <<>> /\ order' = [i \in Ids |-> NoOrder]
    BY <1>10 DEF Crash, BookLost
  <2> QED BY <2>1, NoOrderIsOrder DEF ActiveMade, Made
<1>11. CASE loadAllActiveOrders
  <2>1. phase' = "restoring" /\ UNCHANGED row
    BY <1>11 DEF loadAllActiveOrders, dbVars
  <2>2. \A j \in Ids : Offered(j)' => InQueue(restoring', j)
    BY <1>11, <2>1, LoadFinds DEF Offered, Active
  <2> QED BY <2>1, <2>2 DEF ActiveMade
<1>12. CASE RestoreNext
  <2>1. PICK id \in Ids :
            /\ restoring \in Seq(Ids) /\ restoring # <<>> /\ id = Head(restoring)
            /\ ~Made(id) => Active(id)
    BY <1>12, RestoredMatches
  <2>2. /\ phase = "restoring" /\ restoring' = Tail(restoring)
        /\ UNCHANGED <<phase, row, saved>>
        /\ \/ addOrder(IoThread, id, FromRow(row[id]))
           \/ row[id].rem = 0 /\ UNCHANGED vars
    BY <1>12, <2>1 DEF RestoreNext, dbVars
  <2>3. \A j : InQueue(restoring, j) => j = id \/ InQueue(restoring', j)
    BY <2>1, <2>2, RestOfUpdates
  <2>4. (Offered(id) => Made(id)') /\ \A j \in Ids : Made(j) => Made(j)'
    <3>1. CASE addOrder(IoThread, id, FromRow(row[id]))
      <4>1. FromRow(row[id]).status # "NONE"
        <5>1. ~Made(id) /\ FromRow(row[id]).rem > 0 /\ row[id] \in Orders
          BY <1>0, <3>1, AddEffect DEF Made, PersistInv, StoreType
        <5> QED BY <5>1, FromRowFields
      <4> QED BY <1>0, <3>1, <4>1, AddEffect DEF Made
    <3>2. CASE row[id].rem = 0 /\ UNCHANGED vars
      <4>1. ~Offered(id)
        BY <3>2 DEF Offered
      <4> QED BY <3>2, <4>1 DEF vars, Made
    <3> QED BY <2>2, <3>1, <3>2
  <2> QED BY <2>2, <2>3, <2>4, MoreMade
<1> QED BY <1>0, <1>1, <1>2, <1>3, <1>4, <1>5, <1>6, <1>7, <1>8, <1>9, <1>10, <1>11, <1>12
        DEF PNext

----------------------------------------------------------------------------
(* Queues in the order of the rows.                                        *)

\* A level replaced by a part of itself: nobody overtakes.
LEMMA SetLevelAhead ==
  ASSUME NEW m, IsLevelMap(m), NEW p \in DOMAIN m, NEW q \in Seq(Ids),
         \A i, j \in 1 .. Len(q) : i < j =>
             \E k, l \in 1 .. Len(m[p]) : k < l /\ m[p][k] = q[i] /\ m[p][l] = q[j],
         NEW a, NEW b, Ahead(SetLevel(m, p, q), a, b)
  PROVE  Ahead(m, a, b)
<1> DEFINE r == SetLevel(m, p, q)
<1>1. /\ DOMAIN r \subseteq DOMAIN m
      /\ p \in DOMAIN r => r[p] = q
      /\ \A x \in DOMAIN r \ {p} : r[x] = m[x]
  BY DEF SetLevel, EraseLevel, IsLevelMap
<1> HIDE DEF r
<1>2. PICK x \in DOMAIN r : \E i, j \in 1 .. Len(r[x]) : i < j /\ r[x][i] = a /\ r[x][j] = b
  BY DEF Ahead, r
<1>3. CASE x # p
  BY <1>1, <1>2, <1>3 DEF Ahead
<1>4. CASE x = p
  <2>1. \E i, j \in 1 .. Len(q) : i < j /\ q[i] = a /\ q[j] = b
    BY <1>1, <1>2, <1>4
  <2> QED BY <2>1 DEF Ahead
<1> QED BY <1>3, <1>4

LEMMA PopFrontAhead ==
  ASSUME NEW m, IsLevelMap(m), WellFormed(m), NEW p \in DOMAIN m, NEW a, NEW b,
         Ahead(SetLevel(m, p, Tail(m[p])), a, b)
  PROVE  Ahead(m, a, b)
<1> DEFINE q == m[p]
<1>1. q \in Seq(Ids) /\ q # <<>> /\ NoRepeat(q)
  BY DEF IsLevelMap, WellFormed
<1>2. Ahead(SetLevel(m, p, Tail(q)), a, b)
  OBVIOUS
<1> HIDE DEF q
<1>3. /\ Tail(q) \in Seq(Ids) /\ Len(Tail(q)) = Len(q) - 1 /\ Len(q) \in Nat
      /\ \A i \in 1 .. Len(Tail(q)) : Tail(q)[i] = q[i + 1]
  BY <1>1, TailQueue
<1>4. ASSUME NEW i \in 1 .. Len(Tail(q)), NEW j \in 1 .. Len(Tail(q)), i < j
      PROVE  \E k, l \in 1 .. Len(q) : k < l /\ q[k] = Tail(q)[i] /\ q[l] = Tail(q)[j]
  <2>1. i + 1 \in 1 .. Len(q) /\ j + 1 \in 1 .. Len(q) /\ i + 1 < j + 1
    BY <1>3, <1>4
  <2> QED BY <1>3, <2>1
<1> QED BY <1>2, <1>3, <1>4, SetLevelAhead DEF q

LEMMA EraseFromAhead ==
  ASSUME NEW m, IsLevelMap(m), WellFormed(m), NEW p \in Prices, NEW id \in Ids,
         NEW a, NEW b, Ahead(EraseFrom(m, p, id), a, b)
  PROVE  Ahead(m, a, b)
<1>1. CASE ~(p \in DOMAIN m /\ \E i \in 1 .. Len(m[p]) : m[p][i] = id)
  BY <1>1 DEF EraseFrom
<1>2. CASE p \in DOMAIN m /\ \E i \in 1 .. Len(m[p]) : m[p][i] = id
  <2> DEFINE q == m[p]
             First(i) == q[i] = id /\ \A j \in 1 .. i - 1 : q[j] # id
             n == CHOOSE k \in 1 .. Len(q) : First(k)
             r == EraseAt(q, n)
  <2>1. q \in Seq(Ids) /\ NoRepeat(q)
    BY <1>2 DEF IsLevelMap, WellFormed
  <2>2. n \in 1 .. Len(q)
    <3>1. PICK k \in 1 .. Len(q) : q[k] = id
      BY <1>2
    <3>2. First(k)
      BY <2>1, <3>1 DEF NoRepeat
    <3> QED BY <3>2
  <2>3. Ahead(SetLevel(m, p, r), a, b)
    BY <1>2 DEF EraseFrom
  <2> HIDE DEF n, q
  <2>4. r \in Seq(Ids)
    BY <2>1, <2>2, EraseAtQueue
  <2>5. /\ Len(r) = Len(q) - 1 /\ Len(q) \in Nat
        /\ \A k \in 1 .. Len(r) : r[k] = IF k < n THEN q[k] ELSE q[k + 1]
    BY <2>1, <2>2 DEF EraseAt
  <2> HIDE DEF r
  <2>6. ASSUME NEW k \in 1 .. Len(r)
        PROVE  \E c \in 1 .. Len(q) : r[k] = q[c] /\ c = IF k < n THEN k ELSE k + 1
    <3>1. CASE k < n
      BY <2>5, <3>1
    <3>2. CASE ~(k < n)
      <4>1. k + 1 \in 1 .. Len(q) /\ r[k] = q[k + 1]
        BY <2>2, <2>5, <3>2
      <4> QED BY <3>2, <4>1
    <3> QED BY <3>1, <3>2
  <2>7. ASSUME NEW i \in 1 .. Len(r), NEW j \in 1 .. Len(r), i < j
        PROVE  \E k, l \in 1 .. Len(q) : k < l /\ q[k] = r[i] /\ q[l] = r[j]
    <3>1. PICK k \in 1 .. Len(q) : r[i] = q[k] /\ k = IF i < n THEN i ELSE i + 1
      BY <2>6
    <3>2. PICK l \in 1 .. Len(q) : r[j] = q[l] /\ l = IF j < n THEN j ELSE j + 1
      BY <2>6
    <3>3. k < l
      BY <2>2, <2>7, <3>1, <3>2
    <3> QED BY <3>1, <3>2, <3>3
  <2> QED BY <1>2, <2>3, <2>4, <2>7, SetLevelAhead DEF q
<1> QED BY <1>1, <1>2

LEMMA EraseLevelAhead ==
  ASSUME NEW m, NEW p, NEW a, NEW b, Ahead(EraseLevel(m, p), a, b)
  PROVE  Ahead(m, a, b)
  BY DEF Ahead, EraseLevel

\* A newcomer is behind all orders at its price.
LEMMA PushBackAhead ==
  ASSUME NEW m, IsLevelMap(m), NEW p \in Prices, NEW id \in Ids, NEW a, NEW b,
         Ahead(PushBack(m, p, id), a, b)
  PROVE  Ahead(m, a, b) \/ (b = id /\ At(m, p, a))
<1> DEFINE r == PushBack(m, p, id)
<1>1. /\ DOMAIN r = DOMAIN m \cup {p}
      /\ \A x \in DOMAIN m \ {p} : r[x] = m[x]
      /\ r[p] = IF p \in DOMAIN m THEN Append(m[p], id) ELSE <<id>>
  BY DEF PushBack
<1> HIDE DEF r
<1>2. PICK x \in DOMAIN r : \E i, j \in 1 .. Len(r[x]) : i < j /\ r[x][i] = a /\ r[x][j] = b
  BY DEF Ahead, r
<1>3. CASE x # p
  BY <1>1, <1>2, <1>3 DEF Ahead
<1>4. CASE x = p /\ p \notin DOMAIN m
  <2>1. r[x] = <<id>> /\ Len(<<id>>) = 1
    BY <1>1, <1>4
  <2>2. \A i, j \in 1 .. Len(r[x]) : ~(i < j)
    BY <2>1
  <2> QED BY <1>2, <2>2
<1>5. CASE x = p /\ p \in DOMAIN m
  <2>1. PICK q \in Seq(Ids) : q = m[p]
    BY <1>5 DEF IsLevelMap
  <2>2. PICK i \in 1 .. Len(r[x]), j \in 1 .. Len(r[x]) : i < j /\ r[x][i] = a /\ r[x][j] = b
    BY <1>2
  <2>3. /\ Len(r[x]) = Len(q) + 1 /\ Len(q) \in Nat
        /\ \A k \in 1 .. Len(q) : r[x][k] = q[k]
        /\ r[x][Len(q) + 1] = id
    BY <1>1, <1>5, <2>1, AppendRows
  <2>4. i \in 1 .. Len(q) /\ (j \in 1 .. Len(q) \/ j = Len(q) + 1)
    BY <2>2, <2>3
  <2>5. CASE j \in 1 .. Len(q)
    BY <1>5, <2>1, <2>2, <2>3, <2>4, <2>5 DEF Ahead
  <2>6. CASE j = Len(q) + 1
    <3>1. b = id /\ q[i] = a
      BY <2>2, <2>3, <2>4, <2>6
    <3> QED BY <1>5, <2>1, <2>4, <3>1 DEF At, InQueue
  <2> QED BY <2>4, <2>5, <2>6
<1> QED BY <1>3, <1>4, <1>5

\* Nobody in a queue gets in front of another.
NobodyOvertakes ==
    \A s \in Sides, a, b \in Ids :
        /\ Ahead(book'[s], a, b) => Ahead(book[s], a, b)
        /\ Ahead(stops'[s], a, b) => Ahead(stops[s], a, b)

LEMMA MatchAhead ==
  ASSUME IInv, NEW t \in Threads, Match(t)
  PROVE  NobodyOvertakes
<1>1. PICK taker \in Ids, maker \in Ids, other \in Sides, level \in Prices, q \in Nat :
          Traded(t, taker, maker, other, level, q)
  BY MatchEffect
<1>2. /\ level \in DOMAIN book[other]
      /\ \/ UNCHANGED book
         \/ book' = [book EXCEPT ![other] = SetLevel(@, level, Tail(book[other][level]))]
  BY <1>1 DEF Traded, Paired
<1>3. /\ DOMAIN book = Sides /\ IsLevelMap(book[other]) /\ WellFormed(book[other])
  BY BookMaps
<1>4. UNCHANGED stops
  BY DEF Match
<1>5. ASSUME NEW s \in Sides, NEW a \in Ids, NEW b \in Ids, Ahead(book'[s], a, b)
      PROVE  Ahead(book[s], a, b)
  <2>1. CASE book'[s] = book[s]
    BY <1>5, <2>1
  <2>2. CASE s = other /\ book'[s] = SetLevel(book[s], level, Tail(book[s][level]))
    <3>1. PICK m : m = book[s]
      OBVIOUS
    <3>2. Ahead(SetLevel(m, level, Tail(m[level])), a, b)
      BY <1>5, <2>2, <3>1
    <3>3. Ahead(m, a, b)
      BY <1>2, <1>3, <2>2, <3>1, <3>2, PopFrontAhead
    <3> QED BY <3>1, <3>3
  <2> QED BY <1>2, <1>3, <2>1, <2>2
<1> QED BY <1>4, <1>5 DEF NobodyOvertakes

LEMMA TriggerAhead ==
  ASSUME IInv, NEW t \in Threads, TriggerBuy(t) \/ TriggerSell(t)
  PROVE  NobodyOvertakes
<1>1. PICK side \in Sides : \E p \in DOMAIN stops[side] : TriggerLevel(side, p)
  BY TriggeredLevel
<1>2. PICK p \in DOMAIN stops[side] : TriggerLevel(side, p)
  BY <1>1
<1>3. /\ stops' = [stops EXCEPT ![side] = EraseLevel(@, p)] /\ DOMAIN stops = Sides
      /\ UNCHANGED book
  BY <1>2 DEF TriggerLevel, TriggerBuy, TriggerSell, IInv, TypeOK
<1>4. ASSUME NEW s \in Sides, NEW a \in Ids, NEW b \in Ids, Ahead(stops'[s], a, b)
      PROVE  Ahead(stops[s], a, b)
  <2>1. stops'[s] = stops[s] \/ stops'[s] = EraseLevel(stops[s], p)
    BY <1>3
  <2> QED BY <1>4, <2>1, EraseLevelAhead
<1> QED BY <1>3, <1>4 DEF NobodyOvertakes

LEMMA CancelAhead ==
  ASSUME IInv, NEW t \in Threads, NEW id \in Ids, CancelOrder(t, id)
  PROVE  NobodyOvertakes
<1>1. order[id].side \in Sides /\ order[id].stop \in Prices /\ order[id].price \in Prices
  BY DEF IInv, TypeOK, Orders
<1>2. /\ DOMAIN book = Sides /\ DOMAIN stops = Sides
      /\ \A s \in Sides : /\ IsLevelMap(book[s]) /\ WellFormed(book[s])
                          /\ IsLevelMap(stops[s]) /\ WellFormed(stops[s])
  BY DEF IInv, TypeOK, BookSound, StopsSound
<1>3. \A s \in Sides :
          /\ book'[s] = book[s] \/ book'[s] = EraseFrom(book[s], order[id].price, id)
          /\ stops'[s] = stops[s] \/ stops'[s] = EraseFrom(stops[s], order[id].stop, id)
  BY <1>1, <1>2 DEF CancelOrder
<1>4. ASSUME NEW s \in Sides, NEW a \in Ids, NEW b \in Ids
      PROVE  /\ Ahead(book'[s], a, b) => Ahead(book[s], a, b)
             /\ Ahead(stops'[s], a, b) => Ahead(stops[s], a, b)
  BY <1>1, <1>2, <1>3, EraseFromAhead
<1> QED BY <1>4 DEF NobodyOvertakes

\* The order that is settled joins the book behind the others.
LEMMA SettleAhead ==
  ASSUME IInv, NEW t \in Threads, Settle(t)
  PROVE  /\ UNCHANGED stops
         /\ \A s \in Sides, a, b \in Ids : Ahead(book'[s], a, b) =>
                Ahead(book[s], a, b) \/ (b = Head(todo) /\ Resting(a))
<1>1. PICK h \in Ids : h = Head(todo)
  BY TodoHead DEF Settle
<1>2. order[h].side \in Sides /\ order[h].price \in Prices
  BY DEF IInv, TypeOK, Orders
<1>3. DOMAIN book = Sides /\ \A s \in Sides : IsLevelMap(book[s])
  BY BookMaps
<1>4. \/ UNCHANGED book
      \/ book' = [book EXCEPT ![order[h].side] = PushBack(@, order[h].price, h)]
  BY <1>1 DEF Settle, addOrderToBook
<1>5. ASSUME NEW s \in Sides, NEW a \in Ids, NEW b \in Ids, Ahead(book'[s], a, b)
      PROVE  Ahead(book[s], a, b) \/ (b = h /\ Resting(a))
  <2>1. book'[s] = book[s] \/ book'[s] = PushBack(book[s], order[h].price, h)
    BY <1>2, <1>3, <1>4
  <2>2. CASE book'[s] = PushBack(book[s], order[h].price, h)
    <3>1. Ahead(book[s], a, b) \/ (b = h /\ At(book[s], order[h].price, a))
      BY <1>2, <1>3, <1>5, <2>2, PushBackAhead
    <3> QED BY <1>2, <3>1 DEF Resting
  <2> QED BY <1>5, <2>1, <2>2
<1>6. UNCHANGED stops
  BY DEF Settle
<1> QED BY <1>1, <1>5, <1>6

\* A stop order that is added joins its queue behind the others.
LEMMA AddAhead ==
  ASSUME IInv, NEW t \in Threads, NEW id \in Ids, NEW N \in Orders, addOrder(t, id, N)
  PROVE  /\ UNCHANGED book
         /\ \A s \in Sides, a, b \in Ids : Ahead(stops'[s], a, b) =>
                Ahead(stops[s], a, b) \/ (b = id /\ Stored(a))
<1>1. N.side \in Sides /\ N.stop \in Prices
  BY DEF Orders
<1>2. DOMAIN stops = Sides /\ \A s \in Sides : IsLevelMap(stops[s])
  BY DEF IInv, TypeOK
<1>3. /\ UNCHANGED book
      /\ \/ UNCHANGED stops
         \/ stops' = [stops EXCEPT ![N.side] = PushBack(@, N.stop, id)]
  BY DEF addOrder, AddStop, AddPlain
<1>4. ASSUME NEW s \in Sides, NEW a \in Ids, NEW b \in Ids, Ahead(stops'[s], a, b)
      PROVE  Ahead(stops[s], a, b) \/ (b = id /\ Stored(a))
  <2>1. stops'[s] = stops[s] \/ stops'[s] = PushBack(stops[s], N.stop, id)
    BY <1>1, <1>2, <1>3
  <2>2. CASE stops'[s] = PushBack(stops[s], N.stop, id)
    <3>1. Ahead(stops[s], a, b) \/ (b = id /\ At(stops[s], N.stop, a))
      BY <1>1, <1>2, <1>4, <2>2, PushBackAhead
    <3> QED BY <1>1, <3>1 DEF Stored
  <2> QED BY <1>4, <2>1, <2>2
<1> QED BY <1>3, <1>4

\* Orders in a queue were made.
LEMMA QueuedMade ==
  ASSUME IInv, NEW a \in Ids
  PROVE  /\ Resting(a) \/ Stored(a) => Made(a)
         /\ \A s \in Sides, b \in Ids :
                Ahead(book[s], a, b) \/ Ahead(stops[s], a, b) => Made(a) /\ Made(b)
<1>1. \A j \in Ids : Resting(j) \/ Stored(j) => Made(j)
  BY DEF Resting, Stored, IInv, BookSound, StopsSound, Open, Made
<1>2. ASSUME NEW s \in Sides, NEW b \in Ids, Ahead(book[s], a, b)
      PROVE  Resting(a) /\ Resting(b)
  <2>1. DOMAIN book[s] \subseteq Prices
    BY DEF IInv, TypeOK, IsLevelMap
  <2> QED BY <1>2, <2>1 DEF Ahead, Resting, At, InQueue
<1>3. ASSUME NEW s \in Sides, NEW b \in Ids, Ahead(stops[s], a, b)
      PROVE  Stored(a) /\ Stored(b)
  <2>1. DOMAIN stops[s] \subseteq Prices
    BY DEF IInv, TypeOK, IsLevelMap
  <2> QED BY <1>3, <2>1 DEF Ahead, Stored, At, InQueue
<1> QED BY <1>1, <1>2, <1>3

\* Queues stay in the order of the rows when who joins them has the last row.
LEMMA QueuesKept ==
  ASSUME IInv, QueuesByRow,
         \A j \in Ids : Made(j) => /\ Triggered(j) => Triggered(j)'
                                   /\ Rowed(j)' => Rowed(j),
         \A a, b \in Ids : Earlier(a, b) => Earlier(a, b)',
         \A s \in Sides, a, b \in Ids :
             Ahead(book'[s], a, b) \/ Ahead(stops'[s], a, b) =>
                 \/ Ahead(book[s], a, b) /\ Ahead(book'[s], a, b)
                 \/ Ahead(stops[s], a, b) /\ Ahead(stops'[s], a, b)
                 \/ Triggered(b)'
                 \/ Rowed(a)' /\ Rowed(b)' => Earlier(a, b)'
  PROVE  QueuesByRow'
<1>1. ASSUME NEW s \in Sides, NEW a \in Ids, NEW b \in Ids,
             Ahead(book'[s], a, b) \/ Ahead(stops'[s], a, b),
             Rowed(a)', Rowed(b)', ~Triggered(a)', ~Triggered(b)'
      PROVE  Earlier(a, b)'
  <2>1. CASE Ahead(book[s], a, b) \/ Ahead(stops[s], a, b)
    <3>1. Made(a) /\ Made(b) /\ Rowed(a) /\ Rowed(b)
      BY <1>1, <2>1, QueuedMade
    <3>2. a \notin TriggeredIds /\ b \notin TriggeredIds
      BY <1>1, <3>1 DEF TriggeredIds, Triggered
    <3>3. Earlier(a, b)
      BY <2>1, <3>1, <3>2 DEF QueuesByRow, RowOrdered
    <3> QED BY <3>3
  <2> QED BY <1>1, <2>1
<1>2. \A a \in Ids : a \notin TriggeredIds' => ~Triggered(a)'
  BY DEF TriggeredIds, Triggered
<1> QED BY <1>1, <1>2 DEF QueuesByRow, RowOrdered

----------------------------------------------------------------------------
(* The order of the additions is the order of the rows.                    *)

\* Steps that add no order and no row.
LEMMA LastKept ==
  ASSUME PersistInv, LastAdded, UNCHANGED <<rows, restoring>>,
         saved' = saved \/ saved' = NoId,
         \A j \in Ids : (Made(j)' <=> Made(j)) /\ (Rowed(j)' <=> Rowed(j)),
         pc'[IoThread] \in {"match", "scan"} =>
             pc[IoThread] \in {"match", "scan"} /\ incoming'[IoThread] = incoming[IoThread]
  PROVE  LastAdded'
<1>1. \A a, b : Earlier(a, b)' <=> Earlier(a, b)
  BY DEF Earlier
<1>2. saved' # NoId => rows' # <<>> /\ rows'[Len(rows')] = saved'
  BY DEF LastAdded
<1>3. \A k \in 1 .. Len(restoring) : restoring[k] \in Ids
  BY DEF PersistInv, StoreType
<1>4. ASSUME NEW k \in 1 .. Len(restoring)
      PROVE  /\ Rowed(restoring[k])'
             /\ \A l \in 1 .. Len(restoring) : k < l => Earlier(restoring[k], restoring[l])'
             /\ \A id \in Ids : Made(id)' /\ Rowed(id)' => Earlier(id, restoring[k])'
  <2>1. /\ Rowed(restoring[k])
        /\ \A l \in 1 .. Len(restoring) : k < l => Earlier(restoring[k], restoring[l])
        /\ \A id \in Ids : Made(id) /\ Rowed(id) => Earlier(id, restoring[k])
    BY DEF LastAdded
  <2>2. Rowed(restoring[k])'
    <3>1. PICK r \in Ids : r = restoring[k]
      BY <1>3
    <3>2. Rowed(r)'
      BY <2>1, <3>1
    <3> QED BY <3>1, <3>2 DEF Rowed
  <2>3. \A l \in 1 .. Len(restoring) : k < l => Earlier(restoring[k], restoring[l])'
    BY <2>1 DEF Earlier
  <2>4. \A id \in Ids : Made(id)' /\ Rowed(id)' => Earlier(id, restoring[k])'
    BY <2>1 DEF Earlier
  <2> QED BY <2>2, <2>3, <2>4
<1>5. ASSUME pc'[IoThread] \in {"match", "scan"}, Rowed(incoming[IoThread])'
      PROVE  NewestRow(incoming[IoThread])'
  <2>1. PICK i \in Ids : i = incoming[IoThread] /\ i = incoming'[IoThread]
    <3>1. pc[IoThread] # "idle" /\ incoming'[IoThread] = incoming[IoThread]
      BY <1>5
    <3> QED BY <3>1, MainThreadAssumption DEF PersistInv, CallsRight
  <2>2. Rowed(i)'
    BY <1>5, <2>1 DEF Rowed
  <2>3. Rowed(incoming[IoThread])
    BY <2>1, <2>2
  <2>4. NewestRow(i)
    BY <1>5, <2>1, <2>3 DEF LastAdded
  <2>5. NewestRow(i)'
    BY <1>1, <2>4 DEF NewestRow
  <2> QED BY <2>1, <2>5 DEF NewestRow, Earlier
<1> QED BY <1>2, <1>4, <1>5 DEF LastAdded

\* An order is added whose row is later than the rows of all others.
LEMMA LastAdd ==
  ASSUME IInv, NEW id \in Ids, NEW N, addOrder(IoThread, id, N), UNCHANGED <<row, rows>>,
         Rowed(id) => \A j \in Ids : Made(j) /\ Rowed(j) => Earlier(j, id),
         saved' = NoId,
         \A k \in 1 .. Len(restoring') :
             /\ Rowed(restoring'[k])
             /\ \A l \in 1 .. Len(restoring') : k < l => Earlier(restoring'[k], restoring'[l])
             /\ \A j \in Ids : (Made(j) \/ j = id) /\ Rowed(j) => Earlier(j, restoring'[k])
  PROVE  LastAdded'
<1>0. IoThread \in Threads
  BY MainThreadAssumption
<1>1. /\ \A j \in Ids \ {id} : order'[j] = order[j]
      /\ incoming'[IoThread] = id
  BY <1>0, AddEffect
<1>2. \A j \in Ids : Made(j)' => Made(j) \/ j = id
  BY <1>1 DEF Made
<1>3. \A a, b : (Earlier(a, b)' <=> Earlier(a, b)) /\ (Rowed(a)' <=> Rowed(a))
  BY DEF Earlier, Rowed
<1>4. ASSUME NEW k \in 1 .. Len(restoring')
      PROVE  /\ Rowed(restoring[k])'
             /\ \A l \in 1 .. Len(restoring') : k < l => Earlier(restoring[k], restoring[l])'
             /\ \A j \in Ids : Made(j)' /\ Rowed(j)' => Earlier(j, restoring[k])'
  <2>1. Rowed(restoring[k])'
    BY DEF Rowed
  <2>2. \A l \in 1 .. Len(restoring') : k < l => Earlier(restoring[k], restoring[l])'
    BY DEF Earlier
  <2>3. \A j \in Ids : Made(j)' /\ Rowed(j)' => Earlier(j, restoring'[k])
    BY <1>2, <1>3
  <2>4. \A j \in Ids : Made(j)' /\ Rowed(j)' => Earlier(j, restoring[k])'
    BY <2>3 DEF Earlier
  <2> QED BY <2>1, <2>2, <2>4
<1>5. Rowed(id)' => NewestRow(id)'
  BY <1>2, <1>3 DEF NewestRow
<1>6. Rowed(incoming[IoThread])' => NewestRow(incoming[IoThread])'
  <2>1. Rowed(incoming[IoThread])' => Rowed(id)'
    BY <1>1 DEF Rowed
  <2>2. NewestRow(id)' => NewestRow(incoming[IoThread])'
    BY <1>1 DEF NewestRow, Earlier
  <2> QED BY <1>5, <2>1, <2>2
<1> QED BY <1>4, <1>6 DEF LastAdded

LEMMA LastSave ==
  ASSUME PersistInv, ActiveMade, NEW id \in Ids, NEW in \in Inputs, saveOrder(id, in)
  PROVE  LastAdded'
<1>1. /\ phase = "serving" /\ pc[IoThread] = "idle" /\ rows' = Append(rows, id)
      /\ saved' = id /\ UNCHANGED <<pc, restoring>>
  BY DEF saveOrder, IoFree, vars
<1>2. restoring' = <<>>
  BY <1>1 DEF ActiveMade
<1>3. Len(rows') = Len(rows) + 1 /\ rows'[Len(rows) + 1] = id /\ Len(rows) \in Nat
  BY <1>1, AppendRows DEF PersistInv, StoreType
<1>4. rows' # <<>>
  BY <1>3
<1> QED BY <1>1, <1>2, <1>3, <1>4 DEF LastAdded

\* The order that was saved last has the last row.
LEMMA SavedLast ==
  ASSUME PersistInv, RowInv, LastAdded, NEW id \in Ids, id = saved, saved # NoId,
         NEW j \in Ids, Made(j), Rowed(j)
  PROVE  Earlier(j, id)
<1>1. rows \in Seq(Ids) /\ rows # <<>> /\ rows[Len(rows)] = id
  BY DEF LastAdded, PersistInv, StoreType
<1>2. Len(rows) \in Nat /\ Len(rows) \in 1 .. Len(rows)
  BY <1>1
<1>3. PICK x \in 1 .. Len(rows) : rows[x] = j
  BY DEF RowInv, RowsListed, InQueue
<1>4. x # Len(rows)
  BY <1>1, <1>3 DEF PersistInv, SavedNew
<1>5. x < Len(rows)
  BY <1>2, <1>4
<1> QED BY <1>1, <1>2, <1>3, <1>5 DEF Earlier

LEMMA LastNext ==
  BookInv /\ PersistInv /\ RowInv /\ ActiveMade /\ LastAdded /\ [PNext]_pvars => LastAdded'
<1> SUFFICES ASSUME BookInv, PersistInv, RowInv, ActiveMade, LastAdded, [PNext]_pvars
             PROVE  LastAdded'
  OBVIOUS
<1>0. IInv /\ IoThread \in Threads
  BY MainThreadAssumption DEF BookInv
<1>1. ASSUME NEW id \in Ids, NEW in \in Inputs, saveOrder(id, in) PROVE LastAdded'
  BY <1>1, LastSave
<1>2. ASSUME NEW id \in Ids, NEW in \in Inputs, AddGenerated(id, in) PROVE LastAdded'
  <2>1. /\ addOrder(IoThread, id, NewOrder(in)) /\ phase = "serving" /\ saved = NoId
        /\ UNCHANGED <<row, rows, saved, restoring>> /\ id \notin used
    BY <1>2 DEF AddGenerated, IoFree, dbVars, runVars
  <2>2. restoring' = <<>> /\ ~Rowed(id)
    BY <2>1 DEF ActiveMade, PersistInv, UsedOnce
  <2> QED BY <1>0, <2>1, <2>2, LastAdd
<1>3. CASE AddSaved
  <2>1. PICK id \in Ids : id = saved /\ saved # NoId
    BY <1>3 DEF AddSaved, PersistInv, StoreType
  <2>2. phase = "serving" /\ ~Made(id) /\ pc[IoThread] = "idle"
    BY <2>1 DEF PersistInv, SavedNew
  <2>3. /\ UNCHANGED <<row, rows, restoring>> /\ restoring = <<>> /\ saved' = NoId
        /\ addOrder(IoThread, id, row[id]) \/ UNCHANGED vars
    BY <1>3, <2>1, <2>2 DEF AddSaved, dbVars, ActiveMade
  <2>4. CASE addOrder(IoThread, id, row[id])
    BY <1>0, <2>1, <2>3, <2>4, SavedLast, LastAdd
  <2>5. CASE UNCHANGED vars
    <3>1. UNCHANGED <<order, pc, incoming>>
      BY <2>5 DEF vars, callVars
    <3> QED BY <2>3, <3>1, LastKept DEF Made, Rowed
  <2> QED BY <2>3, <2>4, <2>5
<1>4. CASE CancelRefused \/ start \/ UNCHANGED pvars
  <2>1. UNCHANGED <<order, pc, incoming, row, rows, saved, restoring>>
    BY <1>4 DEF CancelRefused, start, pvars, vars, callVars, dbVars, runVars
  <2> QED BY <2>1, LastKept DEF Made, Rowed
<1>5. ASSUME NEW t \in Threads, NEW id \in Ids, ClientCancel(id) \/ GeneratorCancel(t, id)
      PROVE  LastAdded'
  <2>1. PICK u \in Threads : CancelOrder(u, id)
    BY <1>0, <1>5 DEF ClientCancel, GeneratorCancel
  <2>2. UNCHANGED <<saved, restoring, row, rows>>
    BY <1>5 DEF ClientCancel, GeneratorCancel, dbVars, runVars
  <2>3. \A j \in Ids : (Made(j)' <=> Made(j)) /\ (Rowed(j)' <=> Rowed(j))
    BY <1>0, <2>1, <2>2, CancelEffect DEF Made, Rowed
  <2>4. pc'[IoThread] \in {"match", "scan"} =>
            pc[IoThread] \in {"match", "scan"} /\ incoming'[IoThread] = incoming[IoThread]
    BY <1>0, <2>1, CancelEffect
  <2> QED BY <2>2, <2>3, <2>4, LastKept
<1>6. ASSUME NEW t \in Threads, Work(t) PROVE LastAdded'
  <2>1. LockStep(t) /\ UNCHANGED <<saved, restoring, row, rows>>
    BY <1>6 DEF Work, LockStep, dbVars, runVars
  <2>2. OrdersStay /\ pc[t] \in {"match", "scan"} /\ \A u \in Threads \ {t} : pc'[u] = pc[u]
    BY <1>0, <2>1, LockStepStays
  <2>3. \A j \in Ids : (Made(j)' <=> Made(j)) /\ (Rowed(j)' <=> Rowed(j))
    BY <2>1, <2>2 DEF OrdersStay, Made, Rowed
  <2>4. pc'[IoThread] \in {"match", "scan"} =>
            pc[IoThread] \in {"match", "scan"} /\ incoming'[IoThread] = incoming[IoThread]
    BY <1>0, <2>2 DEF OrdersStay
  <2> QED BY <2>1, <2>3, <2>4, LastKept
<1>7. ASSUME NEW t \in Threads, saveTrade(t) \/ ReadOrder(t) PROVE LastAdded'
  <2>1. UNCHANGED <<order, saved, restoring, row, rows>>
    BY <1>7 DEF saveTrade, NotifyTrade, ReadOrder, NotifyUpdate, NotifyIncoming, dbVars,
                runVars
  <2>2. \/ UNCHANGED <<pc, incoming>>
        \/ /\ pc' = [pc EXCEPT ![t] = "idle"]
           /\ incoming' = [incoming EXCEPT ![t] = NoId]
    BY <1>7 DEF saveTrade, NotifyTrade, ReadOrder, NotifyUpdate, NotifyIncoming
  <2>3. pc'[IoThread] \in {"match", "scan"} =>
            pc[IoThread] \in {"match", "scan"} /\ incoming'[IoThread] = incoming[IoThread]
    <3>1. pc \in [Threads -> {"idle", "match", "scan", "notify"}]
          /\ incoming \in [Threads -> Ids \cup {NoId}]
      BY <1>0 DEF IInv, TypeOK
    <3> QED BY <1>0, <2>2, <3>1
  <2> QED BY <2>1, <2>3, LastKept DEF Made, Rowed
<1>8. ASSUME NEW t \in Threads, updateOrder(t) PROVE LastAdded'
  <2>1. UNCHANGED <<order, pc, incoming, saved, restoring, rows>>
    BY <1>8 DEF updateOrder, vars, callVars
  <2>2. PICK id \in Ids : Written(t, id)
    BY <1>8, UpdateEffect
  <2>3. \A j \in Ids : (Made(j)' <=> Made(j)) /\ (Rowed(j)' <=> Rowed(j))
    BY <2>1, <2>2 DEF Written, Made, Rowed
  <2> QED BY <2>1, <2>3, LastKept
<1>9. CASE Crash
  <2>1. saved' = NoId /\ restoring' = <<>> /\ pc' = [t \in Threads |-> "idle"]
    BY <1>9 DEF Crash, BookLost
  <2> QED BY <1>0, <2>1 DEF LastAdded
<1>10. CASE loadAllActiveOrders
  <2>1. /\ phase = "down" /\ UNCHANGED <<order, pc, incoming, saved, row, rows>>
    BY <1>10 DEF loadAllActiveOrders, vars, callVars, dbVars
  <2>2. saved = NoId /\ \A j \in Ids : ~Made(j)'
    BY <2>1 DEF PersistInv, SavedNew, ActiveMade, Made
  <2>3. /\ \A k \in 1 .. Len(restoring') : restoring'[k] \in Ids /\ Active(restoring'[k])
        /\ \A k, l \in 1 .. Len(restoring') : k < l => Earlier(restoring'[k], restoring'[l])
    BY <1>10, LoadFinds
  <2>4. \A k \in 1 .. Len(restoring') : Rowed(restoring[k])'
    BY <2>1, <2>3 DEF Rowed, Active
  <2>5. \A k, l \in 1 .. Len(restoring') : k < l => Earlier(restoring[k], restoring[l])'
    BY <2>1, <2>3 DEF Earlier
  <2>6. NewestRow(incoming[IoThread])'
    BY <2>2 DEF NewestRow
  <2> QED BY <2>1, <2>2, <2>4, <2>5, <2>6 DEF LastAdded
<1>11. CASE RestoreNext
  <2>1. PICK id \in Ids :
            /\ restoring \in Seq(Ids) /\ restoring # <<>> /\ id = Head(restoring)
            /\ id = restoring[1]
    BY <1>11, RestoredMatches
  <2>2. /\ phase = "restoring" /\ restoring' = Tail(restoring)
        /\ UNCHANGED <<row, rows, saved>> /\ pc[IoThread] = "idle"
        /\ addOrder(IoThread, id, FromRow(row[id])) \/ UNCHANGED vars
    BY <1>11, <2>1 DEF RestoreNext, dbVars
  <2>3. saved = NoId
    BY <2>2 DEF PersistInv, SavedNew
  <2>4. /\ Len(restoring') = Len(restoring) - 1 /\ Len(restoring) \in Nat /\ Len(restoring) > 0
        /\ \A k \in 1 .. Len(restoring') : restoring'[k] = restoring[k + 1]
    BY <2>1, <2>2
  <2>5. \A k \in 1 .. Len(restoring') : /\ k + 1 \in 1 .. Len(restoring) /\ 1 < k + 1
                                        /\ \A l \in 1 .. Len(restoring') : k < l => k + 1 < l + 1
    BY <2>4
  <2>6. 1 \in 1 .. Len(restoring)
    BY <2>4
  <2>7. ASSUME NEW k \in 1 .. Len(restoring')
        PROVE  /\ Rowed(restoring'[k]) /\ Earlier(id, restoring'[k])
               /\ \A l \in 1 .. Len(restoring') : k < l => Earlier(restoring'[k], restoring'[l])
               /\ \A j \in Ids : Made(j) /\ Rowed(j) => Earlier(j, restoring'[k])
    BY <2>1, <2>4, <2>5, <2>6 DEF LastAdded
  <2>8. \A j \in Ids : Made(j) /\ Rowed(j) => Earlier(j, id)
    BY <2>1, <2>6 DEF LastAdded
  <2>9. CASE addOrder(IoThread, id, FromRow(row[id]))
    BY <1>0, <2>2, <2>3, <2>7, <2>8, <2>9, LastAdd
  <2>10. CASE UNCHANGED vars
    <3>1. UNCHANGED <<order, pc, incoming>>
      BY <2>10 DEF vars, callVars
    <3>2. \A k \in 1 .. Len(restoring') : Rowed(restoring[k])'
      BY <2>2, <2>7 DEF Rowed
    <3>3. \A k, l \in 1 .. Len(restoring') : k < l => Earlier(restoring[k], restoring[l])'
      <4>1. \A k, l \in 1 .. Len(restoring') : k < l => Earlier(restoring'[k], restoring'[l])
        BY <2>7
      <4> QED BY <2>2, <4>1 DEF Earlier
    <3>4. \A k \in 1 .. Len(restoring') : \A j \in Ids :
              Made(j)' /\ Rowed(j)' => Earlier(j, restoring[k])'
      <4>1. \A j \in Ids : (Made(j)' <=> Made(j)) /\ (Rowed(j)' <=> Rowed(j))
        BY <2>2, <3>1 DEF Made, Rowed
      <4>2. \A k \in 1 .. Len(restoring') : \A j \in Ids :
                Made(j)' /\ Rowed(j)' => Earlier(j, restoring'[k])
        BY <2>7, <4>1
      <4> QED BY <2>2, <4>2 DEF Earlier
    <3> QED BY <2>2, <2>3, <3>1, <3>2, <3>3, <3>4 DEF LastAdded
  <2> QED BY <2>2, <2>9, <2>10
<1> QED BY <1>0, <1>1, <1>2, <1>3, <1>4, <1>5, <1>6, <1>7, <1>8, <1>9, <1>10, <1>11 DEF PNext

----------------------------------------------------------------------------
(* Clients' orders stand in their queues in the order of their rows.       *)

\* Steps that touch neither the orders nor the queues.
LEMMA QueuesSame ==
  ASSUME IInv, QueuesByRow, UNCHANGED <<order, book, stops, stop_ids>>,
         \A j \in Ids : Made(j) /\ Rowed(j)' => Rowed(j),
         \A a, b \in Ids : Earlier(a, b) => Earlier(a, b)'
  PROVE  QueuesByRow'
<1>1. \A j \in Ids : Triggered(j)' <=> Triggered(j)
  BY DEF Triggered
<1> QED BY <1>1, QueuesKept

LEMMA QueuesSave ==
  ASSUME IInv, PersistInv, QueuesByRow, NEW id \in Ids, NEW in \in Inputs, saveOrder(id, in)
  PROVE  QueuesByRow'
<1>1. /\ UNCHANGED <<order, book, stops, stop_ids>> /\ id \notin used
      /\ rows' = Append(rows, id) /\ row' = [row EXCEPT ![id] = NewOrder(in)]
  BY DEF saveOrder, vars, history
<1>2. rows \in Seq(Ids) /\ row \in [Ids -> Orders]
  BY DEF PersistInv, StoreType
<1>3. \A j \in Ids : Made(j) /\ Rowed(j)' => Rowed(j)
  BY <1>1, <1>2 DEF PersistInv, UsedOnce, Rowed
<1>4. /\ Len(rows) \in Nat /\ Len(rows') = Len(rows) + 1
      /\ \A i \in 1 .. Len(rows) : rows'[i] = rows[i]
  BY <1>1, <1>2, AppendRows
<1>5. \A i \in 1 .. Len(rows) : i \in 1 .. Len(rows')
  BY <1>4
<1>6. \A a, b \in Ids : Earlier(a, b) => Earlier(a, b)'
  BY <1>4, <1>5 DEF Earlier
<1> QED BY <1>1, <1>3, <1>6, QueuesSame

LEMMA QueuesAdd ==
  ASSUME IInv, QueuesByRow, NEW id \in Ids, NEW N \in Orders, addOrder(IoThread, id, N),
         UNCHANGED <<row, rows>>,
         Rowed(id) => \A j \in Ids : Made(j) /\ Rowed(j) => Earlier(j, id)
  PROVE  QueuesByRow'
<1>0. IoThread \in Threads
  BY MainThreadAssumption
<1>1. /\ ~Made(id) /\ \A j \in Ids \ {id} : order'[j] = order[j]
      /\ \A j \in Ids \ {id} : j \in stop_ids' <=> j \in stop_ids
  BY <1>0, AddEffect DEF Made
<1>2. /\ UNCHANGED book
      /\ \A s \in Sides, a, b \in Ids : Ahead(stops'[s], a, b) =>
             Ahead(stops[s], a, b) \/ (b = id /\ Stored(a))
  BY <1>0, AddAhead
<1>3. \A j \in Ids : Made(j) /\ Triggered(j) => Triggered(j)'
  BY <1>1 DEF Triggered
<1>4. \A a, b \in Ids : /\ Earlier(a, b)' <=> Earlier(a, b)
                        /\ Rowed(a)' <=> Rowed(a)
  BY DEF Earlier, Rowed
<1>5. \A a \in Ids : Stored(a) => Made(a)
  BY QueuedMade
<1> QED BY <1>2, <1>3, <1>4, <1>5, QueuesKept

LEMMA QueuesCancel ==
  ASSUME IInv, QueuesByRow, NEW t \in Threads, NEW id \in Ids, CancelOrder(t, id),
         UNCHANGED <<row, rows>>
  PROVE  QueuesByRow'
<1>1. \A j \in Ids : Triggered(j)' <=> Triggered(j)
  BY CancelEffect DEF Triggered, isStopOrder
<1>2. \A a, b \in Ids : /\ Earlier(a, b)' <=> Earlier(a, b)
                        /\ Rowed(a)' <=> Rowed(a)
  BY DEF Earlier, Rowed
<1>3. NobodyOvertakes
  BY CancelAhead
<1> QED BY <1>1, <1>2, <1>3, QueuesKept DEF NobodyOvertakes

LEMMA QueuesWork ==
  ASSUME BookInv, PersistInv, LastAdded, QueuesByRow, NEW t \in Threads, Work(t)
  PROVE  QueuesByRow'
<1>0. IInv /\ OwedInv /\ LockStep(t) /\ UNCHANGED <<row, rows>>
  BY DEF BookInv, Work, LockStep, dbVars
<1>1. \A j \in Ids : Triggered(j) => Triggered(j)'
  BY <1>0, LockStepOwes
<1>2. \A a, b \in Ids : /\ Earlier(a, b)' <=> Earlier(a, b)
                        /\ Rowed(a)' <=> Rowed(a)
  BY <1>0 DEF Earlier, Rowed
<1>3. CASE NobodyOvertakes
  BY <1>0, <1>1, <1>2, <1>3, QueuesKept DEF NobodyOvertakes
<1>4. CASE Match(t) \/ TriggerBuy(t) \/ TriggerSell(t)
  BY <1>0, <1>3, <1>4, MatchAhead, TriggerAhead
<1>5. CASE EndRound(t) \/ NextPrice(t) \/ NextRound(t) \/ Unlock(t)
  <2>1. UNCHANGED <<book, stops>>
    BY <1>5 DEF EndRound, NextPrice, NextRound, Unlock
  <2> QED BY <1>3, <2>1 DEF NobodyOvertakes
<1>6. CASE Settle(t)
  <2>1. PICK h \in Ids : h = Head(todo)
    BY <1>0, <1>6, TodoHead DEF Settle
  <2>2. /\ mutex = t /\ InFlight(h) /\ pc[t] = "match"
        /\ \A s \in Sides, p \in Prices : ~At(book[s], p, h)
    BY <1>0, <1>6, <2>1, TodoHead DEF Settle
  <2>3. ~Resting(h)
    BY <2>2 DEF Resting
  <2>4. /\ UNCHANGED stops
        /\ \A s \in Sides, a, b \in Ids : Ahead(book'[s], a, b) =>
               Ahead(book[s], a, b) \/ (b = h /\ Resting(a))
    BY <1>0, <1>6, <2>1, SettleAhead
  <2>5. h = incoming[t] \/ Triggered(h)
    BY <1>0, <2>2 DEF OwedInv
  <2>6. t = IoThread
    BY <2>2 DEF PersistInv, CallsRight
  <2>7. ASSUME NEW a \in Ids, Resting(a), Rowed(a)', Rowed(h)'
        PROVE  Triggered(h)' \/ Earlier(a, h)'
    <3>1. Made(a) /\ a # h
      BY <1>0, <2>3, <2>7, QueuedMade
    <3>2. CASE h = incoming[t]
      <4>1. NewestRow(h)
        BY <1>2, <2>2, <2>6, <2>7, <3>2 DEF LastAdded
      <4> QED BY <1>2, <2>7, <3>1, <4>1 DEF NewestRow
    <3> QED BY <1>1, <2>5, <3>2
  <2> QED BY <1>0, <1>1, <1>2, <2>4, <2>7, QueuesKept
<1> QED BY <1>0, <1>4, <1>5, <1>6 DEF LockStep

LEMMA QueuesNext ==
  BookInv /\ PersistInv /\ RowInv /\ LastAdded /\ QueuesByRow /\ [PNext]_pvars => QueuesByRow'
<1> SUFFICES ASSUME BookInv, PersistInv, RowInv, LastAdded, QueuesByRow, [PNext]_pvars
             PROVE  QueuesByRow'
  OBVIOUS
<1>0. IInv /\ IoThread \in Threads /\ row \in [Ids -> Orders]
  BY MainThreadAssumption DEF BookInv, PersistInv, StoreType
<1>1. ASSUME NEW id \in Ids, NEW in \in Inputs, saveOrder(id, in) PROVE QueuesByRow'
  BY <1>0, <1>1, QueuesSave
<1>2. ASSUME NEW id \in Ids, NEW in \in Inputs, AddGenerated(id, in) PROVE QueuesByRow'
  <2>1. /\ addOrder(IoThread, id, NewOrder(in)) /\ UNCHANGED <<row, rows>> /\ id \notin used
    BY <1>2 DEF AddGenerated, dbVars
  <2>2. ~Rowed(id)
    BY <2>1 DEF PersistInv, UsedOnce
  <2> QED BY <1>0, <2>1, <2>2, NewOrderFields, QueuesAdd
<1>3. ASSUME UNCHANGED <<vars, row, rows>> PROVE QueuesByRow'
  <2>1. UNCHANGED <<order, book, stops, stop_ids>>
    BY <1>3 DEF vars, history
  <2>2. \A a, b \in Ids : /\ Earlier(a, b)' <=> Earlier(a, b)
                          /\ Rowed(a)' <=> Rowed(a)
    BY <1>3 DEF Earlier, Rowed
  <2> QED BY <1>0, <2>1, <2>2, QueuesSame
<1>4. CASE AddSaved
  <2>1. PICK id \in Ids : id = saved /\ saved # NoId
    BY <1>4 DEF AddSaved, PersistInv, StoreType
  <2>2. /\ UNCHANGED <<row, rows>>
        /\ addOrder(IoThread, id, row[id]) \/ UNCHANGED vars
    BY <1>4, <2>1 DEF AddSaved, dbVars
  <2>3. \A j \in Ids : Made(j) /\ Rowed(j) => Earlier(j, id)
    BY <2>1, SavedLast
  <2> QED BY <1>0, <1>3, <2>2, <2>3, QueuesAdd
<1>5. CASE RestoreNext
  <2>1. PICK id \in Ids : id = Head(restoring) /\ id = restoring[1] /\ restoring \in Seq(Ids)
                          /\ restoring # <<>>
    BY <1>5, RestoredMatches
  <2>2. /\ UNCHANGED <<row, rows>>
        /\ addOrder(IoThread, id, FromRow(row[id])) \/ UNCHANGED vars
    BY <1>5, <2>1 DEF RestoreNext, dbVars
  <2>3. 1 \in 1 .. Len(restoring)
    BY <2>1
  <2>4. \A j \in Ids : Made(j) /\ Rowed(j) => Earlier(j, id)
    BY <2>1, <2>3 DEF LastAdded
  <2> QED BY <1>0, <1>3, <2>2, <2>4, FromRowFields, QueuesAdd
<1>6. CASE CancelRefused \/ start \/ loadAllActiveOrders \/ UNCHANGED pvars
  <2>1. UNCHANGED <<vars, row, rows>>
    BY <1>6 DEF CancelRefused, start, loadAllActiveOrders, pvars, dbVars
  <2> QED BY <1>3, <2>1
<1>7. ASSUME NEW t \in Threads, NEW id \in Ids, ClientCancel(id) \/ GeneratorCancel(t, id)
      PROVE  QueuesByRow'
  <2>1. PICK u \in Threads : CancelOrder(u, id)
    BY <1>0, <1>7 DEF ClientCancel, GeneratorCancel
  <2>2. UNCHANGED <<row, rows>>
    BY <1>7 DEF ClientCancel, GeneratorCancel, dbVars
  <2> QED BY <1>0, <2>1, <2>2, QueuesCancel
<1>8. ASSUME NEW t \in Threads, saveTrade(t) \/ ReadOrder(t) PROVE QueuesByRow'
  <2>1. UNCHANGED <<order, book, stops, stop_ids, row, rows>>
    BY <1>8 DEF saveTrade, NotifyTrade, ReadOrder, NotifyUpdate, NotifyIncoming, dbVars
  <2>2. \A a, b \in Ids : /\ Earlier(a, b)' <=> Earlier(a, b)
                          /\ Rowed(a)' <=> Rowed(a)
    BY <2>1 DEF Earlier, Rowed
  <2> QED BY <1>0, <2>1, <2>2, QueuesSame
<1>9. ASSUME NEW t \in Threads, updateOrder(t) PROVE QueuesByRow'
  <2>1. UNCHANGED <<order, book, stops, stop_ids, rows>>
    BY <1>9 DEF updateOrder, vars, history
  <2>2. PICK id \in Ids : Written(t, id)
    BY <1>9, UpdateEffect
  <2>3. \A a, b \in Ids : Earlier(a, b)' <=> Earlier(a, b)
    BY <2>1 DEF Earlier
  <2>4. \A a \in Ids : Rowed(a)' <=> Rowed(a)
    BY <2>1, <2>2 DEF Written, Made, Rowed
  <2> QED BY <1>0, <2>1, <2>3, <2>4, QueuesSame
<1>10. CASE Crash
  <2>1. \A s \in Sides : book'[s] = <<>> /\ stops'[s] = <<>>
    BY <1>10 DEF Crash, BookLost
  <2>2. \A a, b : ~Ahead(<<>>, a, b)
    BY DEF Ahead
  <2> QED BY <2>1, <2>2 DEF QueuesByRow, RowOrdered
<1> QED BY <1>0, <1>1, <1>2, <1>4, <1>5, <1>6, <1>7, <1>8, <1>9, <1>10, QueuesWork DEF PNext

----------------------------------------------------------------------------
(* A crash of an idle server, and the restart.                             *)

\* The order that a row brings back has the view of the row.
LEMMA OfferedView ==
  ASSUME PersistInv, RowInv, NEW id \in Ids, Offered(id)
  PROVE  /\ row[id] \in Orders /\ FromRow(row[id]) \in Orders
         /\ FromRow(row[id]).type = row[id].type /\ FromRow(row[id]).side = row[id].side
         /\ FromRow(row[id]).price = row[id].price /\ FromRow(row[id]).stop = row[id].stop
         /\ FromRow(row[id]).rem = row[id].rem
         /\ FromRow(row[id]).status = row[id].status
         /\ Open(FromRow(row[id]))
<1>1. row[id] \in Orders
  BY DEF PersistInv, StoreType
<1>2. PICK r \in Orders : r = row[id]
  BY <1>1
<1>3. /\ FromRow(r) \in Orders
      /\ FromRow(r).type = r.type /\ FromRow(r).side = r.side
      /\ FromRow(r).price = r.price /\ FromRow(r).stop = r.stop /\ FromRow(r).rem = r.rem
      /\ r.rem = r.qty => FromRow(r).status = "PENDING"
      /\ r.rem < r.qty /\ r.rem > 0 => FromRow(r).status = "PARTIAL"
  BY FromRowFields
<1>4. /\ r.status \in {"PENDING", "PARTIAL"} /\ r.rem > 0
      /\ r.status = "PENDING" => r.rem = r.qty
      /\ r.status = "PARTIAL" => r.rem < r.qty
  BY <1>2 DEF Offered, Active, RowInv, LikeRow, Rowed
<1>5. FromRow(r).status = r.status
  <2>1. CASE r.status = "PENDING"
    BY <1>3, <1>4, <2>1
  <2>2. CASE r.status = "PARTIAL"
    BY <1>3, <1>4, <2>2
  <2> QED BY <1>4, <2>1, <2>2
<1>6. Open(FromRow(r))
  BY <1>3, <1>4, <1>5 DEF Open
<1> QED BY <1>2, <1>3, <1>5, <1>6

\* With no call in progress each open order is in its queue.
LEMMA QuietPlaces ==
  ASSUME IInv, LiveIndexed, \A id \in Ids : ~InFlight(id)
  PROVE  PlacesRight(order, book, stops)
<1> SUFFICES ASSUME NEW id \in Ids, NEW s \in Sides, NEW p \in Prices
             PROVE  /\ At(book[s], p, id) <=> /\ Open(order[id]) /\ ~isStopOrder(order[id])
                                              /\ order[id].side = s /\ order[id].price = p
                    /\ At(stops[s], p, id) <=> /\ Open(order[id]) /\ isStopOrder(order[id])
                                               /\ order[id].side = s /\ order[id].stop = p
  BY DEF PlacesRight
<1>1. At(book[s], p, id) => /\ Open(order[id]) /\ ~isStopOrder(order[id])
                            /\ order[id].side = s /\ order[id].price = p
  BY DEF IInv, BookSound, isStopOrder
<1>2. At(stops[s], p, id) => /\ Open(order[id]) /\ isStopOrder(order[id])
                             /\ order[id].side = s /\ order[id].stop = p
  BY DEF IInv, StopsSound
<1>3. Open(order[id]) => Resting(id) \/ Stored(id)
  <2>1. Open(order[id]) => id \in orders_by_id
    BY DEF Open, LiveIndexed
  <2> QED BY <2>1 DEF IInv, IndexExact
<1>4. ASSUME Open(order[id]), ~isStopOrder(order[id]), order[id].side = s, order[id].price = p
      PROVE  At(book[s], p, id)
  <2>1. ~Stored(id)
    BY <1>4 DEF Stored, IInv, StopsSound
  <2>2. PICK x \in Sides, y \in Prices : At(book[x], y, id)
    BY <1>3, <1>4, <2>1 DEF Resting
  <2>3. x = s /\ y = p
    BY <1>4, <2>2 DEF IInv, BookSound
  <2> QED BY <2>2, <2>3
<1>5. ASSUME Open(order[id]), isStopOrder(order[id]), order[id].side = s, order[id].stop = p
      PROVE  At(stops[s], p, id)
  <2>1. ~Resting(id)
    BY <1>5 DEF Resting, IInv, BookSound, isStopOrder
  <2>2. PICK x \in Sides, y \in Prices : At(stops[x], y, id)
    BY <1>3, <1>5, <2>1 DEF Stored
  <2>3. x = s /\ y = p
    BY <1>5, <2>2 DEF IInv, StopsSound
  <2> QED BY <2>2, <2>3
<1> QED BY <1>1, <1>2, <1>4, <1>5

\* With no call in progress no write is due and nothing is being matched.
LEMMA QuietFree ==
  ASSUME BookInv, PersistInv, Quiet
  PROVE  \A id \in Ids : ~WriteDue(id) /\ ~InFlight(id)
<1>1. pc[IoThread] = "idle"
  BY MainThreadAssumption DEF Quiet
<1>2. \A id \in Ids : ~InFlight(id)
  BY <1>1, WritingFree
<1>3. \A t \in Threads : /\ incoming[t] = NoId /\ pending_order_updates[t] = <<>>
                         /\ write[t] = NoWrite
  BY DEF Quiet, BookInv, OwedInv, PersistInv, CallsRight
<1>4. \A id \in Ids : ~ReportDue(id)
  BY <1>3, IdsAssumption DEF ReportDue, InQueue
<1>5. \A id \in Ids : ~WriteDue(id)
  BY <1>3, <1>4, NoWriteFields DEF WriteDue
<1> QED BY <1>2, <1>5

\* The rows of an idle server are those of a book that is not crossed.
LEMMA QuietUncrossed ==
  ASSUME BookInv, PersistInv, RowInv, ActiveMade, Quiet, phase = "serving"
  PROVE  RowsUncrossed
<1>0. IInv /\ row \in [Ids -> Orders] /\ order \in [Ids -> Orders]
  BY DEF BookInv, IInv, TypeOK, PersistInv, StoreType
<1>1. PlacesRight(order, book, stops)
  BY <1>0, QuietFree, QuietPlaces DEF RowInv
<1>2. ASSUME NEW id \in Ids, Offered(id), ~isStopOrder(row[id])
      PROVE  /\ Open(order[id]) /\ order[id].type = row[id].type
             /\ order[id].side = row[id].side /\ order[id].price = row[id].price
  <2>1. restoring = <<>> /\ saved = NoId
    BY DEF ActiveMade, Quiet
  <2>2. Made(id)
    BY <1>2, <2>1, IdsAssumption DEF ActiveMade, InQueue
  <2>3. Rowed(id) /\ row[id].status \in {"PENDING", "PARTIAL"} /\ row[id].rem > 0
    BY <1>2 DEF Offered, Active, Rowed
  <2>4. View(row[id]) = View(order[id])
    <3>1. CASE Triggered(id)
      BY <1>2, <2>2, <2>3, <3>1, QuietFree DEF RowInv, StaleStops
    <3>2. CASE ~Triggered(id)
      BY <2>2, <2>3, <3>2, QuietFree DEF PersistInv, RowsCurrent, Rowed, Made
    <3> QED BY <3>1, <3>2
  <2>5. /\ order[id].type = row[id].type /\ order[id].rem = row[id].rem
        /\ order[id].status = row[id].status
    BY <2>4 DEF View
  <2>6. order[id].side = row[id].side /\ order[id].price = row[id].price
    BY <2>2, <2>3 DEF RowInv, LikeRow
  <2> QED BY <2>3, <2>5, <2>6 DEF Open
<1>3. ASSUME NEW id \in Ids, Offered(id), ~isStopOrder(row[id])
      PROVE  /\ row[id].type = "LIMIT" /\ row[id].side \in Sides
             /\ row[id].price \in DOMAIN book[row[id].side]
  <2>1. /\ Open(order[id]) /\ order[id].type = row[id].type
        /\ order[id].side = row[id].side /\ order[id].price = row[id].price
    BY <1>2, <1>3
  <2>2. row[id].side \in Sides /\ row[id].price \in Prices
    BY <1>0 DEF Orders
  <2>3. At(book[row[id].side], row[id].price, id)
    BY <1>1, <1>3, <2>1, <2>2 DEF PlacesRight, isStopOrder
  <2>4. order[id].type = "LIMIT"
    BY <1>0, <2>2, <2>3 DEF IInv, BookSound
  <2> QED BY <2>1, <2>2, <2>3, <2>4 DEF At
<1>4. \A id \in Ids : Offered(id) => row[id].type # "MARKET"
  BY <1>3 DEF isStopOrder
<1>5. ASSUME NEW a \in Ids, NEW b \in Ids,
             Offered(a), row[a].type = "LIMIT", row[a].side = "BUY",
             Offered(b), row[b].type = "LIMIT", row[b].side = "SELL"
      PROVE  row[a].price < row[b].price
  <2>1. row[a].price \in DOMAIN book["BUY"] /\ row[b].price \in DOMAIN book["SELL"]
    BY <1>3, <1>5 DEF isStopOrder
  <2> QED BY <1>0, <2>1 DEF IInv, Uncrossed
<1> QED BY <1>4, <1>5 DEF RowsUncrossed

\* What an idle server loses in a crash can be told from its rows.
LEMMA CrashRestart ==
  ASSUME BookInv, PersistInv, RowInv, ActiveMade, QueuesByRow, Crash, ~dirty'
  PROVE  (BookBefore /\ RowsUncrossed /\ AsRestored)'
<1>0. IInv
  BY DEF BookInv
<1>1. Quiet /\ phase = "serving"
  BY DEF Crash, ActiveMade
<1>2. /\ UNCHANGED <<row, rows>> /\ before' = BookNow /\ BookLost
  BY DEF Crash, dbVars
<1>3. \A a, b : (Earlier(a, b)' <=> Earlier(a, b)) /\ (Rowed(a)' <=> Rowed(a))
              /\ (Offered(a)' <=> Offered(a))
  BY <1>2 DEF Earlier, Rowed, Offered, Active
<1>4. RowsUncrossed'
  BY <1>1, <1>2, <1>3, QuietUncrossed DEF RowsUncrossed
<1>5. AsRestored'
  <2>1. /\ order' = [i \in Ids |-> NoOrder] /\ stop_ids' = {}
        /\ prices' = {} /\ triggered' = <<>> /\ pending_trades' = [t \in Threads |-> <<>>]
    BY <1>2 DEF BookLost
  <2> QED BY <2>1, NoOrderIsOrder DEF AsRestored, Made, Triggered
<1>6. BookBefore'
  <2>1. /\ before'.order = order /\ before'.book = book /\ before'.stops = stops
        /\ before'.triggered = TriggeredIds
    BY <1>2 DEF BookNow, TriggeredIds
  <2>2. PlacesRight(order, book, stops)
    BY <1>0, <1>1, QuietFree, QuietPlaces DEF RowInv
  <2>3. \A s \in Sides : /\ GoodMap(book[s]) /\ RowOrdered(book[s], TriggeredIds)
                         /\ GoodMap(stops[s]) /\ RowOrdered(stops[s], TriggeredIds)
    BY <1>0 DEF IInv, TypeOK, BookSound, StopsSound, GoodMap, QueuesByRow
  <2>4. ASSUME NEW id \in Ids, Rowed(id), Made(id), id \notin TriggeredIds
        PROVE  /\ View(row[id]) = View(order[id])
               /\ row[id].side = order[id].side /\ row[id].price = order[id].price
               /\ row[id].stop = order[id].stop
    <3>1. ~Triggered(id) /\ ~WriteDue(id)
      BY <1>1, <2>4, QuietFree DEF Triggered, TriggeredIds
    <3>2. View(row[id]) = View(order[id])
      BY <2>4, <3>1 DEF PersistInv, RowsCurrent, Rowed, Made
    <3> QED BY <2>4, <3>2 DEF RowInv, LikeRow
  <2>5. \A m, X : RowOrdered(m, X) => \A a, b \in Ids :
            Ahead(m, a, b) /\ Rowed(a)' /\ Rowed(b)' /\ a \notin X /\ b \notin X =>
                Earlier(a, b)'
    BY <1>3 DEF RowOrdered
  <2>6. PlacesRight(before.order, before.book, before.stops)'
    BY <2>1, <2>2 DEF PlacesRight
  <2>7. ASSUME NEW s \in Sides
        PROVE  /\ (GoodMap(before.book[s]) /\ RowOrdered(before.book[s], before.triggered))'
               /\ (GoodMap(before.stops[s]) /\ RowOrdered(before.stops[s], before.triggered))'
    <3>1. GoodMap(before.book[s])' /\ GoodMap(before.stops[s])'
      BY <2>1, <2>3
    <3>2. RowOrdered(before.book[s], before.triggered)'
      BY <2>1, <2>3, <2>5 DEF RowOrdered
    <3>3. RowOrdered(before.stops[s], before.triggered)'
      BY <2>1, <2>3, <2>5 DEF RowOrdered
    <3> QED BY <3>1, <3>2, <3>3
  <2>8. ASSUME NEW id \in (KnownBefore \ before.triggered)'
        PROVE  /\ View(row'[id]) = View(before'.order[id])
               /\ row'[id].side = before'.order[id].side
               /\ row'[id].price = before'.order[id].price
               /\ row'[id].stop = before'.order[id].stop
    <3>1. id \in Ids /\ Rowed(id) /\ Made(id) /\ id \notin TriggeredIds
      BY <1>2, <2>1 DEF KnownBefore, Rowed, Made
    <3> QED BY <1>2, <2>1, <2>4, <3>1
  <2> QED BY <2>6, <2>7, <2>8 DEF BookBefore
<1> QED BY <1>4, <1>5, <1>6

\* During the restart: the rows and the lost book stay as they are.
LEMMA RestartKept ==
  ASSUME RestartInv, UNCHANGED <<row, rows, before, dirty>>,
         phase' \in {"down", "restoring"} => phase \in {"down", "restoring"},
         ~dirty /\ BookBefore /\ RowsUncrossed /\ AsRestored => AsRestored'
  PROVE  RestartInv'
<1> SUFFICES ASSUME ~dirty', phase' \in {"down", "restoring"}
             PROVE  (BookBefore /\ RowsUncrossed /\ AsRestored)'
  BY DEF RestartInv
<1>1. ~dirty /\ BookBefore /\ RowsUncrossed /\ AsRestored
  BY DEF RestartInv
<1>2. BookBefore'
  BY <1>1 DEF BookBefore, PlacesRight, GoodMap, RowOrdered, Rowed, Earlier, KnownBefore
<1>3. RowsUncrossed'
  BY <1>1 DEF RowsUncrossed, Offered, Active
<1> QED BY <1>1, <1>2, <1>3

\* The same orders, with nothing to scan.
LEMMA RestoredSame ==
  ASSUME AsRestored, UNCHANGED <<order, row, stop_ids, triggered, pending_trades>>,
         prices' = {}
  PROVE  AsRestored'
  BY DEF AsRestored, Made, Offered, Active, Triggered

\* While orders are restored nothing trades: their rows are uncrossed.
LEMMA NoMatchRestoring ==
  ASSUME BookInv, PersistInv, RowInv, RowsUncrossed, AsRestored, NEW t \in Threads
  PROVE  ~Match(t)
<1> SUFFICES ASSUME Match(t) PROVE FALSE
  OBVIOUS
<1>0. IInv
  BY DEF BookInv
<1>1. PICK taker \in Ids, maker \in Ids, other \in Sides, level \in Prices, q \in Nat :
          Traded(t, taker, maker, other, level, q)
  BY <1>0, MatchEffect
<1>2. /\ taker = Head(todo) /\ other = Opposite(order[taker].side)
      /\ level = BestPrice(other)
      /\ order[taker] \in Orders /\ Open(order[taker])
      /\ order[maker] \in Orders /\ Open(order[maker])
      /\ order[taker].type \in {"LIMIT", "MARKET"}
      /\ order[maker].price = level /\ order[maker].side = other
      /\ At(book[other], level, maker)
  BY <1>1 DEF Traded, Paired
<1>3. order[maker].type = "LIMIT"
  BY <1>0, <1>2 DEF IInv, BookSound
<1>4. ASSUME NEW id \in Ids, Open(order[id])
      PROVE  /\ Offered(id) /\ row[id].type = order[id].type
             /\ row[id].side = order[id].side /\ row[id].price = order[id].price
  <2>1. Offered(id) /\ order[id] = FromRow(row[id])
    BY <1>4 DEF AsRestored, Made, Open
  <2> QED BY <2>1, OfferedView
<1>5. row[taker].type = "LIMIT" /\ order[taker].type = "LIMIT"
  BY <1>2, <1>4 DEF RowsUncrossed
<1>6. \/ order[taker].side = "BUY" /\ order[taker].price >= order[maker].price
      \/ order[taker].side = "SELL" /\ order[taker].price <= order[maker].price
  BY <1>2, <1>5 DEF Match, Matchable
<1>7. /\ row[taker].price \in Nat /\ row[maker].price \in Nat
  BY PricesAssumption DEF PersistInv, StoreType, Orders
<1>8. CASE order[taker].side = "BUY"
  <2>1. order[maker].side = "SELL"
    BY <1>2, <1>8 DEF Opposite
  <2>2. row[taker].price < row[maker].price
    BY <1>2, <1>3, <1>4, <1>5, <1>8, <2>1 DEF RowsUncrossed
  <2> QED BY <1>2, <1>4, <1>6, <1>7, <1>8, <2>2
<1>9. CASE order[taker].side = "SELL"
  <2>1. order[maker].side = "BUY"
    BY <1>2, <1>9 DEF Opposite
  <2>2. row[maker].price < row[taker].price
    BY <1>2, <1>3, <1>4, <1>5, <1>9, <2>1 DEF RowsUncrossed
  <2> QED BY <1>2, <1>4, <1>6, <1>7, <1>9, <2>2
<1> QED BY <1>6, <1>8, <1>9

LEMMA WorkRestoring ==
  ASSUME BookInv, PersistInv, RowInv, RowsUncrossed, AsRestored, NEW t \in Threads, Work(t)
  PROVE  AsRestored'
<1>0. IInv /\ UNCHANGED row
  BY DEF BookInv, Work, dbVars
<1>1. prices = {} /\ triggered = <<>> /\ pending_trades[t] = <<>>
  BY DEF AsRestored
<1>2. CASE Settle(t)
  <2>1. PICK h \in Ids : h = Head(todo)
    BY <1>0, <1>2, TodoHead DEF Settle
  <2>2. Made(h)
    BY <1>0, <1>2, <2>1, TodoHead DEF Settle, Open, Made
  <2>3. order[h].type # "MARKET"
    BY <2>2, OfferedView DEF AsRestored, RowsUncrossed
  <2>4. UNCHANGED <<order, stop_ids, triggered, prices, pending_trades>>
    BY <1>2, <2>1, <2>3 DEF Settle, callVars
  <2> QED BY <1>0, <1>1, <2>4, RestoredSame
<1>3. CASE EndRound(t)
  <2>1. mark \in Nat /\ Len(pending_trades[t]) = 0
    BY <1>0, <1>1 DEF IInv, TypeOK
  <2>2. mark + 1 .. Len(pending_trades[t]) = {}
    BY <2>1
  <2>3. prices' = {}
    BY <1>3, <2>2 DEF EndRound
  <2>4. UNCHANGED <<order, stop_ids, triggered, pending_trades>>
    BY <1>3 DEF EndRound, callVars, history
  <2> QED BY <1>0, <2>3, <2>4, RestoredSame
<1>4. CASE Unlock(t)
  <2>1. UNCHANGED <<order, stop_ids, triggered, prices, pending_trades>>
    BY <1>4 DEF Unlock, callVars, history
  <2> QED BY <1>0, <1>1, <2>1, RestoredSame
<1>5. ~(TriggerBuy(t) \/ TriggerSell(t) \/ NextPrice(t) \/ NextRound(t))
  BY <1>1 DEF TriggerBuy, TriggerSell, NextPrice, NextRound
<1> QED BY <1>2, <1>3, <1>4, <1>5, NoMatchRestoring DEF Work

\* What is written while orders are restored is what the rows already say.
LEMMA UpdateRestoring ==
  ASSUME BookInv, PersistInv, RowInv, AsRestored, NEW t \in Threads, updateOrder(t)
  PROVE  UNCHANGED row
<1>1. PICK id \in Ids : Written(t, id)
  BY UpdateEffect
<1>2. /\ Made(id) /\ row' \in [Ids -> Orders] /\ row \in [Ids -> Orders]
      /\ \A j \in Ids \ {id} : row'[j] = row[j]
      /\ ~Rowed(id) => row' = row
      /\ Rowed(id) => /\ row'[id].type = order[id].type
                      /\ row'[id].rem = order[id].rem
                      /\ row'[id].status = order[id].status
                      /\ row'[id].qty = row[id].qty
                      /\ row'[id].side = row[id].side
                      /\ row'[id].price = row[id].price
                      /\ row'[id].stop = row[id].stop
  BY <1>1 DEF Written, PersistInv, StoreType
<1>3. Offered(id) /\ order[id] = FromRow(row[id])
  BY <1>2 DEF AsRestored
<1>4. CASE Rowed(id)
  <2>1. /\ row'[id].type = row[id].type /\ row'[id].rem = row[id].rem
        /\ row'[id].status = row[id].status
    BY <1>2, <1>3, <1>4, OfferedView
  <2>2. row'[id] \in Orders /\ row[id] \in Orders
    BY <1>2
  <2>3. row'[id] = row[id]
    BY <1>2, <1>4, <2>1, <2>2 DEF Orders
  <2> QED BY <1>2, <2>3
<1> QED BY <1>2, <1>4

LEMMA AddRestoring ==
  ASSUME BookInv, PersistInv, RowInv, AsRestored, RestoreNext
  PROVE  AsRestored'
<1>0. IInv /\ IoThread \in Threads
  BY MainThreadAssumption DEF BookInv
<1>1. PICK id \in Ids : id = Head(restoring) /\ (~Made(id) => Active(id)) /\ row[id] \in Orders
  BY RestoredMatches
<1>2. /\ UNCHANGED row
      /\ addOrder(IoThread, id, FromRow(row[id])) \/ UNCHANGED vars
  BY <1>1 DEF RestoreNext, dbVars
<1>3. CASE UNCHANGED vars
  <2>1. UNCHANGED <<order, stop_ids, triggered, prices, pending_trades>>
    BY <1>3 DEF vars, lockVars, callVars, history
  <2> QED BY <1>2, <2>1, RestoredSame DEF AsRestored
<1>4. CASE addOrder(IoThread, id, FromRow(row[id]))
  <2>1. /\ ~Made(id) /\ order'[id] = FromRow(row[id]) /\ FromRow(row[id]).rem > 0
        /\ \A j \in Ids \ {id} : order'[j] = order[j]
        /\ \A j \in Ids \ {id} : j \in stop_ids' <=> j \in stop_ids
        /\ UNCHANGED pending_trades
    BY <1>0, <1>4, AddEffect DEF Made
  <2>2. Offered(id)
    BY <1>1, <2>1, FromRowFields DEF Offered
  <2>3. UNCHANGED <<prices, triggered>>
    BY <1>4 DEF addOrder, AddStop, AddPlain, lockVars
  <2>4. ~Triggered(id)'
    <3>1. id \notin stop_ids
      <4>1. ~Triggered(id)
        BY DEF AsRestored
      <4>2. ~isStopOrder(order[id])
        BY <2>1 DEF BookInv, ScanInv, BlankPlain, Made
      <4> QED BY <4>1, <4>2 DEF Triggered
    <3>2. id \in stop_ids' => isStopOrder(FromRow(row[id]))
      BY <1>4, <3>1 DEF addOrder, AddStop, AddPlain, history
    <3> QED BY <2>1, <3>2 DEF Triggered
  <2>5. \A j \in Ids : Offered(j)' <=> Offered(j)
    BY <1>2 DEF Offered, Active
  <2>6. ASSUME NEW j \in Ids
        PROVE  ~Triggered(j)' /\ (Made(j)' => Offered(j)' /\ order'[j] = FromRow(row'[j]))
    <3>1. CASE j = id
      BY <1>2, <2>1, <2>2, <2>4, <2>5, <3>1
    <3>2. CASE j # id
      <4>1. ~Triggered(j) /\ (Made(j) => Offered(j) /\ order[j] = FromRow(row[j]))
        BY DEF AsRestored
      <4>2. (Triggered(j)' <=> Triggered(j)) /\ (Made(j)' <=> Made(j))
        BY <2>1, <3>2 DEF Triggered, Made
      <4> QED BY <1>2, <2>1, <2>5, <3>2, <4>1, <4>2
    <3> QED BY <3>1, <3>2
  <2> QED BY <2>1, <2>3, <2>6 DEF AsRestored
<1> QED BY <1>2, <1>3, <1>4

LEMMA RestartNext ==
  BookInv /\ PersistInv /\ RowInv /\ ActiveMade /\ QueuesByRow /\ RestartInv /\ [PNext]_pvars
      => RestartInv'
<1> SUFFICES ASSUME BookInv, PersistInv, RowInv, ActiveMade, QueuesByRow, RestartInv,
                    [PNext]_pvars
             PROVE  RestartInv'
  OBVIOUS
<1>0. IoThread \in Threads
  BY MainThreadAssumption
<1>1. CASE AddSaved \/ CancelRefused \/ start
  <2>1. phase' = "serving"
    BY <1>1 DEF AddSaved, CancelRefused, start, IoFree, runVars, pvars, PersistInv, SavedNew
  <2> QED BY <2>1 DEF RestartInv
<1>2. ASSUME NEW id \in Ids, ClientCancel(id) PROVE RestartInv'
  <2>1. phase' = "serving"
    BY <1>2 DEF ClientCancel, IoFree, runVars
  <2> QED BY <2>1 DEF RestartInv
<1>3. ASSUME NEW t \in Threads, NEW id \in Ids, GeneratorCancel(t, id) PROVE RestartInv'
  <2>1. phase' = "serving"
    BY <1>3 DEF GeneratorCancel, runVars
  <2> QED BY <2>1 DEF RestartInv
<1>4. CASE UNCHANGED pvars \/ loadAllActiveOrders
  <2>1. /\ UNCHANGED <<row, rows, before, dirty>>
        /\ UNCHANGED <<order, stop_ids, triggered, prices, pending_trades>>
        /\ phase' \in {"down", "restoring"} => phase \in {"down", "restoring"}
    BY <1>4 DEF pvars, loadAllActiveOrders, vars, lockVars, callVars, history, dbVars, runVars
  <2> QED BY <2>1, RestoredSame, RestartKept DEF AsRestored
<1>5. ASSUME NEW t \in Threads, Work(t) PROVE RestartInv'
  <2>1. UNCHANGED <<row, rows, before, dirty, phase>>
    BY <1>5 DEF Work, dbVars, runVars
  <2> QED BY <1>5, <2>1, WorkRestoring, RestartKept
<1>6. ASSUME NEW t \in Threads, saveTrade(t) PROVE RestartInv'
  <2>1. UNCHANGED <<row, rows, before, dirty, phase>> /\ pending_trades[t] # <<>>
    BY <1>6 DEF saveTrade, NotifyTrade, runVars
  <2> QED BY <2>1, RestartKept DEF AsRestored
<1>7. ASSUME NEW t \in Threads, ReadOrder(t) PROVE RestartInv'
  <2>1. UNCHANGED <<row, rows, before, dirty, phase>>
    BY <1>7 DEF ReadOrder, dbVars
  <2>2. UNCHANGED <<order, stop_ids, triggered, prices, pending_trades>>
    BY <1>7 DEF ReadOrder, NotifyUpdate, NotifyIncoming, lockVars
  <2> QED BY <2>1, <2>2, RestoredSame, RestartKept DEF AsRestored
<1>8. ASSUME NEW t \in Threads, updateOrder(t) PROVE RestartInv'
  <2>1. /\ UNCHANGED <<rows, before, dirty, phase>>
        /\ UNCHANGED <<order, stop_ids, triggered, prices, pending_trades>>
    BY <1>8 DEF updateOrder, vars, lockVars, callVars, history
  <2>2. CASE ~dirty /\ phase \in {"down", "restoring"}
    <3>1. AsRestored
      BY <2>2 DEF RestartInv
    <3>2. UNCHANGED row
      BY <1>8, <3>1, UpdateRestoring
    <3> QED BY <2>1, <3>1, <3>2, RestoredSame, RestartKept DEF AsRestored
  <2> QED BY <2>1, <2>2 DEF RestartInv
<1>9. CASE Crash
  BY <1>9, CrashRestart DEF RestartInv
<1>10. CASE RestoreNext
  <2>1. UNCHANGED <<row, rows, before, dirty, phase>>
    BY <1>10 DEF RestoreNext, dbVars
  <2> QED BY <1>10, <2>1, AddRestoring, RestartKept
<1>11. ASSUME NEW id \in Ids, NEW in \in Inputs, saveOrder(id, in) \/ AddGenerated(id, in)
       PROVE  RestartInv'
  <2>1. phase' = "serving"
    BY <1>11 DEF saveOrder, AddGenerated, IoFree, runVars
  <2> QED BY <2>1 DEF RestartInv
<1> QED BY <1>0, <1>1, <1>2, <1>3, <1>4, <1>5, <1>6, <1>7, <1>8, <1>9, <1>10, <1>11
        DEF PNext

----------------------------------------------------------------------------
(* The restored book and the lost one.                                     *)

\* The table has one row of each order: of two rows only one is the earlier.
LEMMA EarlierOneWay ==
  ASSUME RowsListed, rows \in Seq(Ids), NEW a, NEW b, Earlier(a, b)
  PROVE  ~Earlier(b, a)
<1> SUFFICES ASSUME Earlier(b, a) PROVE FALSE
  OBVIOUS
<1>1. PICK x \in 1 .. Len(rows), y \in 1 .. Len(rows) : x < y /\ rows[x] = a /\ rows[y] = b
  BY DEF Earlier
<1>2. PICK v \in 1 .. Len(rows), w \in 1 .. Len(rows) : v < w /\ rows[v] = b /\ rows[w] = a
  BY DEF Earlier
<1>3. x = w /\ y = v
  BY <1>1, <1>2 DEF RowsListed, NoRepeat
<1> QED BY <1>1, <1>2, <1>3

\* Two maps in the order of the rows agree about who is first.
LEMMA PlaceByRow ==
  ASSUME RowsListed, rows \in Seq(Ids), NEW m, NEW old, NEW X, NEW S, NEW id \in S,
         GoodMap(m), GoodMap(old), RowOrdered(m, TriggeredIds), RowOrdered(old, X),
         \A z \in S : z \in Ids /\ Rowed(z) /\ z \notin X /\ z \notin TriggeredIds,
         \A p \in Prices : At(m, p, id) <=> At(old, p, id)
  PROVE  SamePlace(m, old, S, id)
<1> SUFFICES ASSUME NEW p \in Prices, At(m, p, id),
                    NEW i \in 1 .. Len(m[p]), NEW j \in 1 .. Len(m[p]),
                    NEW k \in 1 .. Len(old[p]), NEW l \in 1 .. Len(old[p]),
                    m[p][i] = id, old[p][k] = id, m[p][j] = old[p][l], old[p][l] \in S
             PROVE  i < j <=> k < l
  BY DEF SamePlace
<1>1. /\ p \in DOMAIN m /\ p \in DOMAIN old /\ NoRepeat(m[p]) /\ NoRepeat(old[p])
      /\ m[p] \in Seq(Ids) /\ old[p] \in Seq(Ids)
  BY DEF At, GoodMap, IsLevelMap, WellFormed
<1>2. PICK z \in S : z = m[p][j] /\ z = old[p][l]
  OBVIOUS
<1>3. /\ id \in Ids /\ Rowed(id) /\ id \notin X /\ id \notin TriggeredIds
      /\ z \in Ids /\ Rowed(z) /\ z \notin X /\ z \notin TriggeredIds
  OBVIOUS
<1>4. /\ i < j => Earlier(id, z)
      /\ j < i => Earlier(z, id)
  <2>1. i < j => Ahead(m, id, z)
    BY <1>1, <1>2 DEF Ahead
  <2>2. j < i => Ahead(m, z, id)
    BY <1>1, <1>2 DEF Ahead
  <2> QED BY <1>3, <2>1, <2>2 DEF RowOrdered
<1>5. /\ k < l => Earlier(id, z)
      /\ l < k => Earlier(z, id)
  <2>1. k < l => Ahead(old, id, z)
    BY <1>1, <1>2 DEF Ahead
  <2>2. l < k => Ahead(old, z, id)
    BY <1>1, <1>2 DEF Ahead
  <2> QED BY <1>3, <2>1, <2>2 DEF RowOrdered
<1>6. Earlier(id, z) => ~Earlier(z, id)
  BY EarlierOneWay
<1>7. i = j <=> k = l
  BY <1>1, <1>2 DEF NoRepeat
<1>8. (i < j \/ j < i \/ i = j) /\ (k < l \/ l < k \/ k = l)
  BY <1>1
<1>9. ~(i < j /\ i = j) /\ ~(k < l /\ k = l)
  BY <1>1
<1> QED BY <1>4, <1>5, <1>6, <1>7, <1>8, <1>9

\* When the last order is back the book is what it was.
LEMMA StartRestores ==
  ASSUME BookInv, PersistInv, RowInv, ActiveMade, QueuesByRow, RestartInv, start, ~dirty
  PROVE  Restored(KnownBefore \ before.triggered)
<1> DEFINE S == KnownBefore \ before.triggered
<1>0. IInv
  BY DEF BookInv
<1>1. /\ phase = "restoring" /\ restoring = <<>> /\ Quiet /\ saved = NoId
  BY DEF start, Quiet
<1>2. BookBefore /\ AsRestored
  BY <1>1 DEF RestartInv
<1>3. PlacesRight(order, book, stops)
  BY <1>0, <1>1, QuietFree, QuietPlaces DEF RowInv
<1>4. \A s \in Sides : /\ GoodMap(book[s]) /\ RowOrdered(book[s], TriggeredIds)
                       /\ GoodMap(stops[s]) /\ RowOrdered(stops[s], TriggeredIds)
  BY <1>0 DEF IInv, TypeOK, BookSound, StopsSound, GoodMap, QueuesByRow
<1>5. /\ PlacesRight(before.order, before.book, before.stops)
      /\ \A s \in Sides :
             /\ GoodMap(before.book[s]) /\ RowOrdered(before.book[s], before.triggered)
             /\ GoodMap(before.stops[s]) /\ RowOrdered(before.stops[s], before.triggered)
  BY <1>2 DEF BookBefore
<1>6. \A z \in S : z \in Ids /\ Rowed(z) /\ z \notin before.triggered /\ z \notin TriggeredIds
  BY <1>2 DEF KnownBefore, Rowed, AsRestored, Triggered, TriggeredIds
<1>7. rows \in Seq(Ids) /\ RowsListed
  BY DEF PersistInv, StoreType, RowInv
<1>8. ASSUME NEW id \in S
      PROVE  /\ Open(before.order[id]) <=> Open(order[id])
             /\ Open(order[id]) =>
                    /\ order[id].rem = before.order[id].rem
                    /\ order[id].status = before.order[id].status
                    /\ order[id].type = before.order[id].type
                    /\ order[id].side = before.order[id].side
                    /\ order[id].price = before.order[id].price
                    /\ order[id].stop = before.order[id].stop
  <2>1. id \in Ids
    BY <1>6
  <2>2. /\ View(row[id]) = View(before.order[id])
        /\ row[id].side = before.order[id].side
        /\ row[id].price = before.order[id].price
        /\ row[id].stop = before.order[id].stop
    BY <1>2 DEF BookBefore
  <2>3. /\ row[id].type = before.order[id].type /\ row[id].rem = before.order[id].rem
        /\ row[id].status = before.order[id].status
    BY <2>2 DEF View
  <2>4. Offered(id) => Made(id)
    BY <1>1, <2>1, IdsAssumption DEF ActiveMade, InQueue
  <2>5. Made(id) => Offered(id) /\ order[id] = FromRow(row[id])
    BY <1>2, <2>1 DEF AsRestored
  <2>6. Open(before.order[id]) <=> Offered(id)
    BY <2>3 DEF Open, Offered, Active
  <2>7. Open(order[id]) => Made(id)
    BY DEF Open, Made
  <2>8. Offered(id) => /\ Open(order[id]) /\ order[id].type = row[id].type
                       /\ order[id].rem = row[id].rem /\ order[id].status = row[id].status
                       /\ order[id].side = row[id].side /\ order[id].price = row[id].price
                       /\ order[id].stop = row[id].stop
    BY <2>1, <2>4, <2>5, OfferedView
  <2>9. Open(order[id]) <=> Offered(id)
    BY <2>5, <2>7, <2>8
  <2> QED BY <2>2, <2>3, <2>6, <2>8, <2>9
<1>9. ASSUME NEW id \in S, NEW s \in Sides
      PROVE  /\ SamePlace(book[s], before.book[s], S, id)
             /\ SamePlace(stops[s], before.stops[s], S, id)
  <2>1. id \in Ids
    BY <1>6
  <2>2. Open(order[id]) => (isStopOrder(order[id]) <=> isStopOrder(before.order[id]))
    BY <1>8 DEF isStopOrder
  <2>3. \A p \in Prices : At(book[s], p, id) <=> At(before.book[s], p, id)
    BY <1>3, <1>5, <1>8, <2>1, <2>2 DEF PlacesRight
  <2>4. \A p \in Prices : At(stops[s], p, id) <=> At(before.stops[s], p, id)
    BY <1>3, <1>5, <1>8, <2>1, <2>2 DEF PlacesRight
  <2> HIDE DEF S
  <2>5. SamePlace(book[s], before.book[s], S, id)
    BY <1>4, <1>5, <1>6, <1>7, <2>3, PlaceByRow
  <2>6. SamePlace(stops[s], before.stops[s], S, id)
    BY <1>4, <1>5, <1>6, <1>7, <2>4, PlaceByRow
  <2> QED BY <2>5, <2>6
<1> QED BY <1>8, <1>9 DEF Restored

LEMMA FaithfulInit ==
  PInit => RowInv /\ ActiveMade /\ LastAdded /\ QueuesByRow /\ RestartInv
<1> SUFFICES ASSUME PInit
             PROVE  RowInv /\ ActiveMade /\ LastAdded /\ QueuesByRow /\ RestartInv
  OBVIOUS
<1>1. /\ order = [i \in Ids |-> NoOrder] /\ row = [i \in Ids |-> NoOrder] /\ rows = <<>>
      /\ saved = NoId /\ restoring = <<>> /\ phase = "serving"
      /\ pc = [t \in Threads |-> "idle"]
      /\ \A s \in Sides : book[s] = <<>> /\ stops[s] = <<>>
  BY DEF PInit, Init
<1>2. \A id \in Ids : ~Made(id) /\ ~Rowed(id)
  BY <1>1, NoOrderIsOrder DEF Made, Rowed
<1>3. LiveIndexed
  BY <1>1, NoOrderIsOrder DEF LiveIndexed
<1>4. RowsListed
  BY <1>1, <1>2 DEF RowsListed, NoRepeat, InQueue
<1>5. LikeRow /\ StaleStops
  BY <1>2 DEF LikeRow, StaleStops
<1>6. ActiveMade
  BY <1>1, <1>2 DEF ActiveMade, Offered, Active, Rowed
<1>7. LastAdded
  BY <1>1, MainThreadAssumption DEF LastAdded
<1>8. QueuesByRow
  <2>1. \A a, b : ~Ahead(<<>>, a, b)
    BY DEF Ahead
  <2> QED BY <1>1, <2>1 DEF QueuesByRow, RowOrdered
<1>9. RestartInv
  BY <1>1 DEF RestartInv
<1> QED BY <1>3, <1>4, <1>5, <1>6, <1>7, <1>8, <1>9 DEF RowInv

(***************************************************************************)
(* A restart of a server that was idle when it went down is faithful       *)
(* (initPersistence, loadAllActiveOrders): each client's order that was    *)
(* not a triggered stop is back at its price, with its quantity and its    *)
(* status, and in the same order of time priority.                         *)
(***************************************************************************)
THEOREM RestartIsFaithful == PSpec => RestartFaithful
<1> DEFINE FInv == RowInv /\ ActiveMade /\ LastAdded /\ QueuesByRow /\ RestartInv
<1>1. PInit => FInv
  BY FaithfulInit
<1>2. BookInv /\ PersistInv /\ FInv /\ [PNext]_pvars => FInv'
  BY RowsNext, MadeNext, LastNext, QueuesNext, RestartNext
<1>3. BookInv /\ PersistInv /\ FInv /\ [PNext]_pvars =>
          [phase = "restoring" /\ phase' = "serving" /\ ~dirty =>
               Restored(KnownBefore \ before.triggered)]_pvars
  <2> SUFFICES ASSUME BookInv, PersistInv, FInv, [PNext]_pvars,
                      phase = "restoring", phase' = "serving", ~dirty
               PROVE  Restored(KnownBefore \ before.triggered)
    OBVIOUS
  <2>1. start
    <3>1. phase' # phase
      OBVIOUS
    <3>2. ~UNCHANGED phase
      BY <3>1
    <3>3. saved = NoId
      BY DEF PersistInv, SavedNew
    <3> QED BY <3>1, <3>3 DEF PNext, saveOrder, AddGenerated, AddSaved, CancelRefused,
               ClientCancel, GeneratorCancel, Work, saveTrade, ReadOrder, updateOrder, Crash,
               loadAllActiveOrders, RestoreNext, IoFree, runVars, pvars
  <2> QED BY <2>1, StartRestores
<1> QED BY <1>1, <1>2, <1>3, StoreAlways, PTL DEF PSpec, RestartFaithful
=============================================================================
