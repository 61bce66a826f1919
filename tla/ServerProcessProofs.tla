------------------------ MODULE ServerProcessProofs ------------------------
(***************************************************************************)
(* The server process, for any orders, inputs, clients and depth of the    *)
(* snapshots: inside it the book is the book of OrderBook, the generator's *)
(* orders are accounted for, snapshots are not crossed and a shutdown from *)
(* within run() leaves nothing half done.                                  *)
(*                                                                         *)
(* What has to be known besides (ProcInv): the generator's thread only     *)
(* cancels, so between the two reads of a snapshot asks can only disappear *)
(* (ReadsSafe); its orders are limit orders, which the book never cancels  *)
(* by itself, so only its own cancels count (LimitsOnly); and how far the  *)
(* signal handler is tells how far the generator is (ShutdownOrder).       *)
(***************************************************************************)
EXTENDS ServerProcess, OrderBookProofs

ProcType ==
    /\ generated \subseteq Ids /\ IsFiniteSet(generated)
    /\ tracked \in Seq(generated)
    /\ gpc \in {"lookup", "cancel", "counting"} => victim \in generated
    /\ posted \in Seq([id : generated, in : GeneratorInputs])
    /\ cancel_count \in Nat
    /\ running \in BOOLEAN /\ early \in BOOLEAN

\* No order is posted twice.
PostedOnce ==
    \A i, j \in 1 .. Len(posted) : posted[i].id = posted[j].id => i = j

\* A generated order is posted exactly until it is added.
PostedUntilAdded ==
    \A id \in generated :
        (\E i \in 1 .. Len(posted) : posted[i].id = id) <=> order[id].status = "NONE"

LimitsOnly ==
    \A id \in generated : order[id].status # "NONE" => order[id].type = "LIMIT"

CanceledByUs == {id \in generated : order[id].status = "CANCELED"}

CancelsCounted ==
    Cardinality(CanceledByUs) = cancel_count + (IF gpc = "counting" THEN 1 ELSE 0)

\* The generator's thread is in a call exactly while it is counting, and that
\* call is a cancel.
GeneratorCalls ==
    /\ pc[GenThread] = IF gpc = "counting" THEN "notify" ELSE "idle"
    /\ pending_trades[GenThread] = <<>>
    /\ \A t \in Threads : t = GenThread \/ pc[t] = "idle" =>
           pending_order_updates[t] = <<>>

\* While a snapshot is read the io thread is in no call, and the bids that were
\* read are below every ask.
ReadsSafe ==
    /\ reading # "no" => pc[IoThread] = "idle"
    /\ reading \in {"timer", "request"} =>
           \A i \in DOMAIN bids, a \in DOMAIN book["SELL"] : bids[i].price < a

\* The generator starts with run(); a signal from within run() finds it running
\* and ends after it.
ShutdownOrder ==
    /\ phase \in {"starting", "accepting"} => gpc = "off"
    /\ phase = "running" /\ sig \in {"none", "stop", "generator"} => running
    /\ ~early /\ sig # "none" => phase \in {"running", "exited"}
    /\ ~early /\ sig \in {"sleep", "returned"} => gpc = "done"
    /\ phase = "exited" => sig = "returned"
    /\ phase = "exited" /\ ~early => pc[IoThread] = "idle" /\ reading = "no"

\* The generator's orders, wherever they are.
Accounts ==
    /\ ProcType
    /\ PostedOnce
    /\ PostedUntilAdded
    /\ LimitsOnly
    /\ CancelsCounted
    /\ GeneratorCalls

ProcInv == Accounts /\ ReadsSafe /\ SnapshotUncrossed /\ ShutdownOrder

----------------------------------------------------------------------------
(* The prices of a snapshot.                                               *)

\* Every rank up to the number of prices has a price, counted from above ...
LEMMA RankFromAbove ==
  ASSUME NEW S \in SUBSET Prices, NEW k \in 1 .. Cardinality(S)
  PROVE  \E p \in S : Cardinality({x \in S : x > p}) = k - 1
<1> DEFINE Above(p) == {x \in S : x > p}
           T == {p \in S : Cardinality(Above(p)) <= k - 1}
<1>1. /\ IsFiniteSet(S) /\ S \subseteq Nat
      /\ \A p : IsFiniteSet(Above(p))
  BY PricesAssumption, FS_Subset
<1>2. Cardinality(S) \in Nat /\ \A p : Cardinality(Above(p)) \in Nat
  BY <1>1, FS_CardinalityType
<1>3. S # {}
  <2> SUFFICES ASSUME S = {} PROVE FALSE
    OBVIOUS
  <2> QED BY FS_EmptySet
<1>4. T # {}
  <2>1. PICK h \in S : \A x \in S : x <= h
    BY <1>3, HighestExists
  <2>2. Above(h) = {}
    <3>1. ASSUME NEW x \in S PROVE ~(x > h)
      <4>1. x \in Nat /\ h \in Nat
        BY <1>1
      <4> QED BY <2>1, <4>1
    <3> QED BY <3>1
  <2>3. Cardinality(Above(h)) = 0
    BY <2>2, FS_EmptySet
  <2> QED BY <2>3
<1>5. PICK p \in T : \A x \in T : p <= x
  <2>1. T \in SUBSET Prices
    OBVIOUS
  <2> HIDE DEF T
  <2> QED BY <1>4, <2>1, LowestExists
<1>6. p \in S /\ p \notin Above(p) /\ Cardinality(Above(p)) <= k - 1
  BY <1>1
<1>7. ASSUME Cardinality(Above(p)) < k - 1 PROVE FALSE
  <2> DEFINE L == {x \in S : x < p}
             A == Above(p) \cup {p}
  <2>1. Cardinality(A) = Cardinality(Above(p)) + 1
    <3> HIDE DEF Above
    <3> QED BY <1>1, <1>6, FS_AddElement
  <2>2. CASE L = {}
    <3>1. A = S
      <4>1. ASSUME NEW x \in S PROVE x > p \/ x = p
        <5>1. x \in Nat /\ p \in Nat /\ ~(x < p)
          BY <1>1, <1>6, <2>2
        <5> QED BY <5>1
      <4> QED BY <1>6, <4>1
    <3>2. Cardinality(S) = Cardinality(Above(p)) + 1
      BY <2>1, <3>1
    <3> HIDE DEF Above, A
    <3> QED BY <3>2, <1>2, <1>7
  <2>3. CASE L # {}
    <3>1. PICK y \in L : \A x \in L : x <= y
      <4>1. L \in SUBSET Prices
        OBVIOUS
      <4> HIDE DEF L
      <4> QED BY <2>3, <4>1, HighestExists
    <3>2. y \in S /\ y < p
      BY <3>1
    <3>3. Above(y) = A
      <4>1. ASSUME NEW x \in S PROVE x > y <=> x > p \/ x = p
        <5>1. x \in Nat /\ y \in Nat /\ p \in Nat
          BY <1>1, <1>6, <3>2
        <5>2. x < p => x <= y
          BY <3>1
        <5> QED BY <3>2, <5>1, <5>2
      <4> QED BY <1>6, <4>1
    <3>4. Cardinality(Above(y)) = Cardinality(Above(p)) + 1
      BY <2>1, <3>3
    <3>5. Cardinality(Above(y)) <= k - 1
      <4> HIDE DEF Above
      <4> QED BY <3>4, <1>2, <1>7
    <3>6. y \in T
      BY <3>2, <3>5
    <3>7. p <= y /\ p \in Nat /\ y \in Nat
      BY <3>6, <1>5, <1>1, <1>6, <3>2
    <3> QED BY <3>2, <3>7
  <2> QED BY <2>2, <2>3
<1>8. Cardinality(Above(p)) = k - 1
  <2> HIDE DEF Above
  <2> QED BY <1>2, <1>6, <1>7
<1> QED BY <1>6, <1>8

\* ... and counted from below.
LEMMA RankFromBelow ==
  ASSUME NEW S \in SUBSET Prices, NEW k \in 1 .. Cardinality(S)
  PROVE  \E p \in S : Cardinality({x \in S : x < p}) = k - 1
<1> DEFINE Below(p) == {x \in S : x < p}
           T == {p \in S : Cardinality(Below(p)) <= k - 1}
<1>1. /\ IsFiniteSet(S) /\ S \subseteq Nat
      /\ \A p : IsFiniteSet(Below(p))
  BY PricesAssumption, FS_Subset
<1>2. Cardinality(S) \in Nat /\ \A p : Cardinality(Below(p)) \in Nat
  BY <1>1, FS_CardinalityType
<1>3. S # {}
  <2> SUFFICES ASSUME S = {} PROVE FALSE
    OBVIOUS
  <2> QED BY FS_EmptySet
<1>4. T # {}
  <2>1. PICK h \in S : \A x \in S : h <= x
    BY <1>3, LowestExists
  <2>2. Below(h) = {}
    <3>1. ASSUME NEW x \in S PROVE ~(x < h)
      <4>1. x \in Nat /\ h \in Nat
        BY <1>1
      <4> QED BY <2>1, <4>1
    <3> QED BY <3>1
  <2>3. Cardinality(Below(h)) = 0
    BY <2>2, FS_EmptySet
  <2> QED BY <2>3
<1>5. PICK p \in T : \A x \in T : x <= p
  <2>1. T \in SUBSET Prices
    OBVIOUS
  <2> HIDE DEF T
  <2> QED BY <1>4, <2>1, HighestExists
<1>6. p \in S /\ p \notin Below(p) /\ Cardinality(Below(p)) <= k - 1
  BY <1>1
<1>7. ASSUME Cardinality(Below(p)) < k - 1 PROVE FALSE
  <2> DEFINE L == {x \in S : x > p}
             A == Below(p) \cup {p}
  <2>1. Cardinality(A) = Cardinality(Below(p)) + 1
    <3> HIDE DEF Below
    <3> QED BY <1>1, <1>6, FS_AddElement
  <2>2. CASE L = {}
    <3>1. A = S
      <4>1. ASSUME NEW x \in S PROVE x < p \/ x = p
        <5>1. x \in Nat /\ p \in Nat /\ ~(x > p)
          BY <1>1, <1>6, <2>2
        <5> QED BY <5>1
      <4> QED BY <1>6, <4>1
    <3>2. Cardinality(S) = Cardinality(Below(p)) + 1
      BY <2>1, <3>1
    <3> HIDE DEF Below, A
    <3> QED BY <3>2, <1>2, <1>7
  <2>3. CASE L # {}
    <3>1. PICK y \in L : \A x \in L : y <= x
      <4>1. L \in SUBSET Prices
        OBVIOUS
      <4> HIDE DEF L
      <4> QED BY <2>3, <4>1, LowestExists
    <3>2. y \in S /\ y > p
      BY <3>1
    <3>3. Below(y) = A
      <4>1. ASSUME NEW x \in S PROVE x < y <=> x < p \/ x = p
        <5>1. x \in Nat /\ y \in Nat /\ p \in Nat
          BY <1>1, <1>6, <3>2
        <5>2. x > p => y <= x
          BY <3>1
        <5> QED BY <3>2, <5>1, <5>2
      <4> QED BY <1>6, <4>1
    <3>4. Cardinality(Below(y)) = Cardinality(Below(p)) + 1
      BY <2>1, <3>3
    <3>5. Cardinality(Below(y)) <= k - 1
      <4> HIDE DEF Below
      <4> QED BY <3>4, <1>2, <1>7
    <3>6. y \in T
      BY <3>2, <3>5
    <3>7. y <= p /\ p \in Nat /\ y \in Nat
      BY <3>6, <1>5, <1>1, <1>6, <3>2
    <3> QED BY <3>2, <3>7
  <2> QED BY <2>2, <2>3
<1>8. Cardinality(Below(p)) = k - 1
  <2> HIDE DEF Below
  <2> QED BY <1>2, <1>6, <1>7
<1> QED BY <1>6, <1>8

\* The levels calculatePriceLevels lists are levels of the book.
LEMMA LevelsOfBook ==
  ASSUME IInv, NEW side \in Sides, NEW i \in DOMAIN calculatePriceLevels(side, MaxLevels)
  PROVE  calculatePriceLevels(side, MaxLevels)[i].price \in DOMAIN book[side]
<1> DEFINE S == DOMAIN book[side]
           n == IF Cardinality(S) < MaxLevels THEN Cardinality(S) ELSE MaxLevels
<1>1. S \in SUBSET Prices
  BY DEF IInv, TypeOK, IsLevelMap
<1>2. Cardinality(S) \in Nat
  BY <1>1, PricesAssumption, FS_Subset, FS_CardinalityType
<1>3. i \in 1 .. n /\ calculatePriceLevels(side, MaxLevels)[i].price = NthPrice(side, i)
  BY DEF calculatePriceLevels
<1>4. i \in 1 .. Cardinality(S)
  BY <1>2, <1>3, SizesAssumption
<1>5. \E p \in S : Cardinality({x \in S : IF side = "BUY" THEN x > p ELSE x < p}) = i - 1
  <2>1. CASE side = "BUY"
    <3>1. PICK p \in S : Cardinality({x \in S : x > p}) = i - 1
      BY <1>1, <1>4, RankFromAbove
    <3> QED BY <2>1, <3>1
  <2>2. CASE side # "BUY"
    <3>1. PICK p \in S : Cardinality({x \in S : x < p}) = i - 1
      BY <1>1, <1>4, RankFromBelow
    <3> QED BY <2>2, <3>1
  <2> QED BY <2>1, <2>2
<1>6. NthPrice(side, i) \in S
  BY <1>5 DEF NthPrice
<1> QED BY <1>3, <1>6

----------------------------------------------------------------------------
(* Inside the process the book makes only steps of the book.               *)

LEMMA ThreadsHere == IoThread \in Threads /\ GenThread \in Threads /\ IoThread # GenThread
  BY GenThreadAssumption

LEMMA NextIdUnused ==
  ASSUME Unused # {}
  PROVE  NextId \in Ids /\ NextId \notin generated /\ order[NextId].status = "NONE"
<1>1. NextId \in Unused
  BY DEF NextId
<1> QED BY <1>1 DEF Unused

LEMMA PostedHead ==
  ASSUME ProcType, posted # <<>>
  PROVE  /\ Head(posted).id \in Ids /\ Head(posted).in \in Inputs
         /\ Head(posted).id \in generated /\ Head(posted).in \in GeneratorInputs
<1> DEFINE Posts == [id : generated, in : GeneratorInputs]
<1>1. Head(posted) \in Posts
  <2>1. posted \in Seq(Posts)
    BY DEF ProcType
  <2> HIDE DEF Posts
  <2> QED BY <2>1
<1> QED BY <1>1, InputsUsed DEF ProcType

LEMMA ProcessStep == ProcType /\ [PNext]_procVars => [Next]_vars
<1> SUFFICES ASSUME ProcType, [PNext]_procVars PROVE [Next]_vars
  OBVIOUS
<1>1. CASE ClientOrder
  <2>1. PICK in \in ClientInputs : addOrder(IoThread, NextId, NewOrder(in))
    BY <1>1 DEF ClientOrder
  <2>2. NextId \in Ids /\ in \in Inputs
    BY <1>1, NextIdUnused, InputsUsed DEF ClientOrder
  <2> QED BY <2>1, <2>2, ThreadsHere DEF Next, Call
<1>2. CASE ClientCancel
  BY <1>2, ThreadsHere DEF ClientCancel, Next, Call
<1>3. CASE AddPosted
  BY <1>3, ThreadsHere, PostedHead DEF AddPosted, Next, Call
<1>4. CASE IoStep
  BY <1>4, ThreadsHere DEF IoStep, Next
<1>5. CASE CancelBegins
  BY <1>5, ThreadsHere DEF CancelBegins, ProcType, Next, Call
<1>6. CASE CancelReturns
  BY <1>6, ThreadsHere DEF CancelReturns, Next
<1>7. CASE \/ StartAccepting \/ StartGenerator \/ Snapshot \/ Exit \/ StartSnapshot
           \/ \E c \in Clients : acceptConnection(c) \/ removeSession(c)
  BY <1>7 DEF StartAccepting, StartGenerator, Snapshot, Exit, StartSnapshot,
              acceptConnection, removeSession, ReadBids, ReadAsks, SendSnapshot
<1>8. CASE \/ generateOrder \/ LoopEnds \/ tryCancel \/ getOrderbook \/ CancelFails
           \/ HandlerNext \/ Signal
  BY <1>8 DEF generateOrder, LoopEnds, tryCancel, getOrderbook, CancelFails,
              HandlerNext, CloseSessions, StopGenerator, Join, HandlerReturns, Signal
<1>9. CASE UNCHANGED procVars
  BY <1>9 DEF procVars
<1> QED BY <1>1, <1>2, <1>3, <1>4, <1>5, <1>6, <1>7, <1>8, <1>9
        DEF PNext, MainNext, GenNext

----------------------------------------------------------------------------
(* The generator's orders.                                                 *)

\* No order of the generator is added or canceled.
Fates ==
    \A id \in generated :
        /\ order'[id].status = "NONE" <=> order[id].status = "NONE"
        /\ order'[id].status = "CANCELED" <=> order[id].status = "CANCELED"
        /\ order[id].status # "NONE" => order'[id].type = order[id].type

\* A step of the io thread: the generator's call, if any, stays as it is.
OtherCall ==
    /\ pc'[GenThread] = pc[GenThread]
    /\ pending_trades'[GenThread] = pending_trades[GenThread]
    /\ pending_order_updates'[GenThread] = pending_order_updates[GenThread]
    /\ pc'[IoThread] = "idle" => pending_order_updates'[IoThread] = <<>>

LEMMA FatesAccounts ==
  ASSUME Accounts, Fates, UNCHANGED <<generated, posted>>, ProcType', GeneratorCalls',
         cancel_count' + (IF gpc' = "counting" THEN 1 ELSE 0)
             = cancel_count + (IF gpc = "counting" THEN 1 ELSE 0)
  PROVE  Accounts'
<1>1. PostedOnce' /\ PostedUntilAdded' /\ LimitsOnly'
  BY DEF Accounts, Fates, PostedOnce, PostedUntilAdded, LimitsOnly
<1>2. CanceledByUs' = CanceledByUs
  BY DEF Fates, CanceledByUs
<1>3. CancelsCounted'
  BY <1>2 DEF Accounts, CancelsCounted
<1> QED BY <1>1, <1>3 DEF Accounts

LEMMA IoAccounts ==
  ASSUME Accounts, Fates, OtherCall, UNCHANGED <<genVars, posted, early>>
  PROVE  Accounts'
<1>1. UNCHANGED <<gpc, running, tracked, victim, cancel_count, generated>>
  BY DEF genVars
<1>2. ProcType'
  BY <1>1 DEF Accounts, ProcType
<1>3. GeneratorCalls'
  BY <1>1, GenThreadAssumption DEF Accounts, GeneratorCalls, OtherCall
<1> QED BY <1>1, <1>2, <1>3, FatesAccounts

LEMMA IdleAccounts ==
  ASSUME Accounts, UNCHANGED <<vars, posted, cancel_count, generated>>,
         ProcType', gpc = "counting" <=> gpc' = "counting"
  PROVE  Accounts'
<1>1. UNCHANGED <<order, pc, pending_trades, pending_order_updates>>
  BY DEF vars, callVars
<1>2. Fates /\ GeneratorCalls'
  BY <1>1 DEF Accounts, Fates, GeneratorCalls
<1> QED BY <1>2, FatesAccounts

\* A step of a call of the io thread.
LEMMA IoStepAccounts ==
  ASSUME BookInv, Accounts, IoStep
  PROVE  Accounts'
<1>0. IInv /\ IoThread \in Threads /\ GenThread \in Threads \ {IoThread} /\ Step(IoThread)
  BY ThreadsHere DEF BookInv, IoStep
<1>1. CASE LockStep(IoThread)
  <2>1. /\ OrdersStay /\ pc'[IoThread] # "idle"
        /\ pc'[GenThread] = pc[GenThread]
        /\ pending_order_updates'[GenThread] = pending_order_updates[GenThread]
        /\ pending_trades'[GenThread] = pending_trades[GenThread]
    BY <1>0, <1>1, LockStepStays
  <2>2. Fates
    <3> SUFFICES ASSUME NEW id \in generated
                 PROVE  /\ order'[id].status = "NONE" <=> order[id].status = "NONE"
                        /\ order'[id].status = "CANCELED" <=> order[id].status = "CANCELED"
                        /\ order[id].status # "NONE" => order'[id].type = order[id].type
      BY DEF Fates
    <3>1. id \in Ids /\ (order[id].status # "NONE" => order[id].type = "LIMIT")
      BY DEF Accounts, ProcType, LimitsOnly
    <3> QED BY <2>1, <3>1 DEF OrdersStay, isStopOrder
  <2>3. OtherCall
    BY <2>1 DEF OtherCall
  <2> QED BY <2>2, <2>3, IoAccounts DEF IoStep, sigVars
<1>2. CASE NotifyTrade(IoThread) \/ NotifyUpdate(IoThread) \/ NotifyIncoming(IoThread)
  <2>1. /\ pc \in [Threads -> {"idle", "match", "scan", "notify"}]
        /\ pending_order_updates \in [Threads -> Seq(Ids)]
        /\ pending_trades \in [Threads -> Seq(Trades)]
    BY <1>0 DEF IInv, TypeOK
  <2>2. Fates
    BY <1>2 DEF Fates, NotifyTrade, NotifyUpdate, NotifyIncoming
  <2>3. OtherCall
    BY <1>0, <1>2, <2>1 DEF OtherCall, NotifyTrade, NotifyUpdate, NotifyIncoming
  <2> QED BY <2>2, <2>3, IoAccounts DEF IoStep, sigVars
<1> QED BY <1>0, <1>1, <1>2 DEF Step, LockStep

\* A client's order, and its cancel: the order is not the generator's.
LEMMA ClientAccounts ==
  ASSUME BookInv, Accounts, ClientOrder \/ ClientCancel
  PROVE  Accounts'
<1>0. IInv /\ IoThread \in Threads /\ GenThread \in Threads \ {IoThread}
      /\ generated \subseteq Ids
  BY ThreadsHere DEF BookInv, Accounts, ProcType
<1>1. CASE ClientOrder
  <2>1. PICK in \in ClientInputs : addOrder(IoThread, NextId, NewOrder(in))
    BY <1>1 DEF ClientOrder
  <2>2. NextId \in Ids /\ NextId \notin generated
    BY <1>1, NextIdUnused DEF ClientOrder
  <2>3. /\ \A j \in Ids \ {NextId} : order'[j] = order[j]
        /\ pc'[IoThread] # "idle" /\ pc'[GenThread] = pc[GenThread]
        /\ UNCHANGED <<pending_order_updates, pending_trades>>
    BY <1>0, <2>1, <2>2, AddEffect
  <2>4. Fates /\ OtherCall
    BY <1>0, <2>2, <2>3 DEF Fates, OtherCall
  <2> QED BY <1>1, <2>4, IoAccounts DEF ClientOrder, sigVars
<1>2. CASE ClientCancel
  <2>1. PICK id \in Ids \ generated : CancelOrder(IoThread, id)
    BY <1>2 DEF ClientCancel
  <2>2. /\ \A j \in Ids \ {id} : order'[j] = order[j]
        /\ pc'[IoThread] = "notify" /\ pc'[GenThread] = pc[GenThread]
        /\ UNCHANGED <<pending_order_updates, pending_trades>>
    BY <1>0, <2>1, CancelEffect
  <2>3. Fates /\ OtherCall
    BY <1>0, <2>1, <2>2 DEF Fates, OtherCall
  <2> QED BY <1>2, <2>3, IoAccounts DEF ClientCancel, sigVars
<1> QED BY <1>1, <1>2

\* The queue of posted orders without its first.
LEMMA PostedTail ==
  ASSUME ProcType, PostedOnce, posted # <<>>
  PROVE  /\ Tail(posted) \in Seq([id : generated, in : GeneratorInputs])
         /\ \A i, j \in 1 .. Len(Tail(posted)) :
                Tail(posted)[i].id = Tail(posted)[j].id => i = j
         /\ \A id : (\E i \in 1 .. Len(Tail(posted)) : Tail(posted)[i].id = id) <=>
                /\ \E i \in 1 .. Len(posted) : posted[i].id = id
                /\ id # Head(posted).id
<1> DEFINE Posts == [id : generated, in : GeneratorInputs]
           r == Tail(posted)
<1>1. posted \in Seq(Posts)
  BY DEF ProcType
<1>2. /\ r \in Seq(Posts) /\ Len(r) = Len(posted) - 1 /\ Len(posted) \in Nat \ {0}
      /\ Head(posted) = posted[1]
      /\ \A i \in 1 .. Len(r) : r[i] = posted[i + 1]
  <2> HIDE DEF Posts
  <2> QED BY <1>1
<1> HIDE DEF r
<1>3. \A i, j \in 1 .. Len(r) : r[i].id = r[j].id => i = j
  <2> SUFFICES ASSUME NEW i \in 1 .. Len(r), NEW j \in 1 .. Len(r), r[i].id = r[j].id
               PROVE  i = j
    OBVIOUS
  <2>1. i + 1 \in 1 .. Len(posted) /\ j + 1 \in 1 .. Len(posted)
    BY <1>2
  <2>2. posted[i + 1].id = posted[j + 1].id
    BY <1>2
  <2>3. i + 1 = j + 1
    BY <2>1, <2>2 DEF PostedOnce
  <2> QED BY <1>2, <2>3
<1>4. ASSUME NEW id
      PROVE  (\E i \in 1 .. Len(r) : r[i].id = id) <=>
                (\E i \in 1 .. Len(posted) : posted[i].id = id) /\ id # Head(posted).id
  <2>1. ASSUME NEW i \in 1 .. Len(r), r[i].id = id
        PROVE  (\E j \in 1 .. Len(posted) : posted[j].id = id) /\ id # Head(posted).id
    <3>1. i + 1 \in 1 .. Len(posted) /\ 1 \in 1 .. Len(posted) /\ i + 1 # 1
      BY <1>2
    <3>2. posted[i + 1].id = id
      BY <1>2, <2>1
    <3>3. posted[1].id # id
      BY <3>1, <3>2 DEF PostedOnce
    <3> QED BY <1>2, <3>1, <3>2, <3>3
  <2>2. ASSUME NEW i \in 1 .. Len(posted), posted[i].id = id, id # Head(posted).id
        PROVE  \E j \in 1 .. Len(r) : r[j].id = id
    <3>1. i # 1
      BY <1>2, <2>2
    <3>2. i - 1 \in 1 .. Len(r) /\ (i - 1) + 1 = i
      BY <1>2, <3>1
    <3>3. r[i - 1] = posted[i]
      BY <1>2, <3>2
    <3> QED BY <2>2, <3>2, <3>3
  <2> QED BY <2>1, <2>2
<1> QED BY <1>2, <1>3, <1>4 DEF r

\* The order the generator posted is added.
LEMMA AddPostedAccounts ==
  ASSUME BookInv, Accounts, AddPosted
  PROVE  Accounts'
<1>0. /\ IInv /\ IoThread \in Threads /\ GenThread \in Threads \ {IoThread}
      /\ generated \subseteq Ids /\ posted # <<>>
      /\ ProcType /\ PostedOnce
  BY ThreadsHere DEF BookInv, Accounts, ProcType, AddPosted
<1>1. PICK head : head = Head(posted)
  OBVIOUS
<1>2. head.id \in generated /\ head.id \in Ids /\ head.in \in GeneratorInputs /\ head.in \in Inputs
  BY <1>0, <1>1, PostedHead
<1>3. addOrder(IoThread, head.id, NewOrder(head.in)) /\ posted' = Tail(posted)
  BY <1>1 DEF AddPosted
<1>4. UNCHANGED <<gpc, running, tracked, victim, cancel_count, generated, early>>
  BY DEF AddPosted, genVars, sigVars
<1>5. /\ order[head.id].status = "NONE" /\ order'[head.id] = NewOrder(head.in)
      /\ \A j \in Ids \ {head.id} : order'[j] = order[j]
      /\ pc'[IoThread] # "idle" /\ pc'[GenThread] = pc[GenThread]
      /\ UNCHANGED <<pending_order_updates, pending_trades>>
  BY <1>0, <1>2, <1>3, AddEffect
<1>6. order'[head.id].status = "PENDING" /\ order'[head.id].type = "LIMIT"
  BY <1>2, <1>5, GeneratorLimits DEF NewOrder
<1>7. ProcType' /\ PostedOnce'
  BY <1>0, <1>3, <1>4, PostedTail DEF ProcType, PostedOnce
<1>8. PostedUntilAdded'
  <2> SUFFICES ASSUME NEW id \in generated
               PROVE  (\E i \in 1 .. Len(posted') : posted'[i].id = id)
                          <=> order'[id].status = "NONE"
    BY <1>4 DEF PostedUntilAdded
  <2>1. (\E i \in 1 .. Len(posted') : posted'[i].id = id) <=>
            (\E i \in 1 .. Len(posted) : posted[i].id = id) /\ id # head.id
    BY <1>0, <1>1, <1>3, PostedTail
  <2>2. (\E i \in 1 .. Len(posted) : posted[i].id = id) <=> order[id].status = "NONE"
    BY DEF Accounts, PostedUntilAdded
  <2>3. id # head.id => order'[id] = order[id]
    BY <1>0, <1>5
  <2> QED BY <2>1, <2>2, <2>3, <1>6
<1>9. LimitsOnly'
  BY <1>0, <1>4, <1>5, <1>6 DEF Accounts, LimitsOnly
<1>10. CanceledByUs' = CanceledByUs
  BY <1>0, <1>4, <1>5, <1>6 DEF CanceledByUs
<1>11. CancelsCounted'
  BY <1>4, <1>10 DEF Accounts, CancelsCounted
<1>12. GeneratorCalls'
  BY <1>4, <1>5, GenThreadAssumption DEF Accounts, GeneratorCalls
<1> QED BY <1>7, <1>8, <1>9, <1>11, <1>12 DEF Accounts

LEMMA CanceledFinite ==
  ASSUME ProcType
  PROVE  IsFiniteSet(CanceledByUs) /\ Cardinality(CanceledByUs) \in Nat
<1>1. CanceledByUs \subseteq generated
  BY DEF CanceledByUs
<1>2. IsFiniteSet(CanceledByUs)
  BY <1>1, FS_Subset DEF ProcType
<1> QED BY <1>2, FS_CardinalityType

\* The generator's cancel: one more order is canceled, and not counted yet.
LEMMA CancelBeginsAccounts ==
  ASSUME BookInv, Accounts, CancelBegins
  PROVE  Accounts'
<1>0. /\ IInv /\ IoThread \in Threads \ {GenThread} /\ GenThread \in Threads
      /\ generated \subseteq Ids /\ gpc = "cancel" /\ gpc' = "counting"
      /\ victim \in generated /\ victim \in Ids
      /\ ProcType
  BY ThreadsHere DEF BookInv, Accounts, ProcType, CancelBegins
<1>1. UNCHANGED <<running, tracked, victim, cancel_count, generated, posted, early>>
  BY DEF CancelBegins, sigVars
<1>2. /\ order[victim].status \in {"PENDING", "PARTIAL"}
      /\ order'[victim].status = "CANCELED" /\ order'[victim].type = order[victim].type
      /\ \A j \in Ids \ {victim} : order'[j] = order[j]
      /\ pc'[GenThread] = "notify" /\ \A u \in Threads \ {GenThread} : pc'[u] = pc[u]
      /\ UNCHANGED <<pending_order_updates, pending_trades>>
  BY <1>0, CancelEffect DEF CancelBegins
<1>3. ProcType' /\ PostedOnce'
  BY <1>0, <1>1 DEF Accounts, ProcType, PostedOnce
<1>4. PostedUntilAdded' /\ LimitsOnly'
  BY <1>0, <1>1, <1>2 DEF Accounts, PostedUntilAdded, LimitsOnly
<1>5. CancelsCounted'
  <2>1. CanceledByUs' = CanceledByUs \cup {victim} /\ victim \notin CanceledByUs
    BY <1>0, <1>1, <1>2 DEF CanceledByUs
  <2>2. Cardinality(CanceledByUs') = Cardinality(CanceledByUs) + 1
    <3>1. Cardinality(CanceledByUs \cup {victim}) = Cardinality(CanceledByUs) + 1
      BY <1>0, <2>1, CanceledFinite, FS_AddElement
    <3> QED BY <2>1, <3>1
  <2>3. Cardinality(CanceledByUs) = cancel_count + 0 /\ cancel_count \in Nat
    BY <1>0 DEF Accounts, CancelsCounted, ProcType
  <2>4. Cardinality(CanceledByUs)' = cancel_count' + 1
    BY <1>1, <2>2, <2>3
  <2> QED BY <1>0, <2>4 DEF CancelsCounted
<1>6. GeneratorCalls'
  BY <1>0, <1>2 DEF Accounts, GeneratorCalls
<1> QED BY <1>3, <1>4, <1>5, <1>6 DEF Accounts

\* The callback of that cancel is all that is left of the call.
LEMMA CancelReturnsStep ==
  ASSUME Accounts, CancelReturns
  PROVE  NotifyIncoming(GenThread) /\ pc[GenThread] = "notify"
<1>1. /\ pc[GenThread] = "notify" /\ pending_trades[GenThread] = <<>>
      /\ pending_order_updates[GenThread] = <<>>
  BY ThreadsHere DEF Accounts, GeneratorCalls, CancelReturns
<1> QED BY <1>1 DEF CancelReturns, Step, Match, Settle, EndRound, TriggerBuy,
                    TriggerSell, NextPrice, NextRound, Unlock, NotifyTrade, NotifyUpdate

LEMMA CancelReturnsAccounts ==
  ASSUME BookInv, Accounts, CancelReturns
  PROVE  Accounts'
<1>1. UNCHANGED <<running, tracked, generated, posted, early>>
      /\ gpc = "counting" /\ gpc' = "top" /\ cancel_count' = cancel_count + 1
      /\ cancel_count \in Nat
  BY DEF CancelReturns, sigVars, Accounts, ProcType
<1>2. /\ UNCHANGED <<order, pending_trades, pending_order_updates>>
      /\ pc' = [pc EXCEPT ![GenThread] = "idle"]
  BY CancelReturnsStep DEF NotifyIncoming
<1>3. pc \in [Threads -> {"idle", "match", "scan", "notify"}]
  BY DEF BookInv, IInv, TypeOK
<1>4. GeneratorCalls'
  BY <1>1, <1>2, <1>3, ThreadsHere DEF Accounts, GeneratorCalls
<1>5. ProcType'
  BY <1>1 DEF Accounts, ProcType
<1>6. Fates
  BY <1>2 DEF Fates
<1>7. cancel_count' + (IF gpc' = "counting" THEN 1 ELSE 0)
          = cancel_count + (IF gpc = "counting" THEN 1 ELSE 0)
  BY <1>1
<1> QED BY <1>1, <1>4, <1>5, <1>6, <1>7, FatesAccounts

\* The deque of tracked ids stays a deque of generated ones.
LEMMA TrackedQueue ==
  ASSUME NEW S, NEW q \in Seq(S)
  PROVE  /\ Trim(q) \in Seq(S)
         /\ \A i \in 1 .. Len(q) : q[i] \in S /\ EraseAt(q, i) \in Seq(S)
<1>1. Trim(q) \in Seq(S)
  <2>1. CASE Len(q) > MaxTracked
    <3>1. Len(q) \in Nat /\ Len(q) - MaxTracked + 1 \in 1 .. Len(q) + 1
      BY <2>1, MaxTrackedAssumption
    <3>2. SubSeq(q, Len(q) - MaxTracked + 1, Len(q)) \in Seq(S)
      BY <3>1
    <3> QED BY <2>1, <3>2 DEF Trim
  <2>2. CASE ~(Len(q) > MaxTracked)
    BY <2>2 DEF Trim
  <2> QED BY <2>1, <2>2
<1>2. ASSUME NEW i \in 1 .. Len(q)
      PROVE  q[i] \in S /\ EraseAt(q, i) \in Seq(S)
  <2>1. Len(q) - 1 \in Nat
    OBVIOUS
  <2>2. \A j \in 1 .. Len(q) - 1 : (IF j < i THEN q[j] ELSE q[j + 1]) \in S
    OBVIOUS
  <2> QED BY <2>1, <2>2 DEF EraseAt
<1> QED BY <1>1, <1>2

\* A new order: tracked, posted and not in the book.
LEMMA GenerateAccounts ==
  ASSUME BookInv, Accounts, generateOrder
  PROVE  Accounts'
<1>0. /\ gpc = "top" /\ gpc' = "try" /\ Unused # {}
      /\ UNCHANGED <<running, victim, cancel_count, early>>
      /\ UNCHANGED <<order, pc, pending_trades, pending_order_updates>>
  BY DEF generateOrder, sigVars, vars, callVars
<1>1. PICK new : new = NextId
  OBVIOUS
<1>2. new \in Ids /\ new \notin generated /\ order[new].status = "NONE"
  BY <1>0, <1>1, NextIdUnused
<1>3. PICK in \in GeneratorInputs : posted' = Append(posted, [id |-> new, in |-> in])
  BY <1>1 DEF generateOrder
<1>4. generated' = generated \cup {new} /\ tracked' = Trim(Append(tracked, new))
  BY <1>1 DEF generateOrder
<1> DEFINE Posts(G) == [id : G, in : GeneratorInputs]
           post == [id |-> new, in |-> in]
<1>5. posted \in Seq(Posts(generated)) /\ tracked \in Seq(generated)
  BY DEF Accounts, ProcType
<1>6. /\ Len(posted) \in Nat /\ Len(posted') = Len(posted) + 1
      /\ posted'[Len(posted) + 1] = post
      /\ \A i \in 1 .. Len(posted) : /\ posted'[i] = posted[i]
                                     /\ posted[i] \in Posts(generated)
  <2> HIDE DEF Posts, post
  <2> QED BY <1>3, <1>5 DEF post
<1>7. \A i \in 1 .. Len(posted) : posted[i].id \in generated /\ posted[i].id # new
  BY <1>2, <1>6
<1>8. ProcType'
  <2>1. posted' \in Seq(Posts(generated'))
    <3>1. Posts(generated) \subseteq Posts(generated') /\ post \in Posts(generated')
      BY <1>4
    <3>2. posted \in Seq(Posts(generated'))
      <4> HIDE DEF Posts
      <4> QED BY <1>5, <3>1
    <3> HIDE DEF Posts, post
    <3> QED BY <1>3, <3>1, <3>2 DEF post
  <2>2. tracked' \in Seq(generated')
    <3>1. Append(tracked, new) \in Seq(generated')
      BY <1>4, <1>5
    <3> QED BY <1>4, <3>1, TrackedQueue
  <2>3. IsFiniteSet(generated') /\ generated' \subseteq Ids
    BY <1>2, <1>4, FS_AddElement DEF Accounts, ProcType
  <2> QED BY <1>0, <2>1, <2>2, <2>3 DEF Accounts, ProcType
<1>9. PostedOnce'
  <2> SUFFICES ASSUME NEW i \in 1 .. Len(posted'), NEW j \in 1 .. Len(posted'),
                      posted'[i].id = posted'[j].id
               PROVE  i = j
    BY DEF PostedOnce
  <2>1. CASE i \in 1 .. Len(posted) /\ j \in 1 .. Len(posted)
    BY <1>6, <2>1 DEF Accounts, PostedOnce
  <2>2. CASE i \in 1 .. Len(posted) /\ j = Len(posted) + 1
    BY <1>6, <1>7, <2>2
  <2>3. CASE i = Len(posted) + 1 /\ j \in 1 .. Len(posted)
    BY <1>6, <1>7, <2>3
  <2>4. \A k \in 1 .. Len(posted') : k \in 1 .. Len(posted) \/ k = Len(posted) + 1
    BY <1>6
  <2> QED BY <2>1, <2>2, <2>3, <2>4
<1>10. PostedUntilAdded'
  <2> SUFFICES ASSUME NEW id \in generated'
               PROVE  (\E i \in 1 .. Len(posted') : posted'[i].id = id)
                          <=> order[id].status = "NONE"
    BY <1>0 DEF PostedUntilAdded
  <2>1. CASE id = new
    <3>1. Len(posted) + 1 \in 1 .. Len(posted') /\ posted'[Len(posted) + 1].id = new
      BY <1>6
    <3> QED BY <1>2, <2>1, <3>1
  <2>2. CASE id # new
    <3>1. id \in generated
      BY <1>4, <2>2
    <3>2. (\E i \in 1 .. Len(posted) : posted[i].id = id) <=> order[id].status = "NONE"
      BY <3>1 DEF Accounts, PostedUntilAdded
    <3>3. (\E i \in 1 .. Len(posted') : posted'[i].id = id) <=>
              \E i \in 1 .. Len(posted) : posted[i].id = id
      <4>1. ASSUME NEW i \in 1 .. Len(posted'), posted'[i].id = id
            PROVE  \E j \in 1 .. Len(posted) : posted[j].id = id
        <5>1. i # Len(posted) + 1
          BY <1>6, <2>2, <4>1
        <5>2. i \in 1 .. Len(posted)
          BY <1>6, <5>1
        <5> QED BY <1>6, <4>1, <5>2
      <4>2. \A i \in 1 .. Len(posted) : i \in 1 .. Len(posted') /\ posted'[i] = posted[i]
        BY <1>6
      <4> QED BY <4>1, <4>2
    <3> QED BY <3>2, <3>3
  <2> QED BY <2>1, <2>2
<1>11. LimitsOnly'
  BY <1>0, <1>2, <1>4 DEF Accounts, LimitsOnly
<1>12. CanceledByUs' = CanceledByUs
  BY <1>0, <1>2, <1>4 DEF CanceledByUs
<1>13. CancelsCounted'
  BY <1>0, <1>12 DEF Accounts, CancelsCounted
<1>14. GeneratorCalls'
  BY <1>0 DEF Accounts, GeneratorCalls
<1> QED BY <1>8, <1>9, <1>10, <1>11, <1>13, <1>14 DEF Accounts

\* The other steps of the generator's thread.
LEMMA LoopAccounts ==
  ASSUME Accounts, LoopEnds \/ tryCancel \/ getOrderbook \/ CancelFails
  PROVE  Accounts'
<1>1. UNCHANGED <<vars, posted, cancel_count, generated, running, early>>
  BY DEF LoopEnds, tryCancel, getOrderbook, CancelFails, sigVars
<1>2. tracked \in Seq(generated)
  BY DEF Accounts, ProcType
<1>3. ProcType'
  <2>1. CASE LoopEnds \/ getOrderbook \/ CancelFails
    BY <1>1, <2>1 DEF Accounts, ProcType, LoopEnds, getOrderbook, CancelFails
  <2>2. CASE tryCancel
    <3>1. CASE gpc' = "top" /\ UNCHANGED <<tracked, victim>>
      BY <1>1, <3>1 DEF Accounts, ProcType
    <3>2. ASSUME NEW i \in 1 .. Len(tracked),
                 victim' = tracked[i], tracked' = EraseAt(tracked, i)
          PROVE  ProcType'
      <4>1. victim' \in generated /\ tracked' \in Seq(generated)
        BY <1>2, <3>2, TrackedQueue
      <4> QED BY <1>1, <4>1 DEF Accounts, ProcType
    <3> QED BY <2>2, <3>1, <3>2 DEF tryCancel
  <2> QED BY <2>1, <2>2
<1>4. gpc = "counting" <=> gpc' = "counting"
  BY DEF LoopEnds, tryCancel, getOrderbook, CancelFails
<1> QED BY <1>1, <1>3, <1>4, IdleAccounts

\* The steps of main, of the signal handler and of a snapshot.
LEMMA MainAccounts ==
  ASSUME Accounts, ShutdownOrder,
         \/ StartAccepting \/ StartGenerator \/ Snapshot \/ Exit \/ StartSnapshot
         \/ \E c \in Clients : acceptConnection(c) \/ removeSession(c)
         \/ HandlerNext \/ Signal \/ UNCHANGED procVars
  PROVE  Accounts'
<1>1. UNCHANGED <<vars, posted, cancel_count, generated, tracked, victim>>
  BY DEF StartAccepting, StartGenerator, Snapshot, Exit, StartSnapshot,
         acceptConnection, removeSession, ReadBids, ReadAsks, SendSnapshot, HandlerNext,
         CloseSessions, StopGenerator, Join, HandlerReturns, Signal, genVars, procVars
<1>2. CASE StartGenerator
  <2>1. gpc = "off" /\ gpc' = "top" /\ running' = TRUE /\ UNCHANGED early
    BY <1>2 DEF StartGenerator, ShutdownOrder, sigVars
  <2>2. ProcType'
    BY <1>1, <2>1 DEF Accounts, ProcType
  <2> QED BY <1>1, <2>1, <2>2, IdleAccounts
<1>3. CASE ~StartGenerator
  <2>1. UNCHANGED gpc
    BY <1>3 DEF StartAccepting, StartGenerator, Snapshot, Exit, StartSnapshot,
         acceptConnection, removeSession, HandlerNext,
         CloseSessions, StopGenerator, Join, HandlerReturns, Signal, genVars, procVars
  <2>2. running' \in {running, FALSE} /\ early' \in {early, phase # "running"}
    BY <1>3 DEF StartAccepting, StartGenerator, Snapshot, Exit, StartSnapshot,
         acceptConnection, removeSession, HandlerNext, sigVars,
         CloseSessions, StopGenerator, Join, HandlerReturns, Signal, genVars, procVars
  <2>3. running' \in BOOLEAN /\ early' \in BOOLEAN
    BY <2>2 DEF Accounts, ProcType
  <2>4. ProcType'
    BY <1>1, <2>1, <2>3 DEF Accounts, ProcType
  <2> QED BY <1>1, <2>1, <2>4, IdleAccounts
<1> QED BY <1>2, <1>3

LEMMA AccountsNext ==
  ASSUME BookInv, Accounts, ShutdownOrder, [PNext]_procVars
  PROVE  Accounts'
  BY IoStepAccounts, ClientAccounts, AddPostedAccounts, CancelBeginsAccounts,
     CancelReturnsAccounts, GenerateAccounts, LoopAccounts, MainAccounts
  DEF PNext, MainNext, GenNext

----------------------------------------------------------------------------
(* Snapshots.                                                              *)

\* cancelOrder adds no ask level.
LEMMA CancelShrinks ==
  ASSUME IInv, NEW t \in Threads, NEW id \in Ids, CancelOrder(t, id)
  PROVE  DOMAIN book'["SELL"] \subseteq DOMAIN book["SELL"]
<1>1. /\ DOMAIN book = Sides /\ \A s \in Sides : IsLevelMap(book[s]) /\ WellFormed(book[s])
      /\ order[id] \in Orders
  BY BookMaps DEF IInv, TypeOK
<1>2. CASE isStopOrder(order[id])
  BY <1>2 DEF CancelOrder
<1>3. CASE ~isStopOrder(order[id])
  <2>1. PICK s \in Sides, p \in Prices : s = order[id].side /\ p = order[id].price
    BY <1>1 DEF Orders
  <2>2. book' = [book EXCEPT ![s] = EraseFrom(book[s], p, id)]
    BY <1>3, <2>1 DEF CancelOrder
  <2>3. DOMAIN EraseFrom(book[s], p, id) \subseteq DOMAIN book[s]
    BY <1>1, EraseFromAt
  <2>4. book'["SELL"] = IF s = "SELL" THEN EraseFrom(book[s], p, id) ELSE book["SELL"]
    BY <1>1, <2>2 DEF Sides
  <2> QED BY <2>3, <2>4
<1> QED BY <1>2, <1>3

\* The io thread reads bids out of a book that is not crossed; until it reads
\* the asks only cancels of the generator's thread change the book.
LEMMA ReadsNext ==
  ASSUME BookInv, Accounts, ReadsSafe, SnapshotUncrossed, [PNext]_procVars
  PROVE  ReadsSafe' /\ SnapshotUncrossed'
<1>0. IInv /\ IoThread \in Threads \ {GenThread} /\ GenThread \in Threads
      /\ pc \in [Threads -> {"idle", "match", "scan", "notify"}]
  BY ThreadsHere DEF BookInv, IInv, TypeOK
<1>1. ASSUME UNCHANGED <<reading, bids, asks>>, pc'[IoThread] = pc[IoThread],
             DOMAIN book'["SELL"] \subseteq DOMAIN book["SELL"]
      PROVE  ReadsSafe' /\ SnapshotUncrossed'
  BY <1>1 DEF ReadsSafe, SnapshotUncrossed
<1>2. CASE ClientOrder \/ ClientCancel \/ AddPosted
  <2>1. reading = "no" /\ reading' = "no"
    BY <1>2 DEF ClientOrder, ClientCancel, AddPosted, IoNext, IoFree, snapVars
  <2> QED BY <2>1 DEF ReadsSafe, SnapshotUncrossed
<1>3. CASE IoStep
  <2>1. pc[IoThread] # "idle" /\ UNCHANGED reading
    BY <1>3 DEF IoStep, snapVars, Step, Match, Settle, EndRound, TriggerBuy, TriggerSell,
                NextPrice, NextRound, Unlock, NotifyTrade, NotifyUpdate, NotifyIncoming
  <2>2. reading' = "no"
    BY <2>1 DEF ReadsSafe
  <2> QED BY <2>2 DEF ReadsSafe, SnapshotUncrossed
<1>4. CASE CancelBegins
  <2>1. victim \in Ids /\ CancelOrder(GenThread, victim) /\ UNCHANGED <<reading, bids, asks>>
    BY <1>4 DEF CancelBegins, Accounts, ProcType, snapVars
  <2>2. pc'[IoThread] = pc[IoThread]
    BY <1>0, <2>1, CancelEffect
  <2>3. DOMAIN book'["SELL"] \subseteq DOMAIN book["SELL"]
    BY <1>0, <2>1, CancelShrinks
  <2> QED BY <1>1, <2>1, <2>2, <2>3
<1>5. CASE CancelReturns
  <2>1. UNCHANGED book /\ pc' = [pc EXCEPT ![GenThread] = "idle"]
    BY <1>5, CancelReturnsStep DEF NotifyIncoming
  <2>2. UNCHANGED <<reading, bids, asks>>
    BY <1>5 DEF CancelReturns, snapVars
  <2> QED BY <1>0, <1>1, <2>1, <2>2
<1>6. CASE StartSnapshot
  <2>1. PICK kind \in {"timer", "request"} : ReadBids(kind)
    BY <1>6 DEF StartSnapshot
  <2>2. /\ pc'[IoThread] = "idle" /\ reading' \in {"timer", "request"} /\ UNCHANGED book
        /\ bids' = calculatePriceLevels("BUY", MaxLevels)
    BY <2>1 DEF ReadBids, vars
  <2>3. ASSUME NEW i \in DOMAIN bids', NEW a \in DOMAIN book["SELL"]
        PROVE  bids'[i].price < a
    <3>1. bids'[i].price \in DOMAIN book["BUY"]
      BY <1>0, <2>2, LevelsOfBook DEF Sides
    <3> QED BY <1>0, <3>1 DEF IInv, Uncrossed
  <2> QED BY <2>2, <2>3 DEF ReadsSafe, SnapshotUncrossed
<1>7. CASE Snapshot
  <2>1. CASE ReadAsks
    <3>1. /\ reading \in {"timer", "request"} /\ reading' = "sending"
          /\ UNCHANGED <<bids, pc>>
          /\ asks' = calculatePriceLevels("SELL", MaxLevels)
      BY <2>1 DEF ReadAsks, vars
    <3>2. ASSUME NEW i \in DOMAIN bids, NEW j \in DOMAIN asks'
          PROVE  bids[i].price < asks'[j].price
      <4>1. asks'[j].price \in DOMAIN book["SELL"]
        BY <1>0, <3>1, LevelsOfBook DEF Sides
      <4> QED BY <3>1, <4>1 DEF ReadsSafe
    <3>3. SnapshotUncrossed'
      BY <3>1, <3>2 DEF SnapshotUncrossed
    <3> QED BY <3>1, <3>3 DEF ReadsSafe
  <2>2. CASE SendSnapshot
    BY <2>2 DEF SendSnapshot, ReadsSafe, SnapshotUncrossed
  <2> QED BY <1>7, <2>1, <2>2 DEF Snapshot
<1>8. CASE \/ StartAccepting \/ StartGenerator \/ Exit
           \/ \E c \in Clients : acceptConnection(c) \/ removeSession(c)
           \/ generateOrder \/ LoopEnds \/ tryCancel \/ getOrderbook \/ CancelFails
           \/ HandlerNext \/ Signal \/ UNCHANGED procVars
  <2>1. UNCHANGED <<vars, snapVars>>
    BY <1>8 DEF StartAccepting, StartGenerator, Exit, acceptConnection, removeSession,
         generateOrder, LoopEnds, tryCancel, getOrderbook, CancelFails, HandlerNext,
         CloseSessions, StopGenerator, Join, HandlerReturns, Signal, procVars
  <2>2. UNCHANGED <<reading, bids, asks, pc, book>>
    BY <2>1 DEF vars, snapVars
  <2> QED BY <1>1, <2>2
<1> QED BY <1>2, <1>3, <1>4, <1>5, <1>6, <1>7, <1>8 DEF PNext, MainNext, GenNext

----------------------------------------------------------------------------
(* Shutdown.                                                               *)

\* Once main has left run() after a signal nothing moves any more: no handler
\* runs, and the generator's thread is over.
LEMMA ShutdownNext ==
  ASSUME BookInv, Accounts, ReadsSafe, ShutdownOrder, [PNext]_procVars
  PROVE  ShutdownOrder'
<1>1. CASE ClientOrder \/ ClientCancel \/ AddPosted \/ StartSnapshot
  <2>1. phase = "running" /\ phase' = "running" /\ UNCHANGED <<sig, early, gpc, running>>
    BY <1>1 DEF ClientOrder, ClientCancel, AddPosted, StartSnapshot, IoNext, IoFree,
                mainVars, sigVars, genVars
  <2> QED BY <2>1 DEF ShutdownOrder
<1>2. CASE IoStep \/ Snapshot
  <2>1. UNCHANGED <<phase, sig, early, gpc, running>>
    BY <1>2 DEF IoStep, Snapshot, sigVars, genVars
  <2>2. pc[IoThread] # "idle" \/ reading # "no"
    BY <1>2 DEF IoStep, Snapshot, ReadAsks, SendSnapshot, Step, Match, Settle, EndRound,
                TriggerBuy, TriggerSell, NextPrice, NextRound, Unlock, NotifyTrade,
                NotifyUpdate, NotifyIncoming
  <2> QED BY <2>1, <2>2 DEF ShutdownOrder
<1>3. CASE \E c \in Clients : acceptConnection(c) \/ removeSession(c)
  <2>1. UNCHANGED <<phase, sig, early, gpc, running, pc, reading>>
    BY <1>3 DEF acceptConnection, removeSession, sigVars, genVars, vars, snapVars
  <2> QED BY <2>1 DEF ShutdownOrder
<1>4. CASE StartAccepting
  <2>1. /\ phase = "starting" /\ sig \in {"none", "returned"}
        /\ phase' = IF sig = "none" THEN "accepting" ELSE "exited"
        /\ UNCHANGED <<sig, early, gpc, running, pc, reading>>
    BY <1>4 DEF StartAccepting, MainRuns, sigVars, genVars, vars, snapVars
  <2> QED BY <2>1 DEF ShutdownOrder
<1>5. CASE StartGenerator
  <2>1. /\ phase = "accepting" /\ phase' = "running" /\ running' = TRUE
        /\ UNCHANGED <<sig, early>>
    BY <1>5 DEF StartGenerator, sigVars
  <2> QED BY <2>1 DEF ShutdownOrder
<1>6. CASE Exit
  <2>1. /\ phase = "running" /\ phase' = "exited" /\ sig = "returned"
        /\ pc[IoThread] = "idle" /\ reading = "no"
        /\ UNCHANGED <<sig, early, gpc, running, pc, reading>>
    BY <1>6 DEF Exit, IoFree, sigVars, genVars, vars, snapVars
  <2> QED BY <2>1 DEF ShutdownOrder
<1>7. CASE GenNext
  <2>1. UNCHANGED <<phase, sig, early, running>> /\ phase # "exited"
        /\ gpc \notin {"off", "done"}
    BY <1>7 DEF GenNext, generateOrder, LoopEnds, tryCancel, getOrderbook, CancelBegins,
                CancelFails, CancelReturns, mainVars, sigVars
  <2> QED BY <2>1 DEF ShutdownOrder
<1>8. CASE Signal
  <2>1. /\ sig = "none" /\ phase # "exited" /\ sig' = "stop"
        /\ early' = (phase # "running")
        /\ UNCHANGED <<phase, gpc, running>>
    BY <1>8 DEF Signal, mainVars, genVars
  <2> QED BY <2>1 DEF ShutdownOrder
<1>9. CASE HandlerNext
  <2>1. UNCHANGED <<phase, early, gpc>> /\ sig # "returned"
    BY <1>9 DEF HandlerNext, CloseSessions, StopGenerator, Join, HandlerReturns,
                mainVars, genVars
  <2>2. phase # "exited"
    BY <2>1 DEF ShutdownOrder
  <2>3. CASE CloseSessions \/ Join \/ HandlerReturns
    BY <2>1, <2>2, <2>3 DEF ShutdownOrder, CloseSessions, Join, HandlerReturns, genVars
  <2>4. CASE StopGenerator
    <3>1. sig = "generator" /\ sig' = IF running THEN "join" ELSE "sleep"
      BY <2>4 DEF StopGenerator
    <3>2. ~early => running
      BY <2>2, <3>1 DEF ShutdownOrder
    <3> QED BY <2>1, <2>2, <3>1, <3>2 DEF ShutdownOrder
  <2> QED BY <1>9, <2>3, <2>4 DEF HandlerNext
<1>10. CASE UNCHANGED procVars
  <2>1. UNCHANGED <<phase, sig, early, gpc, running, pc, reading>>
    BY <1>10 DEF procVars, mainVars, sigVars, genVars, vars, snapVars
  <2> QED BY <2>1 DEF ShutdownOrder
<1> QED BY <1>1, <1>2, <1>3, <1>4, <1>5, <1>6, <1>7, <1>8, <1>9, <1>10 DEF PNext, MainNext

----------------------------------------------------------------------------
(* The theorems.                                                           *)

LEMMA ProcInit == PInit => BookInv /\ ProcInv
<1> SUFFICES ASSUME PInit PROVE BookInv /\ ProcInv
  OBVIOUS
<1>1. BookInv
  BY BookInit DEF PInit
<1>2. /\ generated = {} /\ posted = <<>> /\ tracked = <<>> /\ gpc = "off"
      /\ cancel_count = 0 /\ running = FALSE /\ early = FALSE
      /\ phase = "starting" /\ sig = "none" /\ reading = "no"
      /\ pc = [t \in Threads |-> "idle"]
      /\ pending_trades = [t \in Threads |-> <<>>]
      /\ pending_order_updates = [t \in Threads |-> <<>>]
  BY DEF PInit, Init, MDInit
<1>3. ProcType
  <2>1. \A S : <<>> \in Seq(S)
    OBVIOUS
  <2>2. posted \in Seq([id : generated, in : GeneratorInputs]) /\ tracked \in Seq(generated)
    BY <1>2, <2>1
  <2> QED BY <1>2, <2>2, FS_EmptySet DEF ProcType
<1>4. PostedOnce /\ PostedUntilAdded /\ LimitsOnly
  BY <1>2 DEF PostedOnce, PostedUntilAdded, LimitsOnly
<1>5. CancelsCounted
  <2>1. CanceledByUs = {}
    BY <1>2 DEF CanceledByUs
  <2>2. Cardinality(CanceledByUs) = 0
    BY <2>1, FS_EmptySet
  <2> QED BY <1>2, <2>2 DEF CancelsCounted
<1>6. GeneratorCalls
  BY <1>2, ThreadsHere DEF GeneratorCalls
<1>7. ReadsSafe /\ SnapshotUncrossed /\ ShutdownOrder
  BY <1>2 DEF ReadsSafe, SnapshotUncrossed, ShutdownOrder
<1> QED BY <1>1, <1>3, <1>4, <1>5, <1>6, <1>7 DEF ProcInv, Accounts

LEMMA ProcNext ==
  BookInv /\ ProcInv /\ [PNext]_procVars => [Next]_vars /\ BookInv' /\ ProcInv'
<1> SUFFICES ASSUME BookInv, ProcInv, [PNext]_procVars
             PROVE  [Next]_vars /\ BookInv' /\ ProcInv'
  OBVIOUS
<1>1. [Next]_vars
  BY ProcessStep DEF ProcInv, Accounts
<1>2. BookInv'
  BY <1>1, BookNext
<1>3. ProcInv'
  BY AccountsNext, ReadsNext, ShutdownNext DEF ProcInv
<1> QED BY <1>1, <1>2, <1>3

LEMMA ProcAlways == PSpec => [](BookInv /\ ProcInv)
  BY ProcInit, ProcNext, PTL DEF PSpec

\* The server process implements the book: whatever main, its signal handler and
\* the generator's thread do to it, bids_, asks_ and the callbacks make only
\* steps of OrderBook, so that everything proved of the book holds here.
THEOREM ProcessImplementsBook == PSpec => Spec
<1>1. PInit => Init
  BY DEF PInit
<1> QED BY <1>1, ProcNext, ProcAlways, PTL DEF PSpec, Spec

\* In particular the exchange the clients and the generator see is the abstract
\* one (addOrder, cancelOrder called from both threads).
THEOREM ProcessImplementsExchange == PSpec => ImplementsExchange
  BY ProcessImplementsBook, BookImplementsExchange, PTL

\* A snapshot that is sent is never crossed although its sides are read in two
\* critical sections (sendOrderbookSnapshots, handleSnapshotRequest).
THEOREM SnapshotsNeverCrossed == PSpec => []SnapshotUncrossed
<1>1. ProcInv => SnapshotUncrossed
  BY DEF ProcInv
<1> QED BY <1>1, ProcAlways, PTL

\* No generated order gets lost between the two threads, and cancel_count_ counts
\* exactly the generator's orders that were canceled (generatorLoop, tryCancel).
THEOREM GeneratorAccounts == PSpec => []GeneratedAccounted
<1>1. ProcInv => GeneratedAccounted
  <2> SUFFICES ASSUME ProcInv PROVE GeneratedAccounted
    OBVIOUS
  <2>1. DOMAIN posted = 1 .. Len(posted)
    BY DEF ProcInv, Accounts, ProcType
  <2>2. Cardinality({id \in generated : order[id].status = "CANCELED"})
            = cancel_count + (IF gpc = "counting" THEN 1 ELSE 0)
    BY DEF ProcInv, Accounts, CancelsCounted, CanceledByUs
  <2> QED BY <2>1, <2>2 DEF ProcInv, Accounts, PostedUntilAdded, GeneratedAccounted
<1> QED BY <1>1, ProcAlways, PTL

\* When main ends after a shutdown from within run() nothing is left half done:
\* the generator's thread is over, no call is under way, every trade has been
\* delivered and every change reported (signal_handler, Server::stop, main).
THEOREM ExitsCleanly == PSpec => []ExitClean
<1>1. BookInv /\ ProcInv => ExitClean
  <2> SUFFICES ASSUME BookInv, ProcInv, phase = "exited", ~early
               PROVE  /\ gpc = "done"
                      /\ \A t \in Threads : pc[t] = "idle"
                      /\ \A id \in Ids : /\ delivered[id] = traded[id]
                                         /\ \/ reported[id] = View(order[id])
                                            \/ Triggered(id)
    BY DEF ExitClean
  <2>1. gpc = "done" /\ pc[IoThread] = "idle"
    BY DEF ProcInv, ShutdownOrder
  <2>2. \A t \in Threads : pc[t] = "idle"
    BY <2>1, GenThreadAssumption DEF ProcInv, Accounts, GeneratorCalls
  <2>3. \A t \in Threads : /\ pending_trades[t] = <<>>
                           /\ pending_order_updates[t] = <<>>
                           /\ incoming[t] = NoId
    BY <2>2 DEF BookInv, ScanInv, ScanSound, OwedInv, ProcInv, Accounts, GeneratorCalls
  <2>4. ASSUME NEW id \in Ids
        PROVE  delivered[id] = traded[id]
    <3>1. Undelivered(id) = {}
      BY <2>3, UndeliveredUnits DEF Holds
    <3>2. traded[id] = delivered[id] + 0 /\ delivered[id] \in Nat
      BY <3>1, FS_EmptySet DEF BookInv, DeliverInv, TradesDelivered, IInv, TypeOK
    <3> QED BY <3>2
  <2>5. ASSUME NEW id \in Ids
        PROVE  reported[id] = View(order[id]) \/ Triggered(id)
    <3>1. ~ReportDue(id)
      BY <2>3, IdsAssumption DEF ReportDue, InQueue
    <3> QED BY <3>1 DEF BookInv, OwedInv, ReportsOwed
  <2> QED BY <2>1, <2>2, <2>4, <2>5
<1> QED BY <1>1, ProcAlways, PTL
=============================================================================
