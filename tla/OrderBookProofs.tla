-------------------------- MODULE OrderBookProofs --------------------------
(***************************************************************************)
(* Safety of the order book for any threads, orders, finite set of prices  *)
(* and inputs.  First, what the operators on price level maps return: the  *)
(* best price of a set, and which orders a map holds after push_back, pop  *)
(* of the front, erase of one order and erase of a level.                  *)
(***************************************************************************)
EXTENDS OrderBook, FiniteSetTheorems, FunctionTheorems, WellFoundedInduction, TLAPS

(***************************************************************************)
(* A finite non-empty set of prices has a lowest and a highest element.    *)
(* Among the sets "elements up to x" there is a smallest one, and its x is *)
(* the lowest price; in the same way for the highest.                      *)
(***************************************************************************)
LEMMA LowestExists ==
  ASSUME NEW S \in SUBSET Prices, S # {}
  PROVE  \E p \in S : \A x \in S : p <= x
<1> DEFINE Upto(x) == {y \in S : y <= x}
           T == {Upto(x) : x \in S}
<1>1. IsFiniteSet(S) /\ S \subseteq Nat
  BY PricesAssumption, FS_Subset
<1>2. T \subseteq FiniteSubsetsOf(S) /\ T # {}
  <2>1. \A x \in S : Upto(x) \in SUBSET S
    OBVIOUS
  <2>2. \A x \in S : IsFiniteSet(Upto(x))
    BY <1>1, <2>1, FS_Subset
  <2> QED BY <2>1, <2>2 DEF FiniteSubsetsOf
<1>3. PICK A \in T : \A B \in T : ~(<<B, A>> \in StrictSubsetOrdering(S))
  <2>1. IsWellFoundedOn(StrictSubsetOrdering(S), FiniteSubsetsOf(S))
    BY FS_StrictSubsetOrderingWellFounded
  <2> HIDE DEF T
  <2> QED BY <2>1, <1>2, WFMin
<1>4. PICK p \in S : A = Upto(p)
  BY DEF T
<1>5. ASSUME NEW x \in S, x < p PROVE FALSE
  <2>1. Upto(x) \subseteq Upto(p)
    <3> SUFFICES ASSUME NEW y \in Upto(x) PROVE y \in Upto(p)
      OBVIOUS
    <3>1. y \in Nat /\ x \in Nat /\ p \in Nat
      BY <1>1
    <3> QED BY <3>1, <1>5
  <2>2. p \in Upto(p) /\ p \notin Upto(x)
    BY <1>1, <1>5
  <2>3. Upto(x) \in SUBSET S /\ Upto(p) \in SUBSET S /\ Upto(x) \in T
    OBVIOUS
  <2> HIDE DEF Upto, T
  <2>4. <<Upto(x), Upto(p)>> \in StrictSubsetOrdering(S)
    BY <2>1, <2>2, <2>3 DEF StrictSubsetOrdering
  <2> QED BY <1>3, <1>4, <2>3, <2>4
<1> QED BY <1>1, <1>5

LEMMA HighestExists ==
  ASSUME NEW S \in SUBSET Prices, S # {}
  PROVE  \E p \in S : \A x \in S : x <= p
<1> DEFINE From(x) == {y \in S : y >= x}
           T == {From(x) : x \in S}
<1>1. IsFiniteSet(S) /\ S \subseteq Nat
  BY PricesAssumption, FS_Subset
<1>2. T \subseteq FiniteSubsetsOf(S) /\ T # {}
  <2>1. \A x \in S : From(x) \in SUBSET S
    OBVIOUS
  <2>2. \A x \in S : IsFiniteSet(From(x))
    BY <1>1, <2>1, FS_Subset
  <2> QED BY <2>1, <2>2 DEF FiniteSubsetsOf
<1>3. PICK A \in T : \A B \in T : ~(<<B, A>> \in StrictSubsetOrdering(S))
  <2>1. IsWellFoundedOn(StrictSubsetOrdering(S), FiniteSubsetsOf(S))
    BY FS_StrictSubsetOrderingWellFounded
  <2> HIDE DEF T
  <2> QED BY <2>1, <1>2, WFMin
<1>4. PICK p \in S : A = From(p)
  BY DEF T
<1>5. ASSUME NEW x \in S, x > p PROVE FALSE
  <2>1. From(x) \subseteq From(p)
    <3> SUFFICES ASSUME NEW y \in From(x) PROVE y \in From(p)
      OBVIOUS
    <3>1. y \in Nat /\ x \in Nat /\ p \in Nat
      BY <1>1
    <3> QED BY <3>1, <1>5
  <2>2. p \in From(p) /\ p \notin From(x)
    BY <1>1, <1>5
  <2>3. From(x) \in SUBSET S /\ From(p) \in SUBSET S /\ From(x) \in T
    OBVIOUS
  <2> HIDE DEF From, T
  <2>4. <<From(x), From(p)>> \in StrictSubsetOrdering(S)
    BY <2>1, <2>2, <2>3 DEF StrictSubsetOrdering
  <2> QED BY <1>3, <1>4, <2>3, <2>4
<1> QED BY <1>1, <1>5

\* The prices chosen by begin() and rbegin() are the extreme ones.
LEMMA ExtremePrices ==
  ASSUME NEW S \in SUBSET Prices, S # {}
  PROVE  /\ Lowest(S) \in S /\ \A x \in S : Lowest(S) <= x
         /\ Highest(S) \in S /\ \A x \in S : x <= Highest(S)
  BY LowestExists, HighestExists DEF Lowest, Highest

----------------------------------------------------------------------------
(* Queues of order ids.                                                    *)

\* Taking the front order off a queue.
LEMMA TailQueue ==
  ASSUME NEW q \in Seq(Ids), q # <<>>, NoRepeat(q)
  PROVE  /\ Head(q) \in Ids /\ Head(q) = q[1] /\ InQueue(q, Head(q))
         /\ Tail(q) \in Seq(Ids) /\ NoRepeat(Tail(q))
         /\ Len(Tail(q)) = Len(q) - 1
         /\ \A i \in 1 .. Len(Tail(q)) : Tail(q)[i] = q[i + 1]
         /\ \A j \in Ids : InQueue(Tail(q), j) <=> InQueue(q, j) /\ j # Head(q)
<1>1. /\ Head(q) = q[1] /\ Head(q) \in Ids /\ Len(q) \in Nat \ {0}
      /\ Tail(q) \in Seq(Ids) /\ Len(Tail(q)) = Len(q) - 1
      /\ \A i \in 1 .. Len(Tail(q)) : Tail(q)[i] = q[i + 1]
  OBVIOUS
<1>2. InQueue(q, Head(q))
  BY <1>1 DEF InQueue
<1>3. NoRepeat(Tail(q))
  BY <1>1 DEF NoRepeat
<1>4. ASSUME NEW j \in Ids, InQueue(Tail(q), j)
      PROVE  InQueue(q, j) /\ j # Head(q)
  BY <1>1, <1>4 DEF InQueue, NoRepeat
<1>5. ASSUME NEW j \in Ids, InQueue(q, j), j # Head(q)
      PROVE  InQueue(Tail(q), j)
  <2>1. PICK i \in 1 .. Len(q) : q[i] = j
    BY <1>5 DEF InQueue
  <2>2. i # 1 /\ i - 1 \in 1 .. Len(Tail(q)) /\ Tail(q)[i - 1] = j
    BY <1>1, <1>5, <2>1
  <2> QED BY <2>2 DEF InQueue
<1> QED BY <1>1, <1>2, <1>3, <1>4, <1>5

\* Joining two queues that share no order.
LEMMA ConcatQueue ==
  ASSUME NEW q \in Seq(Ids), NEW r \in Seq(Ids), NoRepeat(q), NoRepeat(r),
         \A j \in Ids : ~(InQueue(q, j) /\ InQueue(r, j))
  PROVE  /\ q \o r \in Seq(Ids)
         /\ NoRepeat(q \o r)
         /\ \A j \in Ids : InQueue(q \o r, j) <=> InQueue(q, j) \/ InQueue(r, j)
<1>1. /\ q \o r \in Seq(Ids) /\ Len(q \o r) = Len(q) + Len(r)
      /\ \A i \in 1 .. Len(q) + Len(r) :
             (q \o r)[i] = IF i <= Len(q) THEN q[i] ELSE r[i - Len(q)]
      /\ Len(q) \in Nat /\ Len(r) \in Nat
  OBVIOUS
<1>2. ASSUME NEW i \in 1 .. Len(q \o r)
      PROVE  \/ i <= Len(q) /\ i \in 1 .. Len(q) /\ (q \o r)[i] = q[i]
             \/ /\ i > Len(q) /\ i - Len(q) \in 1 .. Len(r)
                /\ (q \o r)[i] = r[i - Len(q)]
  BY <1>1
<1>3. NoRepeat(q \o r)
  <2> SUFFICES ASSUME NEW i \in 1 .. Len(q \o r), NEW k \in 1 .. Len(q \o r),
                      (q \o r)[i] = (q \o r)[k]
               PROVE  i = k
    BY DEF NoRepeat
  <2>1. (q \o r)[i] \in Ids
    BY <1>1
  <2>2. CASE i <= Len(q) /\ k <= Len(q)
    BY <1>1, <1>2, <2>2 DEF NoRepeat
  <2>3. CASE i > Len(q) /\ k > Len(q)
    <3>1. /\ i - Len(q) \in 1 .. Len(r) /\ k - Len(q) \in 1 .. Len(r)
          /\ r[i - Len(q)] = r[k - Len(q)]
      BY <1>1, <1>2, <2>3
    <3>2. i - Len(q) = k - Len(q)
      BY <3>1 DEF NoRepeat
    <3> QED BY <1>1, <3>2
  <2>4. CASE i <= Len(q) /\ k > Len(q)
    BY <1>1, <1>2, <2>1, <2>4 DEF InQueue
  <2>5. CASE i > Len(q) /\ k <= Len(q)
    BY <1>1, <1>2, <2>1, <2>5 DEF InQueue
  <2> QED BY <1>1, <2>2, <2>3, <2>4, <2>5
<1>4. ASSUME NEW j \in Ids, InQueue(q \o r, j) PROVE InQueue(q, j) \/ InQueue(r, j)
  BY <1>2, <1>4 DEF InQueue
<1>5. ASSUME NEW j \in Ids, InQueue(q, j) PROVE InQueue(q \o r, j)
  BY <1>1, <1>5 DEF InQueue
<1>6. ASSUME NEW j \in Ids, InQueue(r, j) PROVE InQueue(q \o r, j)
  <2>1. PICK i \in 1 .. Len(r) : r[i] = j
    BY <1>6 DEF InQueue
  <2>2. i + Len(q) \in 1 .. Len(q \o r) /\ (q \o r)[i + Len(q)] = j
    BY <1>1, <2>1
  <2> QED BY <2>2 DEF InQueue
<1> QED BY <1>1, <1>3, <1>4, <1>5, <1>6

----------------------------------------------------------------------------
(* Level maps.  IsLevelMap(m): prices to queues.  At(m, p, id): order id is *)
(* in the queue of price p.                                                 *)

\* map[p].push_back(id) adds the order at that price and nothing else.
LEMMA PushBackAt ==
  ASSUME NEW m, IsLevelMap(m), NEW p \in Prices, NEW id \in Ids
  PROVE  /\ IsLevelMap(PushBack(m, p, id))
         /\ DOMAIN PushBack(m, p, id) = DOMAIN m \cup {p}
         /\ \A x \in Prices, j \in Ids :
                At(PushBack(m, p, id), x, j) <=> At(m, x, j) \/ (x = p /\ j = id)
         /\ WellFormed(m) /\ ~At(m, p, id) => WellFormed(PushBack(m, p, id))
<1> DEFINE r == PushBack(m, p, id)
<1>1. /\ DOMAIN r = DOMAIN m \cup {p}
      /\ \A x \in DOMAIN m \ {p} : r[x] = m[x]
      /\ r[p] = IF p \in DOMAIN m THEN Append(m[p], id) ELSE <<id>>
      /\ r \in [DOMAIN r -> Seq(Ids)]
  BY DEF PushBack, IsLevelMap
<1>2. IsLevelMap(r)
  BY <1>1 DEF IsLevelMap
<1>3. \A j \in Ids : InQueue(r[p], j) <=> At(m, p, j) \/ j = id
  BY <1>1 DEF InQueue, At, IsLevelMap
<1> HIDE DEF r
<1>4. \A x \in Prices, j \in Ids : At(r, x, j) <=> At(m, x, j) \/ (x = p /\ j = id)
  BY <1>1, <1>3 DEF At
<1>5. ASSUME WellFormed(m), ~At(m, p, id) PROVE WellFormed(r)
  <2>1. r[p] # <<>> /\ NoRepeat(r[p])
    BY <1>1, <1>5 DEF WellFormed, NoRepeat, At, InQueue, IsLevelMap
  <2> QED BY <1>1, <1>5, <2>1 DEF WellFormed
<1> QED BY <1>1, <1>2, <1>4, <1>5 DEF r

\* Erasing a level takes away exactly the orders at its price.
LEMMA EraseLevelAt ==
  ASSUME NEW m, IsLevelMap(m), NEW p
  PROVE  /\ IsLevelMap(EraseLevel(m, p))
         /\ DOMAIN EraseLevel(m, p) = DOMAIN m \ {p}
         /\ \A x, j : At(EraseLevel(m, p), x, j) <=> At(m, x, j) /\ x # p
         /\ WellFormed(m) => WellFormed(EraseLevel(m, p))
  BY DEF EraseLevel, IsLevelMap, At, WellFormed

\* A level that gets a new queue holds the orders of that queue; an empty queue
\* takes the level away.
LEMMA SetLevelAt ==
  ASSUME NEW m, IsLevelMap(m), WellFormed(m), NEW p \in DOMAIN m,
         NEW q \in Seq(Ids), NoRepeat(q)
  PROVE  /\ IsLevelMap(SetLevel(m, p, q))
         /\ WellFormed(SetLevel(m, p, q))
         /\ DOMAIN SetLevel(m, p, q) \subseteq DOMAIN m
         /\ \A x, j : At(SetLevel(m, p, q), x, j) <=>
                IF x = p THEN InQueue(q, j) ELSE At(m, x, j)
<1> DEFINE r == SetLevel(m, p, q)
<1>1. CASE q = <<>>
  <2>1. r = EraseLevel(m, p)
    BY <1>1 DEF SetLevel
  <2>2. \A j : ~InQueue(q, j)
    BY <1>1 DEF InQueue
  <2> HIDE DEF r
  <2>3. /\ IsLevelMap(r) /\ WellFormed(r) /\ DOMAIN r \subseteq DOMAIN m
        /\ \A x, j : At(r, x, j) <=> At(m, x, j) /\ x # p
    BY <2>1, EraseLevelAt
  <2> QED BY <2>2, <2>3 DEF r
<1>2. CASE q # <<>>
  <2>1. /\ DOMAIN r = DOMAIN m /\ r[p] = q
        /\ \A x \in DOMAIN m \ {p} : r[x] = m[x]
        /\ r \in [DOMAIN m -> Seq(Ids)]
    BY <1>2 DEF SetLevel, IsLevelMap
  <2> HIDE DEF r
  <2>2. IsLevelMap(r) /\ WellFormed(r)
    BY <1>2, <2>1 DEF IsLevelMap, WellFormed
  <2>3. \A x, j : At(r, x, j) <=> IF x = p THEN InQueue(q, j) ELSE At(m, x, j)
    BY <2>1 DEF At
  <2> QED BY <2>1, <2>2, <2>3 DEF r
<1> QED BY <1>1, <1>2

\* The front order leaves its level.
LEMMA PopFrontAt ==
  ASSUME NEW m, IsLevelMap(m), WellFormed(m), NEW p \in DOMAIN m
  PROVE  LET r == SetLevel(m, p, Tail(m[p]))
         IN  /\ Head(m[p]) \in Ids
             /\ At(m, p, Head(m[p]))
             /\ IsLevelMap(r)
             /\ WellFormed(r)
             /\ DOMAIN r \subseteq DOMAIN m
             /\ \A x \in Prices, j \in Ids :
                    At(r, x, j) <=> At(m, x, j) /\ ~(x = p /\ j = Head(m[p]))
<1> DEFINE q == m[p]
           r == SetLevel(m, p, Tail(q))
<1>1. q \in Seq(Ids) /\ q # <<>> /\ NoRepeat(q) /\ p \in Prices
  BY DEF IsLevelMap, WellFormed
<1>2. /\ Head(q) \in Ids /\ InQueue(q, Head(q))
      /\ Tail(q) \in Seq(Ids) /\ NoRepeat(Tail(q))
      /\ \A j \in Ids : InQueue(Tail(q), j) <=> InQueue(q, j) /\ j # Head(q)
  BY <1>1, TailQueue
<1>3. At(m, p, Head(q))
  BY <1>2 DEF At
<1>4. /\ IsLevelMap(r) /\ WellFormed(r) /\ DOMAIN r \subseteq DOMAIN m
      /\ \A x, j : At(r, x, j) <=>
             IF x = p THEN InQueue(Tail(q), j) ELSE At(m, x, j)
  <2> HIDE DEF q
  <2> QED BY <1>1, <1>2, SetLevelAt
<1> HIDE DEF r
<1>5. \A x \in Prices, j \in Ids :
          At(r, x, j) <=> At(m, x, j) /\ ~(x = p /\ j = Head(q))
  BY <1>2, <1>4 DEF At
<1> QED BY <1>2, <1>3, <1>4, <1>5 DEF r

\* vector::erase keeps every other order of the queue.
LEMMA EraseAtQueue ==
  ASSUME NEW q \in Seq(Ids), NoRepeat(q), NEW i \in 1 .. Len(q)
  PROVE  /\ EraseAt(q, i) \in Seq(Ids)
         /\ NoRepeat(EraseAt(q, i))
         /\ \A j \in Ids : InQueue(EraseAt(q, i), j) <=> InQueue(q, j) /\ j # q[i]
<1> DEFINE n == Len(q) - 1
           r == EraseAt(q, i)
<1>1. /\ n \in Nat
      /\ r = [k \in 1 .. n |-> IF k < i THEN q[k] ELSE q[k + 1]]
      /\ \A k \in 1 .. n : r[k] = (IF k < i THEN q[k] ELSE q[k + 1]) /\ r[k] \in Ids
  BY DEF EraseAt
<1>2. r \in Seq(Ids) /\ Len(r) = n
  BY <1>1
<1> HIDE DEF r
<1>3. NoRepeat(r)
  BY <1>1, <1>2 DEF NoRepeat
<1>4. ASSUME NEW j \in Ids, InQueue(r, j) PROVE InQueue(q, j) /\ j # q[i]
  BY <1>1, <1>2, <1>4 DEF InQueue, NoRepeat
<1>5. ASSUME NEW j \in Ids, InQueue(q, j), j # q[i] PROVE InQueue(r, j)
  <2>1. PICK k \in 1 .. Len(q) : q[k] = j
    BY <1>5 DEF InQueue
  <2>2. CASE k < i
    BY <1>1, <1>2, <2>1, <2>2 DEF InQueue
  <2>3. CASE k > i
    <3>1. k - 1 \in 1 .. n /\ r[k - 1] = j
      BY <1>1, <2>1, <2>3
    <3> QED BY <1>2, <3>1 DEF InQueue
  <2> QED BY <1>5, <2>1, <2>2, <2>3
<1> QED BY <1>2, <1>3, <1>4, <1>5 DEF r

\* cancelOrder's find and erase take away exactly the one order.
LEMMA EraseFromAt ==
  ASSUME NEW m, IsLevelMap(m), WellFormed(m), NEW p \in Prices, NEW id \in Ids
  PROVE  /\ IsLevelMap(EraseFrom(m, p, id))
         /\ WellFormed(EraseFrom(m, p, id))
         /\ DOMAIN EraseFrom(m, p, id) \subseteq DOMAIN m
         /\ \A x \in Prices, j \in Ids :
                At(EraseFrom(m, p, id), x, j) <=> At(m, x, j) /\ ~(x = p /\ j = id)
<1>1. CASE ~At(m, p, id)
  <2>1. EraseFrom(m, p, id) = m
    BY <1>1 DEF EraseFrom, At, InQueue
  <2> QED BY <1>1, <2>1
<1>2. CASE At(m, p, id)
  <2> DEFINE q == m[p]
             First(i) == q[i] = id /\ \A j \in 1 .. i - 1 : q[j] # id
             i == CHOOSE k \in 1 .. Len(q) : First(k)
  <2>1. p \in DOMAIN m /\ q \in Seq(Ids) /\ NoRepeat(q)
    BY <1>2 DEF At, IsLevelMap, WellFormed
  <2>2. \E k \in 1 .. Len(q) : First(k)
    <3>1. PICK k \in 1 .. Len(q) : q[k] = id
      BY <1>2 DEF At, InQueue
    <3>2. \A j \in 1 .. k - 1 : q[j] # id
      BY <2>1, <3>1 DEF NoRepeat
    <3> QED BY <3>1, <3>2
  <2>3. i \in 1 .. Len(q) /\ q[i] = id
    BY <2>2
  <2>4. EraseFrom(m, p, id) = SetLevel(m, p, EraseAt(q, i))
    BY <1>2 DEF EraseFrom, At, InQueue
  <2> HIDE DEF i, q
  <2>5. /\ EraseAt(q, i) \in Seq(Ids) /\ NoRepeat(EraseAt(q, i))
        /\ \A j \in Ids : InQueue(EraseAt(q, i), j) <=> InQueue(q, j) /\ j # id
    BY <2>1, <2>3, EraseAtQueue
  <2> DEFINE r == SetLevel(m, p, EraseAt(q, i))
  <2>6. /\ IsLevelMap(r) /\ WellFormed(r) /\ DOMAIN r \subseteq DOMAIN m
        /\ \A x, j : At(r, x, j) <=>
               IF x = p THEN InQueue(EraseAt(q, i), j) ELSE At(m, x, j)
    BY <2>1, <2>5, SetLevelAt
  <2> HIDE DEF r
  <2>7. \A x \in Prices, j \in Ids :
            At(r, x, j) <=> At(m, x, j) /\ ~(x = p /\ j = id)
    BY <2>1, <2>5, <2>6 DEF At, q
  <2> QED BY <2>4, <2>6, <2>7 DEF r
<1> QED BY <1>1, <1>2

----------------------------------------------------------------------------
(***************************************************************************)
(* The inductive invariant.  Conservation needs fills that are never       *)
(* refused, hence open makers (BookSound) and open takers (FlightSound);   *)
(* takers come from the stop maps (StopsSound); a half-matched order is    *)
(* hidden from other calls by MutualExclusion.                             *)
(***************************************************************************)
IInv ==
    /\ TypeOK
    /\ MutualExclusion
    /\ BookSound
    /\ StopsSound
    /\ FlightSound
    /\ IndexExact
    /\ Conservation
    /\ Uncrossed

----------------------------------------------------------------------------
(* The operations of an order.                                             *)

LEMMA NewOrderFields ==
  ASSUME NEW in \in Inputs
  PROVE  /\ NewOrder(in) \in Orders
         /\ NewOrder(in).status = "PENDING"
         /\ NewOrder(in).rem = NewOrder(in).qty
  BY InputsAssumption DEF NewOrder, Orders, Statuses

\* A fill of an order that is neither closed nor short of quantity succeeds.
LEMMA FillFields ==
  ASSUME NEW o \in Orders, NEW q \in Nat, q <= o.rem,
         o.status \in {"PENDING", "PARTIAL"}
  PROVE  /\ fill(o, q) \in Orders
         /\ fill(o, q).side = o.side
         /\ fill(o, q).type = o.type
         /\ fill(o, q).price = o.price
         /\ fill(o, q).stop = o.stop
         /\ fill(o, q).qty = o.qty
         /\ fill(o, q).rem = o.rem - q
         /\ fill(o, q).status = IF o.rem = q THEN "FILLED" ELSE "PARTIAL"
<1> DEFINE st == IF o.rem - q = 0 THEN "FILLED" ELSE "PARTIAL"
           r == o.rem - q
<1>1. st \in {"FILLED", "PARTIAL"} /\ r \in Nat /\ (o.rem = q <=> r = 0)
  BY DEF Orders
<1>2. fill(o, q) = [o EXCEPT !.rem = r, !.status = st]
  BY DEF fill, Closed, Orders
<1>3. st = IF o.rem = q THEN "FILLED" ELSE "PARTIAL"
  BY <1>1
<1> HIDE DEF st, r
<1>4. /\ fill(o, q) \in Orders
      /\ fill(o, q).side = o.side
      /\ fill(o, q).type = o.type
      /\ fill(o, q).price = o.price
      /\ fill(o, q).stop = o.stop
      /\ fill(o, q).qty = o.qty
      /\ fill(o, q).rem = r
      /\ fill(o, q).status = st
  BY <1>1, <1>2 DEF Orders, Statuses
<1> QED BY <1>3, <1>4 DEF r

LEMMA CancelFields ==
  ASSUME NEW o \in Orders, o.status \in {"PENDING", "PARTIAL"}
  PROVE  /\ cancel(o) \in Orders
         /\ cancel(o).side = o.side /\ cancel(o).type = o.type
         /\ cancel(o).price = o.price /\ cancel(o).stop = o.stop
         /\ cancel(o).qty = o.qty /\ cancel(o).rem = o.rem
         /\ cancel(o).status = "CANCELED"
  BY DEF cancel, Closed, Orders, Statuses

LEMMA TriggerFields ==
  ASSUME NEW o \in Orders, isStopOrder(o)
  PROVE  /\ trigger(o) \in Orders
         /\ trigger(o).side = o.side /\ trigger(o).price = o.price
         /\ trigger(o).stop = o.stop /\ trigger(o).qty = o.qty
         /\ trigger(o).rem = o.rem /\ trigger(o).status = o.status
         /\ trigger(o).type \in {"MARKET", "LIMIT"}
         /\ ~isStopOrder(trigger(o))
<1>1. o.type \in {"STOP", "STOP_LIMIT"} BY DEF isStopOrder
<1>2. PICK ty \in {"MARKET", "LIMIT"} : trigger(o) = [o EXCEPT !.type = ty]
  <2>1. CASE o.type = "STOP"
    BY <2>1 DEF trigger, Orders
  <2>2. CASE o.type = "STOP_LIMIT"
    BY <2>2 DEF trigger, Orders
  <2> QED BY <1>1, <2>1, <2>2
<1> QED BY <1>2 DEF Orders, OrderTypes, isStopOrder

----------------------------------------------------------------------------
LEMMA InitInv == Init => IInv
<1> SUFFICES ASSUME Init PROVE IInv
  OBVIOUS
<1>1. TypeOK
  <2>1. IsLevelMap(<<>>)
    BY DEF IsLevelMap
  <2> QED BY <2>1, PricesAssumption, ThreadsAssumption
          DEF Init, TypeOK, NoOrder, View, Orders, Views, Sides, OrderTypes,
              Statuses
<1>2. /\ \A s \in Sides : \A p, id : ~At(book[s], p, id) /\ ~At(stops[s], p, id)
      /\ \A id : ~InQueue(todo, id) /\ ~InQueue(triggered, id)
      /\ \A s \in Sides : WellFormed(book[s]) /\ WellFormed(stops[s])
      /\ NoRepeat(todo) /\ NoRepeat(triggered)
      /\ Len(todo) = 0 /\ Len(triggered) = 0
  BY DEF Init, At, InQueue, WellFormed, NoRepeat
<1>3. MutualExclusion
  BY ThreadsAssumption DEF Init, MutualExclusion
<1>4. BookSound /\ StopsSound
  BY <1>2 DEF BookSound, StopsSound
<1>7. FlightSound
  BY <1>2 DEF FlightSound, InFlight
<1>5. IndexExact
  BY <1>2 DEF Init, IndexExact, Resting, Stored, InFlight
<1>6. Conservation /\ Uncrossed
  BY DEF Init, NoOrder, Conservation, Uncrossed, Sides
<1> QED BY <1>1, <1>3, <1>4, <1>5, <1>6, <1>7 DEF IInv

\* An order that has not been created is nowhere when the mutex is free.
LEMMA FreshNowhere ==
  ASSUME IInv, mutex = NoThread, NEW id \in Ids, order[id].status = "NONE"
  PROVE  /\ \A s \in Sides, p \in Prices :
                ~At(book[s], p, id) /\ ~At(stops[s], p, id)
         /\ todo = <<>> /\ triggered = <<>> /\ \A j : ~InFlight(j)
         /\ id \notin orders_by_id
         /\ traded[id] = 0
<1>1. \A s \in Sides, p \in Prices : ~At(book[s], p, id) /\ ~At(stops[s], p, id)
  BY DEF IInv, BookSound, StopsSound, Open
<1>2. todo = <<>> /\ triggered = <<>> /\ \A j : ~InFlight(j)
  BY DEF IInv, MutualExclusion, InFlight, InQueue
<1>3. id \notin orders_by_id
  BY <1>1, <1>2 DEF IInv, IndexExact, Resting, Stored
<1>4. traded[id] = 0
  BY DEF IInv, Conservation, TypeOK, Orders
<1> QED BY <1>1, <1>2, <1>3, <1>4

LEMMA AddStopInv ==
  ASSUME IInv, NEW t \in Threads, NEW id \in Ids, NEW N \in Orders,
         N.status = "PENDING", N.rem = N.qty,
         AddStop(t, id, N)
  PROVE  IInv'
<1>1. /\ order' = [order EXCEPT ![id] = N]
      /\ stops' = [stops EXCEPT ![N.side] = PushBack(@, N.stop, id)]
      /\ orders_by_id' = orders_by_id \cup {id}
      /\ mutex = NoThread /\ pc[t] = "idle"
      /\ pc' = [pc EXCEPT ![t] = "notify"]
      /\ incoming' = [incoming EXCEPT ![t] = id]
      /\ stop_ids' = stop_ids \cup {id}
      /\ isStopOrder(N) /\ N.rem > 0 /\ order[id].status = "NONE"
      /\ UNCHANGED <<book, mutex, todo, mark, prices, triggered, pending_trades,
                     pending_order_updates, arrival, clock, traded, delivered,
                     reported>>
  BY DEF AddStop, Accepts, lockVars
<1>2. /\ N.side \in Sides /\ N.stop \in Prices
      /\ N \in Orders
      /\ N.status = "PENDING" /\ N.rem = N.qty
  BY DEF Orders
<1>3. /\ \A s \in Sides, p \in Prices :
             ~At(book[s], p, id) /\ ~At(stops[s], p, id)
      /\ todo = <<>> /\ triggered = <<>> /\ \A j : ~InFlight(j)
      /\ traded[id] = 0
  BY <1>1, FreshNowhere
<1>4. /\ TypeOK
      /\ \A s \in Sides : IsLevelMap(stops[s]) /\ WellFormed(stops[s])
  BY DEF IInv, TypeOK, StopsSound
<1>5. /\ order'[id] = N
      /\ \A j \in Ids \ {id} : order'[j] = order[j]
  BY <1>1, <1>4 DEF TypeOK
<1>6. /\ \A s \in Sides : IsLevelMap(stops'[s]) /\ WellFormed(stops'[s])
      /\ \A s \in Sides, p \in Prices, j \in Ids :
             At(stops'[s], p, j) <=>
                 At(stops[s], p, j) \/ (s = N.side /\ p = N.stop /\ j = id)
      /\ DOMAIN stops' = Sides
  <2>1. /\ stops'[N.side] = PushBack(stops[N.side], N.stop, id)
        /\ \A s \in Sides \ {N.side} : stops'[s] = stops[s]
        /\ DOMAIN stops' = Sides
    BY <1>1, <1>2, <1>4 DEF TypeOK
  <2>2. /\ IsLevelMap(stops'[N.side]) /\ WellFormed(stops'[N.side])
        /\ \A p \in Prices, j \in Ids : At(stops'[N.side], p, j) <=>
               At(stops[N.side], p, j) \/ (p = N.stop /\ j = id)
    <3> DEFINE m == stops[N.side]
    <3>1. IsLevelMap(m) /\ WellFormed(m) /\ ~At(m, N.stop, id)
      BY <1>2, <1>3, <1>4
    <3> HIDE DEF m
    <3>2. /\ IsLevelMap(PushBack(m, N.stop, id))
          /\ WellFormed(PushBack(m, N.stop, id))
          /\ \A p \in Prices, j \in Ids : At(PushBack(m, N.stop, id), p, j) <=>
                 At(m, p, j) \/ (p = N.stop /\ j = id)
      BY <1>2, <3>1, PushBackAt
    <3> QED BY <2>1, <3>2 DEF m
  <2> QED BY <1>4, <2>1, <2>2
<1>7. TypeOK'
  BY <1>1, <1>2, <1>4, <1>6 DEF TypeOK
<1>8. MutualExclusion'
  BY <1>1, <1>4, ThreadsAssumption DEF IInv, MutualExclusion, TypeOK
<1>9. BookSound'
  BY <1>1, <1>3, <1>5 DEF IInv, BookSound
<1>10. StopsSound'
  BY <1>1, <1>2, <1>3, <1>5, <1>6 DEF IInv, StopsSound, Open
<1>11. FlightSound'
  BY <1>1, <1>3 DEF IInv, FlightSound, InFlight, InQueue
<1>12. IndexExact'
  BY <1>1, <1>2, <1>6 DEF IInv, IndexExact, Resting, Stored, InFlight
<1>13. Conservation' /\ Uncrossed'
  BY <1>1, <1>2, <1>3, <1>5, <1>4 DEF IInv, Conservation, Uncrossed, TypeOK, Orders
<1> QED BY <1>7, <1>8, <1>9, <1>10, <1>11, <1>12, <1>13 DEF IInv

LEMMA AddPlainInv ==
  ASSUME IInv, NEW t \in Threads, NEW id \in Ids, NEW N \in Orders,
         N.status \in {"PENDING", "PARTIAL"}, N.rem = N.qty,
         AddPlain(t, id, N)
  PROVE  IInv'
<1>1. /\ order' = [order EXCEPT ![id] = N]
      /\ orders_by_id' = orders_by_id \cup {id}
      /\ mutex = NoThread /\ mutex' = t /\ pc[t] = "idle"
      /\ pc' = [pc EXCEPT ![t] = "match"]
      /\ todo' = <<id>> /\ mark' = 0
      /\ incoming' = [incoming EXCEPT ![t] = id]
      /\ ~isStopOrder(N) /\ N.rem > 0 /\ order[id].status = "NONE"
      /\ UNCHANGED <<book, stops, prices, triggered, pending_trades,
                     pending_order_updates, arrival, clock, traded, delivered,
                     reported, stop_ids>>
  BY DEF AddPlain, Accepts, history
<1>2. /\ N \in Orders /\ N.status \in {"PENDING", "PARTIAL"} /\ N.rem = N.qty
  OBVIOUS
<1>3. /\ \A s \in Sides, p \in Prices :
             ~At(book[s], p, id) /\ ~At(stops[s], p, id)
      /\ todo = <<>> /\ triggered = <<>> /\ \A j : ~InFlight(j)
      /\ traded[id] = 0
  BY <1>1, FreshNowhere
<1>4. TypeOK
  BY DEF IInv
<1>5. /\ order'[id] = N
      /\ \A j \in Ids \ {id} : order'[j] = order[j]
  BY <1>1, <1>4 DEF TypeOK
<1>6. /\ todo' \in Seq(Ids) /\ Len(todo') = 1 /\ todo'[1] = id
      /\ \A j : InQueue(todo', j) <=> j = id
      /\ \A j : ~InQueue(triggered', j)
      /\ Len(triggered') = 0 /\ NoRepeat(todo') /\ NoRepeat(triggered')
  BY <1>1, <1>3 DEF InQueue, NoRepeat
<1>7. TypeOK'
  BY <1>1, <1>2, <1>4, <1>6 DEF TypeOK
<1>8. MutualExclusion'
  BY <1>1, <1>3, <1>4, ThreadsAssumption DEF IInv, MutualExclusion, TypeOK
<1>9. BookSound'
  BY <1>1, <1>3, <1>5 DEF IInv, BookSound
<1>10. StopsSound'
  BY <1>1, <1>3, <1>5 DEF IInv, StopsSound
<1>11. FlightSound'
  <2>1. \A j \in Ids : InFlight(j)' => j = id
    BY <1>6 DEF InFlight
  <2>2. ~Resting(id)' /\ ~Stored(id)' /\ ~isStopOrder(order'[id])
    BY <1>1, <1>3, <1>5 DEF Resting, Stored
  <2>3. Open(order'[id])
    BY <1>1, <1>2, <1>5 DEF Open
  <2> QED BY <1>6, <2>1, <2>2, <2>3 DEF FlightSound
<1>12. IndexExact'
  BY <1>1, <1>3, <1>6 DEF IInv, IndexExact, Resting, Stored, InFlight
<1>13. Conservation' /\ Uncrossed'
  BY <1>1, <1>2, <1>3, <1>5, <1>4 DEF IInv, Conservation, Uncrossed, TypeOK, Orders
<1> QED BY <1>7, <1>8, <1>9, <1>10, <1>11, <1>12, <1>13 DEF IInv

(***************************************************************************)
(* Steps that leave the orders, the maps and the order of the round alone. *)
(***************************************************************************)
LEMMA SameBookInv ==
  ASSUME IInv, TypeOK', MutualExclusion',
         UNCHANGED <<order, orders_by_id, book, stops, todo, triggered, traded>>
  PROVE  IInv'
<1>1. BookSound' /\ StopsSound'
  BY DEF IInv, BookSound, StopsSound
<1>2. IndexExact'
  BY DEF IInv, IndexExact, Resting, Stored, InFlight
<1>3. FlightSound'
  BY DEF IInv, FlightSound, Resting, Stored, InFlight
<1>4. Conservation' /\ Uncrossed'
  BY DEF IInv, Conservation, Uncrossed
<1> QED BY <1>1, <1>2, <1>3, <1>4 DEF IInv

LEMMA EndRoundInv ==
  ASSUME IInv, NEW t \in Threads, EndRound(t)
  PROVE  IInv'
<1>1. TypeOK'
  <2>1. pending_trades[t] \in Seq(Trades) /\ mark \in Nat
    BY DEF IInv, TypeOK
  <2>2. ASSUME NEW k \in mark + 1 .. Len(pending_trades[t])
        PROVE  pending_trades[t][k].price \in Prices
    <3>1. pending_trades[t][k] \in Trades
      BY <2>1
    <3> QED BY <3>1 DEF Trades
  <2>3. prices' \subseteq Prices
    BY <2>2 DEF EndRound
  <2> QED BY <2>3 DEF IInv, TypeOK, EndRound, callVars, history
<1>2. MutualExclusion'
  BY ThreadsAssumption DEF IInv, MutualExclusion, TypeOK, EndRound
<1> QED BY <1>1, <1>2, SameBookInv DEF EndRound, history

LEMMA NextPriceInv ==
  ASSUME IInv, NEW t \in Threads, NextPrice(t)
  PROVE  IInv'
<1>1. TypeOK'
  BY DEF IInv, TypeOK, NextPrice, callVars, history
<1>2. MutualExclusion'
  BY ThreadsAssumption DEF IInv, MutualExclusion, TypeOK, NextPrice
<1> QED BY <1>1, <1>2, SameBookInv DEF NextPrice, history

LEMMA UnlockInv ==
  ASSUME IInv, NEW t \in Threads, Unlock(t)
  PROVE  IInv'
<1>1. TypeOK'
  BY DEF IInv, TypeOK, Unlock, callVars, history
<1>2. MutualExclusion'
  BY ThreadsAssumption DEF IInv, MutualExclusion, TypeOK, Unlock
<1> QED BY <1>1, <1>2, SameBookInv DEF Unlock, history

LEMMA NotifyInv ==
  ASSUME IInv, NEW t \in Threads,
         NotifyTrade(t) \/ NotifyUpdate(t) \/ NotifyIncoming(t)
  PROVE  IInv'
<1> DEFINE Same == UNCHANGED <<order, orders_by_id, book, stops, mutex, todo,
                               mark, prices, triggered, arrival, clock, traded,
                               stop_ids>>
<1>1. CASE NotifyTrade(t)
  <2> DEFINE trade == Head(pending_trades[t])
  <2>1. pending_trades[t] \in Seq(Trades) /\ pending_trades[t] # <<>>
    BY <1>1 DEF IInv, TypeOK, NotifyTrade
  <2>2. trade \in Trades /\ Tail(pending_trades[t]) \in Seq(Trades)
    BY <2>1
  <2>3. delivered' \in [Ids -> Nat]
    <3>1. trade.buy \in Ids /\ trade.sell \in Ids /\ trade.qty \in Nat
      BY <2>2 DEF Trades
    <3>2. delivered \in [Ids -> Nat]
      BY DEF IInv, TypeOK
    <3>3. delivered' = [delivered EXCEPT ![trade.buy] = @ + trade.qty,
                                         ![trade.sell] = @ + trade.qty]
      BY <1>1 DEF NotifyTrade
    <3> HIDE DEF trade
    <3> QED BY <3>1, <3>2, <3>3
  <2>4. Same /\ UNCHANGED <<pc, pending_order_updates, incoming, reported>>
    BY <1>1 DEF NotifyTrade, lockVars
  <2>5. pending_trades' \in [Threads -> Seq(Trades)]
    BY <1>1, <2>2 DEF IInv, TypeOK, NotifyTrade
  <2>6. TypeOK' /\ MutualExclusion'
    BY <2>3, <2>4, <2>5 DEF IInv, TypeOK, MutualExclusion
  <2> QED BY <2>4, <2>6, SameBookInv
<1>2. ASSUME NEW id \in Ids PROVE View(order[id]) \in Views
  BY DEF IInv, TypeOK, View, Views, Orders
<1>3. CASE NotifyUpdate(t)
  <2>1. Same /\ UNCHANGED <<pc, pending_trades, incoming, delivered>>
    BY <1>3 DEF NotifyUpdate, lockVars
  <2>2. /\ Head(pending_order_updates[t]) \in Ids
        /\ Tail(pending_order_updates[t]) \in Seq(Ids)
    BY <1>3 DEF IInv, TypeOK, NotifyUpdate
  <2>3. reported' \in [Ids -> Views]
    BY <1>2, <1>3, <2>2 DEF IInv, TypeOK, NotifyUpdate
  <2>4. pending_order_updates' \in [Threads -> Seq(Ids)]
    BY <1>3, <2>2 DEF IInv, TypeOK, NotifyUpdate
  <2>5. TypeOK' /\ MutualExclusion'
    BY <2>1, <2>3, <2>4 DEF IInv, TypeOK, MutualExclusion
  <2> QED BY <2>1, <2>5, SameBookInv
<1>4. CASE NotifyIncoming(t)
  <2>1. Same /\ UNCHANGED <<pending_trades, pending_order_updates, delivered>>
    BY <1>4 DEF NotifyIncoming, lockVars
  <2>2. reported' \in [Ids -> Views]
    BY <1>2, <1>4 DEF IInv, TypeOK, NotifyIncoming
  <2>3. TypeOK'
    BY <1>4, <2>1, <2>2 DEF IInv, TypeOK, NotifyIncoming
  <2>4. MutualExclusion'
    BY <1>4, <2>1 DEF IInv, TypeOK, MutualExclusion, NotifyIncoming
  <2> QED BY <2>1, <2>3, <2>4, SameBookInv
<1> QED BY <1>1, <1>3, <1>4

\* The triggered orders become the round: what was in flight stays in flight.
LEMMA NextRoundInv ==
  ASSUME IInv, NEW t \in Threads, NextRound(t)
  PROVE  IInv'
<1>1. /\ todo = <<>> /\ prices = {} /\ mutex = t
      /\ todo' = triggered /\ triggered' = <<>>
      /\ UNCHANGED <<order, orders_by_id, book, stops, mutex, prices, traded>>
  BY DEF IInv, MutualExclusion, NextRound, history
<1>2. TypeOK'
  BY DEF IInv, TypeOK, NextRound, callVars, history
<1>3. MutualExclusion'
  BY <1>1, ThreadsAssumption DEF IInv, MutualExclusion, TypeOK, NextRound
<1>4. \A j : InFlight(j)' <=> InFlight(j)
  BY <1>1 DEF InFlight, InQueue
<1>5. BookSound' /\ StopsSound'
  BY <1>1 DEF IInv, BookSound, StopsSound
<1>6. IndexExact'
  BY <1>1, <1>4 DEF IInv, IndexExact, Resting, Stored
<1>7. FlightSound'
  BY <1>1, <1>4 DEF IInv, FlightSound, Resting, Stored, NoRepeat
<1>8. Conservation' /\ Uncrossed'
  BY <1>1 DEF IInv, Conservation, Uncrossed
<1> QED BY <1>2, <1>3, <1>5, <1>6, <1>7, <1>8 DEF IInv

LEMMA CancelOrderInv ==
  ASSUME IInv, NEW t \in Threads, NEW id \in Ids, CancelOrder(t, id)
  PROVE  IInv'
<1> DEFINE o == order[id]
           C == cancel(o)
<1>1. /\ mutex = NoThread /\ pc[t] = "idle" /\ id \in orders_by_id
      /\ o.status \notin Closed
      /\ order' = [order EXCEPT ![id] = C]
      /\ orders_by_id' = orders_by_id \ {id}
      /\ IF isStopOrder(o)
         THEN /\ stops' = [stops EXCEPT ![o.side] = EraseFrom(@, o.stop, id)]
              /\ UNCHANGED book
         ELSE /\ book' = [book EXCEPT ![o.side] = EraseFrom(@, o.price, id)]
              /\ UNCHANGED stops
      /\ incoming' = [incoming EXCEPT ![t] = id]
      /\ pc' = [pc EXCEPT ![t] = "notify"]
      /\ UNCHANGED <<mutex, todo, mark, prices, triggered, pending_trades,
                     pending_order_updates, arrival, clock, traded, delivered,
                     reported, stop_ids>>
  BY DEF CancelOrder, lockVars, history
<1>2. /\ TypeOK /\ o \in Orders /\ o.side \in Sides
      /\ o.price \in Prices /\ o.stop \in Prices
      /\ \A s \in Sides : /\ IsLevelMap(stops[s]) /\ WellFormed(stops[s])
                          /\ IsLevelMap(book[s]) /\ WellFormed(book[s])
  <2>1. TypeOK /\ BookSound /\ StopsSound
    BY DEF IInv
  <2>2. o \in Orders /\ \A s \in Sides : IsLevelMap(stops[s]) /\ IsLevelMap(book[s])
    BY <2>1 DEF TypeOK
  <2>3. o.side \in Sides /\ o.price \in Prices /\ o.stop \in Prices
    BY <2>2 DEF Orders
  <2>4. \A s \in Sides : WellFormed(stops[s]) /\ WellFormed(book[s])
    BY <2>1 DEF StopsSound, BookSound
  <2> QED BY <2>1, <2>2, <2>3, <2>4
<1>3. todo = <<>> /\ triggered = <<>> /\ \A j : ~InFlight(j)
  BY <1>1 DEF IInv, MutualExclusion, InFlight, InQueue
<1>4. Resting(id) \/ Stored(id)
  BY <1>1, <1>3 DEF IInv, IndexExact
<1>5. o.status \in {"PENDING", "PARTIAL"}
  BY <1>4 DEF IInv, Resting, Stored, BookSound, StopsSound, Open
<1>6. /\ C \in Orders /\ C.qty = o.qty /\ C.rem = o.rem /\ C.status = "CANCELED"
  BY <1>2, <1>5, CancelFields
<1>7. /\ order'[id] = C
      /\ \A j \in Ids \ {id} : order'[j] = order[j]
  BY <1>1, <1>2 DEF TypeOK
<1> HIDE DEF C
<1>8. /\ \A s \in Sides, p \in Prices, j \in Ids :
             At(stops'[s], p, j) <=> At(stops[s], p, j) /\ j # id
      /\ \A s \in Sides : IsLevelMap(stops'[s]) /\ WellFormed(stops'[s])
      /\ DOMAIN stops' = Sides
  <2>1. CASE isStopOrder(o)
    <3> DEFINE m == stops[o.side]
               r == EraseFrom(m, o.stop, id)
    <3>1. IsLevelMap(m) /\ WellFormed(m)
      BY <1>2
    <3>2. /\ stops'[o.side] = r /\ DOMAIN stops' = Sides
          /\ \A s \in Sides \ {o.side} : stops'[s] = stops[s]
      BY <1>1, <1>2, <2>1 DEF TypeOK
    <3>3. \A s \in Sides, p \in Prices :
              At(stops[s], p, id) => s = o.side /\ p = o.stop
      BY DEF IInv, StopsSound
    <3> HIDE DEF m, o
    <3>4. /\ IsLevelMap(r) /\ WellFormed(r)
          /\ \A x \in Prices, j \in Ids :
                 At(r, x, j) <=> At(m, x, j) /\ ~(x = o.stop /\ j = id)
      BY <1>2, <3>1, EraseFromAt
    <3> HIDE DEF r
    <3> QED BY <1>2, <3>2, <3>3, <3>4 DEF m
  <2>2. CASE ~isStopOrder(o)
    <3>1. \A s \in Sides, p \in Prices : ~At(stops[s], p, id)
      BY <2>2 DEF IInv, StopsSound
    <3>2. stops' = stops
      BY <1>1, <2>2
    <3> QED BY <1>2, <3>1, <3>2 DEF TypeOK
  <2> QED BY <2>1, <2>2
<1>9. /\ \A s \in Sides, p \in Prices, j \in Ids :
             At(book'[s], p, j) <=> At(book[s], p, j) /\ j # id
      /\ \A s \in Sides : /\ IsLevelMap(book'[s]) /\ WellFormed(book'[s])
                          /\ DOMAIN book'[s] \subseteq DOMAIN book[s]
      /\ DOMAIN book' = Sides
  <2>1. CASE ~isStopOrder(o)
    <3> DEFINE m == book[o.side]
               r == EraseFrom(m, o.price, id)
    <3>1. IsLevelMap(m) /\ WellFormed(m)
      BY <1>2
    <3>2. /\ book'[o.side] = r /\ DOMAIN book' = Sides
          /\ \A s \in Sides \ {o.side} : book'[s] = book[s]
      BY <1>1, <1>2, <2>1 DEF TypeOK
    <3>3. \A s \in Sides, p \in Prices :
              At(book[s], p, id) => s = o.side /\ p = o.price
      BY DEF IInv, BookSound
    <3> HIDE DEF m, o
    <3>4. /\ IsLevelMap(r) /\ WellFormed(r) /\ DOMAIN r \subseteq DOMAIN m
          /\ \A x \in Prices, j \in Ids :
                 At(r, x, j) <=> At(m, x, j) /\ ~(x = o.price /\ j = id)
      BY <1>2, <3>1, EraseFromAt
    <3> HIDE DEF r
    <3> QED BY <1>2, <3>2, <3>3, <3>4 DEF m
  <2>2. CASE isStopOrder(o)
    <3>1. \A s \in Sides, p \in Prices : ~At(book[s], p, id)
      BY <2>2 DEF IInv, BookSound, isStopOrder
    <3>2. book' = book
      BY <1>1, <2>2
    <3> QED BY <1>2, <3>1, <3>2 DEF TypeOK
  <2> QED BY <2>1, <2>2
<1> HIDE DEF o
<1>10. TypeOK'
  BY <1>1, <1>2, <1>6, <1>8, <1>9 DEF TypeOK
<1>11. MutualExclusion'
  BY <1>1, <1>2, ThreadsAssumption DEF IInv, MutualExclusion, TypeOK
<1>12. BookSound'
  BY <1>7, <1>9 DEF IInv, BookSound
<1>13. StopsSound'
  BY <1>7, <1>8 DEF IInv, StopsSound
<1>14. FlightSound'
  BY <1>1, <1>3 DEF IInv, FlightSound, InFlight, InQueue
<1>15. IndexExact'
  BY <1>1, <1>3, <1>8, <1>9 DEF IInv, IndexExact, Resting, Stored, InFlight
<1>16. Conservation'
  BY <1>1, <1>6, <1>7 DEF IInv, Conservation, o
<1>17. Uncrossed'
  BY <1>9 DEF IInv, Uncrossed, Sides
<1> QED BY <1>10, <1>11, <1>12, <1>13, <1>14, <1>15, <1>16, <1>17 DEF IInv

(***************************************************************************)
(* The scan triggers one level: its orders leave the stop map and join the *)
(* orders in flight.                                                       *)
(***************************************************************************)
LEMMA TriggerLevelInv ==
  ASSUME IInv, NEW t \in Threads, pc[t] = "scan",
         NEW side \in Sides, NEW p \in DOMAIN stops[side],
         TriggerLevel(side, p),
         UNCHANGED <<orders_by_id, book, mutex, pc, todo, mark, prices, callVars,
                     history>>
  PROVE  IInv'
<1> DEFINE q == stops[side][p]
<1>1. /\ order' = [i \in Ids |-> IF InQueue(q, i) THEN trigger(order[i])
                                                 ELSE order[i]]
      /\ triggered' = triggered \o q
      /\ stops' = [stops EXCEPT ![side] = EraseLevel(@, p)]
      /\ UNCHANGED <<orders_by_id, book, mutex, pc, todo, mark, prices,
                     pending_trades, pending_order_updates, incoming, arrival,
                     clock, traded, delivered, reported, stop_ids>>
  BY DEF TriggerLevel, callVars, history
<1>2. /\ TypeOK /\ p \in Prices /\ q \in Seq(Ids) /\ NoRepeat(q)
      /\ \A s \in Sides : IsLevelMap(stops[s]) /\ WellFormed(stops[s])
      /\ triggered \in Seq(Ids)
  BY DEF IInv, TypeOK, StopsSound, WellFormed, IsLevelMap
<1>3. todo = <<>> /\ mutex = t
  BY DEF IInv, MutualExclusion
<1>4. \A j \in Ids : InQueue(q, j) <=> At(stops[side], p, j)
  BY DEF At
<1>5. \A j \in Ids : InQueue(q, j) =>
          /\ isStopOrder(order[j]) /\ Open(order[j]) /\ order[j].stop = p
          /\ order[j].side = side
  BY <1>2, <1>4 DEF IInv, StopsSound
<1> HIDE DEF q
<1>6. \A j \in Ids : InQueue(q, j) =>
          /\ order'[j] \in Orders /\ ~isStopOrder(order'[j])
          /\ order'[j].rem = order[j].rem /\ order'[j].qty = order[j].qty
          /\ order'[j].status = order[j].status
          /\ Open(order'[j])
  BY <1>1, <1>2, <1>5, TriggerFields DEF TypeOK, Open
<1>7. \A j \in Ids : ~InQueue(q, j) => order'[j] = order[j]
  BY <1>1
<1>8. /\ \A s \in Sides : IsLevelMap(stops'[s]) /\ WellFormed(stops'[s])
      /\ \A s \in Sides, x \in Prices, j \in Ids :
             At(stops'[s], x, j) <=> At(stops[s], x, j) /\ ~InQueue(q, j)
      /\ DOMAIN stops' = Sides
  <2> DEFINE m == stops[side]
             r == EraseLevel(m, p)
  <2>1. /\ stops'[side] = r /\ DOMAIN stops' = Sides
        /\ \A s \in Sides \ {side} : stops'[s] = stops[s]
    BY <1>1, <1>2 DEF TypeOK
  <2>2. IsLevelMap(m) /\ WellFormed(m)
    BY <1>2
  <2> HIDE DEF m
  <2>3. /\ IsLevelMap(r) /\ WellFormed(r)
        /\ \A x, j : At(r, x, j) <=> At(m, x, j) /\ x # p
    BY <2>2, EraseLevelAt
  <2> HIDE DEF r
  <2>4. \A s \in Sides, x \in Prices, j \in Ids :
            At(stops[s], x, j) => (InQueue(q, j) <=> s = side /\ x = p)
    BY <1>4, <1>5 DEF IInv, StopsSound
  <2> QED BY <1>2, <2>1, <2>3, <2>4 DEF m
<1>9. /\ triggered' \in Seq(Ids) /\ NoRepeat(triggered')
      /\ \A j \in Ids : InQueue(triggered', j) <=>
                             InQueue(triggered, j) \/ InQueue(q, j)
  <2>1. \A j \in Ids : ~(InQueue(triggered, j) /\ InQueue(q, j))
    BY <1>5 DEF IInv, FlightSound, InFlight
  <2>2. NoRepeat(triggered)
    BY DEF IInv, FlightSound
  <2> QED BY <1>1, <1>2, <2>1, <2>2, ConcatQueue
<1>10. TypeOK'
  <2>1. order' \in [Ids -> Orders]
    BY <1>1, <1>2, <1>6, <1>7 DEF TypeOK
  <2> QED BY <1>1, <1>2, <1>8, <1>9, <2>1 DEF TypeOK
<1>11. MutualExclusion'
  BY <1>1, <1>3, ThreadsAssumption DEF IInv, MutualExclusion
<1>12. BookSound'
  <2>1. \A s \in Sides, x \in Prices, j \in Ids :
            At(book[s], x, j) => ~InQueue(q, j)
    BY <1>5 DEF IInv, BookSound, isStopOrder
  <2> QED BY <1>1, <1>7, <2>1 DEF IInv, BookSound
<1>13. StopsSound'
  BY <1>7, <1>8 DEF IInv, StopsSound
<1>14. FlightSound'
  <2>1. NoRepeat(todo') /\ NoRepeat(triggered') /\ Len(todo') = 0
    BY <1>1, <1>3, <1>9 DEF IInv, FlightSound
  <2>2. ASSUME NEW j \in Ids, InFlight(j)'
        PROVE  ~isStopOrder(order'[j]) /\ ~Resting(j)' /\ ~Stored(j)'
    <3>1. InFlight(j) \/ InQueue(q, j)
      BY <1>1, <1>9, <2>2 DEF InFlight
    <3>2. CASE InQueue(q, j)
      <4>1. ~Stored(j)'
        BY <1>8, <3>2 DEF Stored
      <4>2. ~Resting(j)'
        BY <1>1, <1>5, <3>2 DEF Resting, IInv, BookSound, isStopOrder
      <4> QED BY <1>6, <3>2, <4>1, <4>2
    <3>3. CASE InFlight(j) /\ ~InQueue(q, j)
      BY <1>1, <1>7, <1>8, <3>3 DEF IInv, FlightSound, Resting, Stored
    <3> QED BY <3>1, <3>2, <3>3
  <2>3. \A j \in Ids : InQueue(triggered, j) => Open(order[j])
    BY <1>2 DEF IInv, FlightSound, InQueue
  <2>4. ASSUME NEW i \in 1 .. Len(triggered') PROVE Open(order[triggered[i]])'
    <3>1. triggered'[i] \in Ids /\ InQueue(triggered', triggered'[i])
      BY <1>9 DEF InQueue
    <3> QED BY <1>6, <1>7, <1>9, <2>3, <3>1
  <2> QED BY <2>1, <2>2, <2>4 DEF FlightSound
<1>15. IndexExact'
  <2>1. \A j \in Ids : Resting(j)' <=> Resting(j)
    BY <1>1 DEF Resting
  <2>2. \A j \in Ids : Stored(j)' <=> Stored(j) /\ ~InQueue(q, j)
    BY <1>8 DEF Stored
  <2>3. \A j \in Ids : InQueue(q, j) => Stored(j)
    BY <1>2, <1>4 DEF Stored
  <2>4. \A j \in Ids : InFlight(j)' <=> InFlight(j) \/ InQueue(q, j)
    BY <1>1, <1>9 DEF InFlight
  <2> QED BY <1>1, <2>1, <2>2, <2>3, <2>4 DEF IInv, IndexExact
<1>16. Conservation'
  BY <1>1, <1>6, <1>7 DEF IInv, Conservation
<1>17. Uncrossed'
  BY <1>1 DEF IInv, Uncrossed
<1> QED BY <1>10, <1>11, <1>12, <1>13, <1>14, <1>15, <1>16, <1>17 DEF IInv

LEMMA TriggerInv ==
  ASSUME IInv, NEW t \in Threads, TriggerBuy(t) \/ TriggerSell(t)
  PROVE  IInv'
<1>1. prices \subseteq Prices /\ \A s \in Sides : DOMAIN stops[s] \subseteq Prices
  BY DEF IInv, TypeOK, IsLevelMap
<1>2. "BUY" \in Sides /\ "SELL" \in Sides
  BY DEF Sides
<1>3. CASE TriggerBuy(t)
  <2> DEFINE S == CrossedBy("BUY", Lowest(prices))
  <2>1. S # {} /\ S \subseteq DOMAIN stops["BUY"] /\ TriggerLevel("BUY", Lowest(S))
    BY <1>3 DEF TriggerBuy, CrossedBy
  <2> HIDE DEF S
  <2>2. Lowest(S) \in DOMAIN stops["BUY"]
    BY <1>1, <1>2, <2>1, ExtremePrices
  <2> QED BY <1>2, <1>3, <2>1, <2>2, TriggerLevelInv DEF TriggerBuy
<1>4. CASE TriggerSell(t)
  <2> DEFINE S == CrossedBy("SELL", Lowest(prices))
  <2>1. S # {} /\ S \subseteq DOMAIN stops["SELL"] /\ TriggerLevel("SELL", Highest(S))
    BY <1>4 DEF TriggerSell, CrossedBy
  <2> HIDE DEF S
  <2>2. Highest(S) \in DOMAIN stops["SELL"]
    BY <1>1, <1>2, <2>1, ExtremePrices
  <2> QED BY <1>2, <1>4, <2>1, <2>2, TriggerLevelInv DEF TriggerSell
<1> QED BY <1>3, <1>4

(***************************************************************************)
(* The head of the round is settled: it leaves the orders in flight, and   *)
(* is canceled, joins the book, or was filled.                             *)
(***************************************************************************)
LEMMA TodoHead ==
  ASSUME IInv, NEW t \in Threads, pc[t] = "match", todo # <<>>
  PROVE  /\ Head(todo) \in Ids /\ order[Head(todo)] \in Orders
         /\ mutex = t /\ triggered = <<>> /\ prices = {}
         /\ InFlight(Head(todo))
         /\ \A s \in Sides, p \in Prices : /\ ~At(book[s], p, Head(todo))
                                           /\ ~At(stops[s], p, Head(todo))
         /\ order[Head(todo)].type \in {"LIMIT", "MARKET"}
         /\ \/ Open(order[Head(todo)])
            \/ order[Head(todo)].status = "FILLED" /\ order[Head(todo)].rem = 0
         /\ \A j \in Ids : InFlight(j) <=> InQueue(todo, j)
         /\ \A j \in Ids : InQueue(todo, j) /\ j # Head(todo) => Open(order[j])
         /\ Tail(todo) \in Seq(Ids) /\ NoRepeat(Tail(todo))
         /\ \A j \in Ids : InQueue(Tail(todo), j) <=>
                InQueue(todo, j) /\ j # Head(todo)
         /\ \A i \in 1 .. Len(Tail(todo)) :
                /\ InQueue(todo, Tail(todo)[i]) /\ Tail(todo)[i] \in Ids
                /\ Tail(todo)[i] # Head(todo)
<1> DEFINE id == Head(todo)
<1>1. todo \in Seq(Ids) /\ NoRepeat(todo)
  BY DEF IInv, TypeOK, FlightSound
<1>2. /\ id \in Ids /\ id = todo[1] /\ InQueue(todo, id)
      /\ Tail(todo) \in Seq(Ids) /\ NoRepeat(Tail(todo))
      /\ \A j \in Ids : InQueue(Tail(todo), j) <=> InQueue(todo, j) /\ j # id
  BY <1>1, TailQueue
<1>3. /\ mutex = t /\ triggered = <<>> /\ prices = {} /\ order[id] \in Orders
  BY <1>2 DEF IInv, TypeOK, MutualExclusion
<1>4. \A j \in Ids : InFlight(j) <=> InQueue(todo, j)
  BY <1>3 DEF InFlight, InQueue
<1> HIDE DEF id
<1>5. ~isStopOrder(order[id]) /\ ~Resting(id) /\ ~Stored(id)
  BY <1>2, <1>4 DEF IInv, FlightSound
<1>6. \A s \in Sides, p \in Prices : ~At(book[s], p, id) /\ ~At(stops[s], p, id)
  BY <1>5 DEF Resting, Stored
<1>7. order[id].type \in {"LIMIT", "MARKET"}
  BY <1>3, <1>5 DEF Orders, OrderTypes, isStopOrder
<1>8. Len(todo) \in Nat /\ 1 \in 1 .. Len(todo)
  BY <1>1, <1>2 DEF InQueue
<1>9. Open(order[id]) \/ (order[id].status = "FILLED" /\ order[id].rem = 0)
  BY <1>2, <1>8 DEF IInv, FlightSound
<1>10. \A j \in Ids : InQueue(todo, j) /\ j # id => Open(order[j])
  BY <1>2 DEF IInv, FlightSound, InQueue
<1>11. ASSUME NEW i \in 1 .. Len(Tail(todo))
       PROVE  /\ InQueue(todo, Tail(todo)[i]) /\ Tail(todo)[i] \in Ids
              /\ Tail(todo)[i] # id
  <2>1. Tail(todo)[i] \in Ids /\ InQueue(Tail(todo), Tail(todo)[i])
    BY <1>2 DEF InQueue
  <2> QED BY <1>2, <2>1
<1> QED BY <1>2, <1>3, <1>4, <1>6, <1>7, <1>9, <1>10, <1>11 DEF id

LEMMA SettleInv ==
  ASSUME IInv, NEW t \in Threads, Settle(t)
  PROVE  IInv'
<1>0. PICK id \in Ids : id = Head(todo)
  BY TodoHead DEF Settle
<1> DEFINE o == order[id]
           rests == o.rem > 0 /\ o.status \notin {"FILLED", "CANCELED"}
<1>1. /\ pc[t] = "match" /\ todo # <<>> /\ ~Matchable(o)
      /\ todo' = Tail(todo)
      /\ UNCHANGED <<stops, mutex, pc, mark, prices, triggered, pending_trades,
                     pending_order_updates, incoming, traded, delivered,
                     reported, stop_ids>>
  BY <1>0 DEF Settle, callVars
<1>2. \/ /\ Open(o) /\ o.type = "MARKET"
         /\ order' = [order EXCEPT ![id] = cancel(o)]
         /\ orders_by_id' = orders_by_id \ {id}
         /\ UNCHANGED <<book, arrival, clock>>
      \/ /\ Open(o) /\ o.type = "LIMIT"
         /\ book' = [book EXCEPT ![o.side] = PushBack(@, o.price, id)]
         /\ arrival' = [arrival EXCEPT ![id] = clock]
         /\ clock' = clock + 1
         /\ UNCHANGED <<order, orders_by_id>>
      \/ /\ o.rem = 0
         /\ orders_by_id' = orders_by_id \ {id}
         /\ UNCHANGED <<order, book, arrival, clock>>
  <2>1. /\ o.type \in {"LIMIT", "MARKET"}
        /\ Open(o) \/ (o.status = "FILLED" /\ o.rem = 0)
    BY <1>0, <1>1, TodoHead
  <2>2. CASE Open(o)
    <3>1. rests
      BY <2>2 DEF Open
    <3> QED BY <1>0, <2>1, <2>2, <3>1 DEF Settle, addOrderToBook
  <2>3. CASE o.status = "FILLED" /\ o.rem = 0
    BY <1>0, <2>3 DEF Settle
  <2> QED BY <2>1, <2>2, <2>3
<1>3. /\ id \in Ids /\ o \in Orders /\ mutex = t /\ triggered = <<>>
      /\ InFlight(id)
      /\ \A s \in Sides, p \in Prices :
             ~At(book[s], p, id) /\ ~At(stops[s], p, id)
      /\ \A j \in Ids : InFlight(j) <=> InQueue(todo, j)
      /\ \A j \in Ids : InQueue(todo, j) /\ j # id => Open(order[j])
      /\ todo' \in Seq(Ids) /\ NoRepeat(todo')
      /\ \A j \in Ids : InQueue(todo', j) <=> InQueue(todo, j) /\ j # id
      /\ \A i \in 1 .. Len(todo') :
             InQueue(todo, todo'[i]) /\ todo'[i] \in Ids /\ todo'[i] # id
  BY <1>0, <1>1, TodoHead
<1>4. /\ TypeOK /\ o.side \in Sides /\ o.price \in Prices
      /\ \A s \in Sides : IsLevelMap(book[s]) /\ WellFormed(book[s])
  BY <1>3 DEF IInv, TypeOK, Orders, BookSound
<1>5. \A j \in Ids : InFlight(j)' <=> InFlight(j) /\ j # id
  BY <1>1, <1>3 DEF InFlight, InQueue
\* The orders: only a market order changes, and it keeps its quantities.
<1>6. /\ \A j \in Ids \ {id} : order'[j] = order[j]
      /\ order' \in [Ids -> Orders]
      /\ order'[id].rem = o.rem /\ order'[id].qty = o.qty
      /\ order'[id].status = "NONE" => o.status = "NONE"
  <2>1. CASE order' = order
    BY <1>3, <1>4, <2>1 DEF TypeOK
  <2>2. CASE Open(o) /\ order' = [order EXCEPT ![id] = cancel(o)]
    <3>1. /\ cancel(o) \in Orders /\ cancel(o).rem = o.rem
          /\ cancel(o).qty = o.qty /\ cancel(o).status = "CANCELED"
      BY <1>3, <2>2, CancelFields DEF Open
    <3> QED BY <1>3, <1>4, <2>2, <3>1 DEF TypeOK
  <2> QED BY <1>2, <2>1, <2>2
\* The book: it gains the order or stays as it is.
<1>7. /\ DOMAIN book' = Sides
      /\ \A s \in Sides : IsLevelMap(book'[s]) /\ WellFormed(book'[s])
      /\ \A s \in Sides, p \in Prices, j \in Ids :
             j # id => (At(book'[s], p, j) <=> At(book[s], p, j))
      /\ \A s \in Sides, p \in Prices : At(book'[s], p, id) =>
             /\ o.side = s /\ o.price = p /\ o.type = "LIMIT" /\ Open(o)
             /\ order' = order
      /\ \A s \in Sides : DOMAIN book[s] \subseteq DOMAIN book'[s]
      /\ \A s \in Sides : \A p \in DOMAIN book'[s] :
             \/ p \in DOMAIN book[s]
             \/ s = o.side /\ p = o.price /\ o.rem > 0 /\ o.type = "LIMIT"
      /\ Resting(id)' <=> id \in orders_by_id'
  <2>1. CASE UNCHANGED book /\ id \notin orders_by_id'
    BY <1>3, <1>4, <2>1 DEF TypeOK, Resting
  <2>2. CASE /\ Open(o) /\ o.type = "LIMIT"
             /\ book' = [book EXCEPT ![o.side] = PushBack(@, o.price, id)]
             /\ UNCHANGED <<order, orders_by_id>>
    <3> DEFINE m == book[o.side]
               r == PushBack(m, o.price, id)
    <3>1. IsLevelMap(m) /\ WellFormed(m) /\ ~At(m, o.price, id)
      BY <1>3, <1>4
    <3>2. /\ book'[o.side] = r /\ DOMAIN book' = Sides
          /\ \A s \in Sides \ {o.side} : book'[s] = book[s]
      BY <1>4, <2>2 DEF TypeOK
    <3> HIDE DEF m, o
    <3>3. /\ IsLevelMap(r) /\ WellFormed(r)
          /\ DOMAIN r = DOMAIN m \cup {o.price}
          /\ \A x \in Prices, j \in Ids :
                 At(r, x, j) <=> At(m, x, j) \/ (x = o.price /\ j = id)
      BY <1>3, <1>4, <3>1, PushBackAt
    <3> HIDE DEF r
    <3>4. id \in orders_by_id'
      BY <1>3, <2>2 DEF IInv, IndexExact
    <3>5. At(book'[o.side], o.price, id)
      BY <1>3, <1>4, <3>2, <3>3
    <3>6. Resting(id)'
      BY <1>4, <3>5 DEF Resting
    <3>7. o.rem > 0
      BY <2>2 DEF Open
    <3>8. /\ \A s \in Sides : IsLevelMap(book'[s]) /\ WellFormed(book'[s])
          /\ \A s \in Sides, p \in Prices, j \in Ids :
                 j # id => (At(book'[s], p, j) <=> At(book[s], p, j))
          /\ \A s \in Sides, p \in Prices : At(book'[s], p, id) =>
                 o.side = s /\ o.price = p
      BY <1>3, <1>4, <3>2, <3>3 DEF m
    <3>9. /\ \A s \in Sides : DOMAIN book[s] \subseteq DOMAIN book'[s]
          /\ \A s \in Sides : \A p \in DOMAIN book'[s] :
                 p \in DOMAIN book[s] \/ (s = o.side /\ p = o.price)
      BY <1>4, <3>2, <3>3 DEF m
    <3> QED BY <2>2, <3>2, <3>4, <3>6, <3>7, <3>8, <3>9
  <2> QED BY <1>2, <2>1, <2>2
<1>8. TypeOK'
  <2>1. arrival' \in [Ids -> Nat] /\ clock' \in Nat /\ orders_by_id' \subseteq Ids
    BY <1>2, <1>3, <1>4 DEF TypeOK
  <2> QED BY <1>1, <1>3, <1>4, <1>6, <1>7, <2>1 DEF TypeOK
<1>9. MutualExclusion'
  BY <1>1, <1>3, ThreadsAssumption DEF IInv, MutualExclusion
<1>10. BookSound'
  <2>1. ASSUME NEW s \in Sides, NEW p \in Prices, NEW j \in Ids,
               At(book'[s], p, j)
        PROVE  /\ order'[j].side = s /\ order'[j].price = p
               /\ order'[j].type = "LIMIT" /\ Open(order'[j])
    <3>1. CASE j = id
      BY <1>3, <1>7, <2>1, <3>1
    <3>2. CASE j # id
      BY <1>6, <1>7, <2>1, <3>2 DEF IInv, BookSound
    <3> QED BY <3>1, <3>2
  <2> QED BY <1>7, <2>1 DEF BookSound
<1>11. StopsSound'
  BY <1>1, <1>3, <1>6 DEF IInv, StopsSound
<1>12. FlightSound'
  <2>1. ASSUME NEW j \in Ids, InFlight(j)'
        PROVE  ~isStopOrder(order'[j]) /\ ~Resting(j)' /\ ~Stored(j)'
    <3>1. InFlight(j) /\ j # id
      BY <1>5, <2>1
    <3>2. ~isStopOrder(order[j]) /\ ~Resting(j) /\ ~Stored(j)
      BY <3>1 DEF IInv, FlightSound
    <3>3. ~Resting(j)' /\ ~Stored(j)'
      BY <1>1, <1>7, <3>1, <3>2 DEF Resting, Stored
    <3> QED BY <1>6, <3>1, <3>2, <3>3
  <2>2. \A i \in 1 .. Len(todo') : Open(order'[todo'[i]])
    BY <1>3, <1>6
  <2>3. Len(triggered') = 0 /\ NoRepeat(triggered')
    BY <1>1, <1>3 DEF NoRepeat
  <2> QED BY <1>3, <2>1, <2>2, <2>3 DEF FlightSound
<1>13. IndexExact'
  <2>1. \A j \in Ids \ {id} : j \in orders_by_id' <=> j \in orders_by_id
    BY <1>2
  <2>2. \A j \in Ids \ {id} : (Resting(j)' <=> Resting(j)) /\ (Stored(j)' <=> Stored(j))
    BY <1>1, <1>7 DEF Resting, Stored
  <2>3. ~Stored(id)' /\ ~InFlight(id)'
    BY <1>1, <1>3, <1>5 DEF Stored
  <2> QED BY <1>5, <1>7, <2>1, <2>2, <2>3 DEF IInv, IndexExact
<1>14. Conservation'
  BY <1>1, <1>3, <1>6 DEF IInv, Conservation
<1>15. Uncrossed'
  <2> SUFFICES ASSUME NEW b \in DOMAIN book'["BUY"], NEW a \in DOMAIN book'["SELL"]
               PROVE  b < a
    BY DEF Uncrossed
  <2>1. "BUY" \in Sides /\ "SELL" \in Sides /\ Prices \subseteq Nat
    BY PricesAssumption DEF Sides
  <2>2. /\ DOMAIN book["BUY"] \in SUBSET Prices /\ DOMAIN book["SELL"] \in SUBSET Prices
    BY <1>4, <2>1 DEF IsLevelMap
  <2>3. CASE b \in DOMAIN book["BUY"] /\ a \in DOMAIN book["SELL"]
    BY <2>3 DEF IInv, Uncrossed
  <2>4. CASE b \notin DOMAIN book["BUY"]
    <3>1. o.side = "BUY" /\ b = o.price /\ o.rem > 0 /\ o.type = "LIMIT"
      BY <1>7, <2>1, <2>4
    <3>2. a \in DOMAIN book["SELL"]
      BY <1>7, <2>1, <3>1
    <3>3. ~(o.price >= Lowest(DOMAIN book["SELL"]))
      BY <1>1, <3>1, <3>2 DEF Matchable, BestPrice, Opposite
    <3>4. Lowest(DOMAIN book["SELL"]) \in Prices /\ Lowest(DOMAIN book["SELL"]) <= a
      BY <2>2, <3>2, ExtremePrices
    <3>5. o.price \in Nat /\ a \in Nat /\ Lowest(DOMAIN book["SELL"]) \in Nat
      BY <1>4, <2>1, <2>2, <3>2, <3>4
    <3> HIDE DEF o
    <3> QED BY <3>1, <3>3, <3>4, <3>5
  <2>5. CASE a \notin DOMAIN book["SELL"]
    <3>1. o.side = "SELL" /\ a = o.price /\ o.rem > 0 /\ o.type = "LIMIT"
      BY <1>7, <2>1, <2>5
    <3>2. b \in DOMAIN book["BUY"]
      BY <1>7, <2>1, <3>1
    <3>3. ~(o.price <= Highest(DOMAIN book["BUY"]))
      BY <1>1, <3>1, <3>2 DEF Matchable, BestPrice, Opposite
    <3>4. Highest(DOMAIN book["BUY"]) \in Prices /\ b <= Highest(DOMAIN book["BUY"])
      BY <2>2, <3>2, ExtremePrices
    <3>5. o.price \in Nat /\ b \in Nat /\ Highest(DOMAIN book["BUY"]) \in Nat
      BY <1>4, <2>1, <2>2, <3>2, <3>4
    <3> HIDE DEF o
    <3> QED BY <3>1, <3>3, <3>4, <3>5
  <2> QED BY <2>3, <2>4, <2>5
<1> QED BY <1>8, <1>9, <1>10, <1>11, <1>12, <1>13, <1>14, <1>15 DEF IInv

(***************************************************************************)
(* One trade.  Taker and maker are different open orders, so that neither  *)
(* fill is refused; the maker leaves book and index exactly when filled.   *)
(***************************************************************************)
LEMMA MatchInv ==
  ASSUME IInv, NEW t \in Threads, Match(t)
  PROVE  IInv'
<1>1. /\ pc[t] = "match" /\ todo # <<>> /\ Matchable(order[Head(todo)])
      /\ UNCHANGED <<stops, mutex, pc, todo, mark, prices, triggered, incoming,
                     arrival, clock, delivered, reported, stop_ids>>
  BY DEF Match, lockVars
<1>2. PICK taker \in Ids : taker = Head(todo)
  BY <1>1, TodoHead
<1>3. PICK other \in Sides : other = Opposite(order[taker].side)
  BY DEF Opposite, Sides
<1>4. /\ order[taker] \in Orders /\ Open(order[taker]) /\ mutex = t
      /\ triggered = <<>>
      /\ InFlight(taker) /\ order[taker].type \in {"LIMIT", "MARKET"}
      /\ \A s \in Sides, p \in Prices :
             ~At(book[s], p, taker) /\ ~At(stops[s], p, taker)
      /\ \A j \in Ids : InFlight(j) <=> InQueue(todo, j)
  BY <1>1, <1>2, TodoHead DEF Matchable
<1>5. /\ TypeOK /\ IsLevelMap(book[other]) /\ WellFormed(book[other])
      /\ DOMAIN book[other] # {} /\ DOMAIN book[other] \in SUBSET Prices
  BY <1>1, <1>2, <1>3 DEF IInv, TypeOK, BookSound, IsLevelMap, Matchable
<1>6. PICK level \in DOMAIN book[other] : level = BestPrice(other)
  BY <1>5, ExtremePrices DEF BestPrice
<1>7. PICK maker \in Ids : maker = Head(book[other][level])
  BY <1>5, PopFrontAt
<1>8. /\ At(book[other], level, maker) /\ level \in Prices
      /\ order[maker] \in Orders /\ Open(order[maker]) /\ maker # taker
      /\ order[maker].price = level /\ order[maker].side = other
      /\ order[maker].type = "LIMIT"
  <2>1. At(book[other], level, maker) /\ level \in Prices
    BY <1>5, <1>7, PopFrontAt
  <2> QED BY <1>4, <1>5, <2>1 DEF IInv, BookSound, TypeOK
<1> DEFINE min == IF order[taker].rem <= order[maker].rem
                  THEN order[taker].rem ELSE order[maker].rem
           bought == IF other = "SELL" THEN taker ELSE maker
           sold   == IF other = "SELL" THEN maker ELSE taker
<1>9. PICK q \in Nat : q = min
  BY <1>4, <1>8 DEF Orders
<1>10. q > 0 /\ q <= order[taker].rem /\ q <= order[maker].rem
  BY <1>4, <1>8, <1>9 DEF Orders, Open
<1> DEFINE trade == [buy |-> bought, sell |-> sold, price |-> order[maker].price,
                     qty |-> q]
<1>11. /\ order' = [order EXCEPT ![taker] = fill(@, q), ![maker] = fill(@, q)]
       /\ traded' = [traded EXCEPT ![taker] = @ + q, ![maker] = @ + q]
       /\ pending_trades' = [pending_trades EXCEPT ![t] =
                                 IF q > 0 THEN Append(@, trade) ELSE @]
       /\ pending_order_updates' = [pending_order_updates EXCEPT ![t] =
                                 IF q > 0 THEN @ \o <<bought, sold>> ELSE @]
       /\ IF order'[maker].rem = 0
          THEN /\ book' = [book EXCEPT ![other] =
                               SetLevel(@, level, Tail(book[other][level]))]
               /\ orders_by_id' = orders_by_id \ {maker}
          ELSE UNCHANGED <<book, orders_by_id>>
  BY <1>2, <1>3, <1>6, <1>7, <1>9 DEF Match
<1> HIDE DEF min
<1>12. /\ order'[taker] = fill(order[taker], q)
       /\ order'[maker] = fill(order[maker], q)
       /\ \A j \in Ids \ {taker, maker} : order'[j] = order[j]
       /\ DOMAIN order' = Ids /\ order' = [j \in Ids |-> order'[j]]
       /\ traded' \in [Ids -> Nat]
       /\ traded'[taker] = traded[taker] + q
       /\ traded'[maker] = traded[maker] + q
       /\ \A j \in Ids \ {taker, maker} : traded'[j] = traded[j]
  <2>1. order \in [Ids -> Orders] /\ traded \in [Ids -> Nat] /\ maker # taker
    BY <1>5, <1>8 DEF TypeOK
  <2>2. /\ order' = [order EXCEPT ![taker] = fill(@, q), ![maker] = fill(@, q)]
        /\ traded' = [traded EXCEPT ![taker] = @ + q, ![maker] = @ + q]
    BY <1>11
  <2>3. /\ traded' \in [Ids -> Nat]
        /\ traded'[taker] = traded[taker] + q
        /\ traded'[maker] = traded[maker] + q
        /\ \A j \in Ids \ {taker, maker} : traded'[j] = traded[j]
    BY <2>1, <2>2
  <2> QED BY <2>1, <2>2, <2>3
<1>13. /\ order'[taker] \in Orders
       /\ order'[taker].type = order[taker].type
       /\ order'[taker].qty = order[taker].qty
       /\ order'[taker].rem = order[taker].rem - q
       /\ order'[taker].status =
              IF order[taker].rem = q THEN "FILLED" ELSE "PARTIAL"
  BY <1>4, <1>10, <1>12, FillFields DEF Open
<1>14. /\ order'[maker] \in Orders
       /\ order'[maker].side = other /\ order'[maker].price = level
       /\ order'[maker].type = "LIMIT"
       /\ order'[maker].qty = order[maker].qty
       /\ order'[maker].rem = order[maker].rem - q
       /\ order'[maker].status =
              IF order[maker].rem = q THEN "FILLED" ELSE "PARTIAL"
  BY <1>8, <1>10, <1>12, FillFields DEF Open
<1>15. /\ order[taker].rem \in Nat /\ order[maker].rem \in Nat
       /\ order'[taker].rem \in Nat /\ order'[maker].rem \in Nat
  BY <1>4, <1>8, <1>13, <1>14 DEF Orders
\* The book: the maker leaves when it is filled, nothing else changes.
<1>16. /\ DOMAIN book' = Sides
       /\ \A s \in Sides : /\ IsLevelMap(book'[s]) /\ WellFormed(book'[s])
                           /\ DOMAIN book'[s] \subseteq DOMAIN book[s]
       /\ \A s \in Sides, p \in Prices, j \in Ids : At(book'[s], p, j) <=>
              At(book[s], p, j) /\ ~(j = maker /\ order'[maker].rem = 0)
       /\ orders_by_id' = IF order'[maker].rem = 0 THEN orders_by_id \ {maker}
                                                   ELSE orders_by_id
  <2>1. \A s \in Sides : IsLevelMap(book[s]) /\ WellFormed(book[s])
    BY <1>5 DEF IInv, TypeOK, BookSound
  <2>2. CASE order'[maker].rem # 0
    BY <1>5, <1>11, <2>1, <2>2 DEF TypeOK
  <2>3. CASE order'[maker].rem = 0
    <3> DEFINE m == book[other]
               r == SetLevel(m, level, Tail(m[level]))
    <3>1. /\ book'[other] = r /\ DOMAIN book' = Sides
          /\ \A s \in Sides \ {other} : book'[s] = book[s]
      BY <1>5, <1>11, <2>3 DEF TypeOK
    <3>2. IsLevelMap(m) /\ WellFormed(m) /\ level \in DOMAIN m
          /\ maker = Head(m[level])
      BY <1>5, <1>7
    <3> HIDE DEF m
    <3>3. /\ IsLevelMap(r) /\ WellFormed(r) /\ DOMAIN r \subseteq DOMAIN m
          /\ \A x \in Prices, j \in Ids :
                 At(r, x, j) <=> At(m, x, j) /\ ~(x = level /\ j = maker)
      BY <3>2, PopFrontAt
    <3>4. \A s \in Sides, p \in Prices :
              At(book[s], p, maker) => s = other /\ p = level
      BY <1>8 DEF IInv, BookSound
    <3> HIDE DEF r
    <3> QED BY <1>11, <2>1, <2>3, <3>1, <3>3, <3>4 DEF m
  <2> QED BY <2>2, <2>3
<1>17. TypeOK'
  <2>1. order' \in [Ids -> Orders]
    <3>1. \A j \in Ids : order'[j] \in Orders
      BY <1>5, <1>12, <1>13, <1>14 DEF TypeOK
    <3> QED BY <1>12, <3>1
  <2>2. trade \in Trades /\ bought \in Ids /\ sold \in Ids
    BY <1>8 DEF Trades
  <2> HIDE DEF trade, bought, sold
  <2>3. pending_trades' \in [Threads -> Seq(Trades)]
    BY <1>5, <1>11, <2>2 DEF TypeOK
  <2>4. pending_order_updates' \in [Threads -> Seq(Ids)]
    BY <1>5, <1>11, <2>2 DEF TypeOK
  <2>5. orders_by_id' \subseteq Ids
    BY <1>5, <1>16 DEF TypeOK
  <2> QED BY <1>1, <1>5, <1>12, <1>16, <2>1, <2>3, <2>4, <2>5 DEF TypeOK
<1>18. MutualExclusion'
  BY <1>1 DEF IInv, MutualExclusion
<1>19. BookSound'
  <2>1. ASSUME NEW s \in Sides, NEW p \in Prices, NEW j \in Ids,
               At(book'[s], p, j)
        PROVE  /\ order'[j].side = s /\ order'[j].price = p
               /\ order'[j].type = "LIMIT" /\ Open(order'[j])
    <3>1. At(book[s], p, j) /\ ~(j = maker /\ order'[maker].rem = 0)
      BY <1>16, <2>1
    <3>2. CASE j = maker
      <4>1. s = other /\ p = level
        BY <1>8, <3>1, <3>2 DEF IInv, BookSound
      <4>2. Open(order'[maker])
        BY <1>10, <1>14, <1>15, <3>1, <3>2 DEF Open
      <4> QED BY <1>14, <3>2, <4>1, <4>2
    <3>3. CASE j # maker
      <4>1. j # taker
        BY <1>4, <3>1
      <4>2. order'[j] = order[j]
        BY <1>12, <3>3, <4>1
      <4> QED BY <3>1, <4>2 DEF IInv, BookSound
    <3> QED BY <3>2, <3>3
  <2> QED BY <1>16, <2>1 DEF BookSound
<1>20. \A s \in Sides, p \in Prices : ~At(stops[s], p, maker)
  BY <1>8 DEF IInv, StopsSound, isStopOrder
<1>21. StopsSound'
  BY <1>1, <1>4, <1>12, <1>20 DEF IInv, StopsSound
<1>22. ~InFlight(maker)
  BY <1>8 DEF IInv, FlightSound, Resting
<1>23. /\ \A j \in Ids : InFlight(j)' <=> InFlight(j)
       /\ \A j \in Ids : Stored(j)' <=> Stored(j)
       /\ \A j \in Ids : Resting(j)' <=>
              Resting(j) /\ ~(j = maker /\ order'[maker].rem = 0)
  BY <1>1, <1>16 DEF InFlight, Stored, Resting
<1>24. FlightSound'
  <2>1. ASSUME NEW j \in Ids, InFlight(j)'
        PROVE  ~isStopOrder(order'[j]) /\ ~Resting(j)' /\ ~Stored(j)'
    <3>1. InFlight(j) /\ j # maker
      BY <1>22, <1>23, <2>1
    <3>2. ~isStopOrder(order[j]) /\ ~Resting(j) /\ ~Stored(j)
      BY <3>1 DEF IInv, FlightSound
    <3>3. ~isStopOrder(order'[j])
      BY <1>12, <1>13, <3>1, <3>2 DEF isStopOrder
    <3> QED BY <1>23, <3>2, <3>3
  <2>2. ASSUME NEW i \in 1 .. Len(todo)
        PROVE  \/ Open(order'[todo[i]])
               \/ /\ i = 1 /\ order'[todo[i]].status = "FILLED"
                  /\ order'[todo[i]].rem = 0
    <3>1. /\ todo \in Seq(Ids) /\ NoRepeat(todo) /\ todo[1] = taker
          /\ todo[i] \in Ids /\ InQueue(todo, todo[i])
      <4>1. todo \in Seq(Ids) /\ NoRepeat(todo)
        BY <1>5 DEF TypeOK, IInv, FlightSound
      <4> QED BY <1>1, <1>2, <4>1, TailQueue DEF InQueue
    <3>2. CASE i = 1
      BY <1>10, <1>13, <1>15, <3>1, <3>2 DEF Open
    <3>3. CASE i # 1
      <4>1. todo[i] # taker
        BY <3>1, <3>3 DEF NoRepeat
      <4>2. todo[i] # maker
        BY <1>4, <1>22, <3>1
      <4>3. Open(order[todo[i]])
        BY <3>3 DEF IInv, FlightSound
      <4> QED BY <1>12, <3>1, <4>1, <4>2, <4>3
    <3> QED BY <3>2, <3>3
  <2>3. /\ NoRepeat(todo') /\ NoRepeat(triggered') /\ Len(triggered') = 0
        /\ todo' = todo
    BY <1>1, <1>4 DEF IInv, FlightSound
  <2> QED BY <2>1, <2>2, <2>3 DEF FlightSound
<1>25. IndexExact'
  <2>1. ~Stored(maker) /\ ~InFlight(maker)
    BY <1>20, <1>22 DEF Stored
  <2>2. Resting(maker)
    BY <1>8 DEF Resting
  <2> QED BY <1>16, <1>23, <2>1, <2>2 DEF IInv, IndexExact
<1>26. Conservation'
  <2>1. /\ traded[taker] \in Nat /\ traded[maker] \in Nat
        /\ order[taker].qty \in Nat /\ order[maker].qty \in Nat
    BY <1>4, <1>5, <1>8 DEF TypeOK, Orders
  <2>2. /\ order[taker].rem + traded[taker] = order[taker].qty
        /\ order[maker].rem + traded[maker] = order[maker].qty
    BY DEF IInv, Conservation
  <2>3. /\ order'[taker].rem + traded'[taker] = order'[taker].qty
        /\ order'[maker].rem + traded'[maker] = order'[maker].qty
        /\ order'[taker].status # "NONE" /\ order'[maker].status # "NONE"
    BY <1>12, <1>13, <1>14, <1>15, <2>1, <2>2
  <2>4. \A j \in Ids \ {taker, maker} :
            /\ order'[j].rem + traded'[j] = order'[j].qty
            /\ order'[j].status = "NONE" => order'[j].qty = 0
    BY <1>12 DEF IInv, Conservation
  <2> QED BY <2>3, <2>4 DEF Conservation
<1>27. Uncrossed'
  BY <1>16 DEF IInv, Uncrossed, Sides
<1> QED BY <1>17, <1>18, <1>19, <1>21, <1>24, <1>25, <1>26, <1>27 DEF IInv

----------------------------------------------------------------------------
(* Every step preserves the invariant, so the book is safe.                *)

LEMMA NextInv == IInv /\ [Next]_vars => IInv'
<1> SUFFICES ASSUME IInv, [Next]_vars PROVE IInv'
  OBVIOUS
<1>1. CASE UNCHANGED vars
  <2>1. TypeOK' /\ MutualExclusion'
    BY <1>1 DEF IInv, TypeOK, MutualExclusion, vars, lockVars, callVars, history
  <2> QED BY <1>1, <2>1, SameBookInv DEF vars, lockVars, callVars, history
<1>2. CASE Next
  <2>1. PICK t \in Threads : Call(t) \/ Step(t)
    BY <1>2 DEF Next
  <2>2. CASE Call(t)
    <3>1. CASE \E id \in Ids, in \in Inputs : addOrder(t, id, NewOrder(in))
      BY <3>1, NewOrderFields, AddStopInv, AddPlainInv DEF addOrder
    <3>2. CASE \E id \in Ids : CancelOrder(t, id)
      BY <3>2, CancelOrderInv
    <3>3. CASE ReturnFalse(t)
      BY <1>1, <3>3 DEF ReturnFalse
    <3> QED BY <2>2, <3>1, <3>2, <3>3 DEF Call
  <2>3. CASE Step(t)
    BY <2>3, MatchInv, SettleInv, EndRoundInv, TriggerInv, NextPriceInv,
       NextRoundInv, UnlockInv, NotifyInv DEF Step
  <2> QED BY <2>1, <2>2, <2>3
<1> QED BY <1>1, <1>2

LEMMA BookAlways == Spec => []IInv
  BY InitInv, NextInv, PTL DEF Spec

\* The state of addOrder and cancelOrder always has its type; no order is ever
\* REJECTED.
THEOREM TypeCorrect == Spec => []TypeOK
<1>1. IInv => TypeOK
  BY DEF IInv
<1> QED BY <1>1, BookAlways, PTL

\* Best bid below best ask, between any two steps of matchOrder, of the cascade
\* and of concurrent calls.
THEOREM NeverCrossed == Spec => []Uncrossed
<1>1. IInv => Uncrossed
  BY DEF IInv
<1> QED BY <1>1, BookAlways, PTL

\* executeTrade never records a quantity that Order::fill refused.
THEOREM QuantityConserved == Spec => []Conservation
<1>1. IInv => Conservation
  BY DEF IInv
<1> QED BY <1>1, BookAlways, PTL

\* orders_by_id_ holds exactly the orders that rest, are stored as stops or are
\* being matched, and each of them is in one place only.
THEOREM IndexCorrect == Spec => []MapsSound
<1>1. IInv => MapsSound
  BY DEF IInv, MapsSound
<1> QED BY <1>1, BookAlways, PTL

----------------------------------------------------------------------------
(* Every step of the book is a step of the exchange.                       *)

(***************************************************************************)
(* Time priority.  The exchange orders offers by arrival, the book by      *)
(* position in a queue, so the proof needs that the two agree: a queue is  *)
(* sorted by arrival, and every arrival is in the past.                    *)
(***************************************************************************)
InTime(q, when) ==
    \A i, j \in 1 .. Len(q) : i < j => when[q[i]] < when[q[j]]

LevelsInTime(m, when, now) ==
    \A p \in DOMAIN m : /\ InTime(m[p], when)
                        /\ \A i \in 1 .. Len(m[p]) : when[m[p][i]] < now

TimePriority == \A s \in Sides : LevelsInTime(book[s], arrival, clock)

\* A level replaced by a subsequence of itself stays in order.
LEMMA SetLevelInTime ==
  ASSUME NEW m, IsLevelMap(m), NEW p \in DOMAIN m, NEW q \in Seq(Ids),
         NEW when, NEW now, LevelsInTime(m, when, now),
         InTime(q, when), \A i \in 1 .. Len(q) : when[q[i]] < now
  PROVE  LevelsInTime(SetLevel(m, p, q), when, now)
<1>1. CASE q = <<>>
  BY <1>1 DEF SetLevel, EraseLevel, LevelsInTime
<1>2. CASE q # <<>>
  <2> DEFINE r == SetLevel(m, p, q)
  <2>1. /\ DOMAIN r = DOMAIN m /\ r[p] = q
        /\ \A x \in DOMAIN m \ {p} : r[x] = m[x]
    BY <1>2 DEF SetLevel, IsLevelMap
  <2> HIDE DEF r
  <2>2. LevelsInTime(r, when, now)
    BY <2>1 DEF LevelsInTime
  <2> QED BY <2>2 DEF r
<1> QED BY <1>1, <1>2

\* Popping the front order of a level keeps the queues in order.
LEMMA PopFrontInTime ==
  ASSUME NEW m, IsLevelMap(m), WellFormed(m), NEW p \in DOMAIN m,
         NEW when, NEW now, LevelsInTime(m, when, now)
  PROVE  LevelsInTime(SetLevel(m, p, Tail(m[p])), when, now)
<1> DEFINE q == m[p]
<1>1. /\ q \in Seq(Ids) /\ q # <<>> /\ NoRepeat(q) /\ InTime(q, when)
      /\ \A i \in 1 .. Len(q) : when[q[i]] < now
  BY DEF IsLevelMap, WellFormed, LevelsInTime
<1> HIDE DEF q
<1>2. /\ Tail(q) \in Seq(Ids) /\ Len(Tail(q)) = Len(q) - 1 /\ Len(q) \in Nat
      /\ \A i \in 1 .. Len(Tail(q)) : Tail(q)[i] = q[i + 1]
  BY <1>1, TailQueue
<1>3. InTime(Tail(q), when)
  <2> SUFFICES ASSUME NEW i \in 1 .. Len(Tail(q)), NEW j \in 1 .. Len(Tail(q)),
                      i < j
               PROVE  when[Tail(q)[i]] < when[Tail(q)[j]]
    BY DEF InTime
  <2>1. i + 1 \in 1 .. Len(q) /\ j + 1 \in 1 .. Len(q) /\ i + 1 < j + 1
    BY <1>2
  <2> QED BY <1>1, <1>2, <2>1 DEF InTime
<1>4. \A i \in 1 .. Len(Tail(q)) : when[Tail(q)[i]] < now
  BY <1>1, <1>2
<1> QED BY <1>2, <1>3, <1>4, SetLevelInTime DEF q

\* So does erasing one order from its level.
LEMMA EraseFromInTime ==
  ASSUME NEW m, IsLevelMap(m), WellFormed(m), NEW p \in Prices, NEW id \in Ids,
         NEW when, NEW now, LevelsInTime(m, when, now)
  PROVE  LevelsInTime(EraseFrom(m, p, id), when, now)
<1>1. CASE ~(p \in DOMAIN m /\ \E i \in 1 .. Len(m[p]) : m[p][i] = id)
  BY <1>1 DEF EraseFrom
<1>2. CASE p \in DOMAIN m /\ \E i \in 1 .. Len(m[p]) : m[p][i] = id
  <2> DEFINE q == m[p]
             First(i) == q[i] = id /\ \A j \in 1 .. i - 1 : q[j] # id
             n == CHOOSE k \in 1 .. Len(q) : First(k)
             r == EraseAt(q, n)
  <2>1. /\ q \in Seq(Ids) /\ NoRepeat(q) /\ InTime(q, when)
        /\ \A i \in 1 .. Len(q) : when[q[i]] < now
    BY <1>2 DEF IsLevelMap, WellFormed, LevelsInTime
  <2>2. n \in 1 .. Len(q)
    <3>1. PICK k \in 1 .. Len(q) : q[k] = id
      BY <1>2
    <3>2. First(k)
      BY <2>1, <3>1 DEF NoRepeat
    <3> QED BY <3>2
  <2>3. EraseFrom(m, p, id) = SetLevel(m, p, r)
    BY <1>2 DEF EraseFrom
  <2> HIDE DEF n, q
  <2>4. r \in Seq(Ids)
    BY <2>1, <2>2, EraseAtQueue
  <2>5. /\ Len(r) = Len(q) - 1 /\ Len(q) \in Nat
        /\ \A k \in 1 .. Len(r) : r[k] = IF k < n THEN q[k] ELSE q[k + 1]
    BY <2>1, <2>2 DEF EraseAt
  <2> HIDE DEF r
  <2>6. InTime(r, when)
    <3> SUFFICES ASSUME NEW i \in 1 .. Len(r), NEW j \in 1 .. Len(r), i < j
                 PROVE  when[r[i]] < when[r[j]]
      BY DEF InTime
    <3>0. ASSUME NEW k \in 1 .. Len(r)
          PROVE  \E a \in 1 .. Len(q) :
                     /\ r[k] = q[a]
                     /\ a = IF k < n THEN k ELSE k + 1
      <4>1. CASE k < n
        BY <2>5, <4>1
      <4>2. CASE ~(k < n)
        <5>1. k + 1 \in 1 .. Len(q) /\ r[k] = q[k + 1]
          BY <2>2, <2>5, <4>2
        <5> QED BY <4>2, <5>1
      <4> QED BY <4>1, <4>2
    <3>1. PICK a \in 1 .. Len(q) : r[i] = q[a] /\ a = IF i < n THEN i ELSE i + 1
      BY <3>0
    <3>2. PICK b \in 1 .. Len(q) : r[j] = q[b] /\ b = IF j < n THEN j ELSE j + 1
      BY <3>0
    <3>3. a < b
      BY <2>2, <3>1, <3>2
    <3> QED BY <2>1, <3>1, <3>2, <3>3 DEF InTime
  <2>7. \A i \in 1 .. Len(r) : when[r[i]] < now
    BY <2>1, <2>2, <2>5
  <2> QED BY <1>2, <2>3, <2>4, <2>6, <2>7, SetLevelInTime
<1> QED BY <1>1, <1>2

\* A newcomer joins its queue at the back with the latest arrival.
LEMMA PushBackInTime ==
  ASSUME NEW m, IsLevelMap(m), NEW p \in Prices, NEW id \in Ids,
         NEW when \in [Ids -> Nat], NEW now \in Nat,
         LevelsInTime(m, when, now), \A x \in Prices : ~At(m, x, id)
  PROVE  LET later == [when EXCEPT ![id] = now]
         IN  /\ LevelsInTime(m, later, now + 1)
             /\ LevelsInTime(PushBack(m, p, id), later, now + 1)
<1> DEFINE later == [when EXCEPT ![id] = now]
           r == PushBack(m, p, id)
<1>1. ASSUME NEW x \in DOMAIN m
      PROVE  /\ m[x] \in Seq(Ids) /\ InTime(m[x], later)
             /\ \A i \in 1 .. Len(m[x]) : /\ later[m[x][i]] \in Nat
                                          /\ later[m[x][i]] < now
  <2>1. m[x] \in Seq(Ids) /\ x \in Prices
    BY DEF IsLevelMap
  <2>2. \A i \in 1 .. Len(m[x]) : m[x][i] \in Ids /\ m[x][i] # id
    BY <2>1 DEF At, InQueue
  <2>3. \A i \in 1 .. Len(m[x]) : later[m[x][i]] = when[m[x][i]]
    BY <2>2
  <2> QED BY <2>1, <2>2, <2>3 DEF LevelsInTime, InTime
<1>2. later[id] = now
  OBVIOUS
<1> HIDE DEF later
<1>3. LevelsInTime(m, later, now + 1)
  BY <1>1 DEF LevelsInTime
<1>4. /\ DOMAIN r = DOMAIN m \cup {p}
      /\ \A x \in DOMAIN m \ {p} : r[x] = m[x]
      /\ r[p] = IF p \in DOMAIN m THEN Append(m[p], id) ELSE <<id>>
  BY DEF PushBack
<1> HIDE DEF r
<1>5. InTime(r[p], later) /\ \A i \in 1 .. Len(r[p]) : later[r[p][i]] < now + 1
  <2>1. CASE p \notin DOMAIN m
    BY <1>2, <1>4, <2>1 DEF InTime
  <2>2. CASE p \in DOMAIN m
    <3>1. /\ Len(r[p]) = Len(m[p]) + 1 /\ Len(m[p]) \in Nat
          /\ \A i \in 1 .. Len(m[p]) : r[p][i] = m[p][i]
          /\ r[p][Len(m[p]) + 1] = id
      BY <1>1, <1>4, <2>2
    <3>2. \A i \in 1 .. Len(m[p]) : later[r[p][i]] \in Nat /\ later[r[p][i]] < now
      BY <1>1, <2>2, <3>1
    <3>3. \A i \in 1 .. Len(r[p]) : i \in 1 .. Len(m[p]) \/ i = Len(m[p]) + 1
      BY <3>1
    <3>4. InTime(r[p], later)
      <4> SUFFICES ASSUME NEW i \in 1 .. Len(r[p]), NEW j \in 1 .. Len(r[p]), i < j
                   PROVE  later[r[p][i]] < later[r[p][j]]
        BY DEF InTime
      <4>1. i \in 1 .. Len(m[p])
        BY <3>1
      <4>2. CASE j = Len(m[p]) + 1
        BY <1>2, <3>1, <3>2, <4>1, <4>2
      <4>3. CASE j \in 1 .. Len(m[p])
        BY <1>1, <2>2, <3>1, <4>1, <4>3 DEF InTime
      <4> QED BY <3>3, <4>2, <4>3
    <3> QED BY <1>2, <3>1, <3>2, <3>3, <3>4
  <2> QED BY <2>1, <2>2
<1>6. LevelsInTime(r, later, now + 1)
  BY <1>3, <1>4, <1>5 DEF LevelsInTime
<1> QED BY <1>3, <1>6 DEF later, r

----------------------------------------------------------------------------
(* The three ways in which the book changes: which orders are on offer     *)
(* afterwards, and that the queues stay in order.                          *)

LEMMA BookMaps ==
  ASSUME IInv
  PROVE  /\ DOMAIN book = Sides
         /\ \A s \in Sides : IsLevelMap(book[s]) /\ WellFormed(book[s])
         /\ arrival \in [Ids -> Nat] /\ clock \in Nat /\ RestingIds \subseteq Ids
  BY DEF IInv, TypeOK, BookSound, RestingIds

\* matchOrder pops the front order of a level.
LEMMA BookAfterPop ==
  ASSUME IInv, NEW s \in Sides, NEW p \in DOMAIN book[s],
         book' = [book EXCEPT ![s] = SetLevel(@, p, Tail(book[s][p]))],
         UNCHANGED <<arrival, clock>>
  PROVE  /\ RestingIds' = RestingIds \ {Head(book[s][p])}
         /\ TimePriority => TimePriority'
<1> DEFINE m == book[s]
           r == SetLevel(m, p, Tail(m[p]))
           id == Head(m[p])
<1>1. IsLevelMap(m) /\ WellFormed(m) /\ p \in DOMAIN m /\ p \in Prices
  BY BookMaps DEF IsLevelMap
<1>2. book'[s] = r /\ DOMAIN book' = Sides /\ \A x \in Sides \ {s} : book'[x] = book[x]
  BY BookMaps
<1>3. /\ id \in Ids /\ At(m, p, id)
      /\ \A x \in Prices, j \in Ids :
             At(r, x, j) <=> At(m, x, j) /\ ~(x = p /\ j = id)
  <2> HIDE DEF m
  <2> QED BY <1>1, PopFrontAt
<1>4. \A x \in Sides, y \in Prices : At(book[x], y, id) => x = s /\ y = p
  BY <1>1, <1>3 DEF IInv, BookSound
<1>5. ASSUME TimePriority PROVE TimePriority'
  <2>1. LevelsInTime(r, arrival, clock)
    <3>1. LevelsInTime(m, arrival, clock)
      BY <1>5 DEF TimePriority
    <3> HIDE DEF m
    <3> QED BY <1>1, <3>1, PopFrontInTime
  <2> QED BY <1>2, <1>5, <2>1 DEF TimePriority
<1> HIDE DEF r, id
<1>6. \A x \in Sides, y \in Prices, j \in Ids :
          At(book'[x], y, j) <=> At(book[x], y, j) /\ j # id
  BY <1>2, <1>3, <1>4
<1>7. RestingIds' = RestingIds \ {id}
  BY <1>6 DEF RestingIds, Resting
<1> QED BY <1>5, <1>7 DEF id

\* cancelOrder erases an order from the level of its price.
LEMMA BookAfterErase ==
  ASSUME IInv, NEW id \in Ids,
         book' = [book EXCEPT ![order[id].side] =
                      EraseFrom(@, order[id].price, id)],
         UNCHANGED <<arrival, clock>>
  PROVE  /\ RestingIds' = RestingIds \ {id}
         /\ TimePriority => TimePriority'
<1> DEFINE s == order[id].side
           p == order[id].price
           m == book[s]
           r == EraseFrom(m, p, id)
<1>1. s \in Sides /\ p \in Prices
  BY DEF IInv, TypeOK, Orders
<1>2. IsLevelMap(m) /\ WellFormed(m)
  BY <1>1, BookMaps
<1>3. book'[s] = r /\ DOMAIN book' = Sides /\ \A x \in Sides \ {s} : book'[x] = book[x]
  BY <1>1, BookMaps
<1>4. \A x \in Sides, y \in Prices : At(book[x], y, id) => x = s /\ y = p
  BY DEF IInv, BookSound
<1> HIDE DEF s, p
<1>5. \A x \in Prices, j \in Ids :
          At(r, x, j) <=> At(m, x, j) /\ ~(x = p /\ j = id)
  <2> HIDE DEF m
  <2> QED BY <1>1, <1>2, EraseFromAt
<1>6. ASSUME TimePriority PROVE TimePriority'
  <2>1. LevelsInTime(r, arrival, clock)
    <3>1. LevelsInTime(m, arrival, clock)
      BY <1>1, <1>6 DEF TimePriority
    <3> HIDE DEF m
    <3> QED BY <1>1, <1>2, <3>1, EraseFromInTime
  <2> QED BY <1>3, <1>6, <2>1 DEF TimePriority
<1> HIDE DEF r
<1>7. \A x \in Sides, y \in Prices, j \in Ids :
          At(book'[x], y, j) <=> At(book[x], y, j) /\ j # id
  BY <1>3, <1>4, <1>5
<1>8. RestingIds' = RestingIds \ {id}
  BY <1>7 DEF RestingIds, Resting
<1> QED BY <1>6, <1>8

\* addOrderToBook appends an order that is not in the book.
LEMMA BookAfterPush ==
  ASSUME IInv, NEW id \in Ids, ~Resting(id), addOrderToBook(id)
  PROVE  /\ RestingIds' = RestingIds \cup {id}
         /\ TimePriority => TimePriority'
<1> DEFINE s == order[id].side
           p == order[id].price
           m == book[s]
           r == PushBack(m, p, id)
<1>1. s \in Sides /\ p \in Prices
  BY DEF IInv, TypeOK, Orders
<1>2. IsLevelMap(m) /\ \A x \in Sides, y \in Prices : ~At(book[x], y, id)
  BY <1>1, BookMaps DEF Resting
<1>3. /\ book'[s] = r /\ DOMAIN book' = Sides
      /\ \A x \in Sides \ {s} : book'[x] = book[x]
      /\ arrival' = [arrival EXCEPT ![id] = clock] /\ clock' = clock + 1
  BY <1>1, BookMaps DEF addOrderToBook
<1> HIDE DEF s, p
<1>4. \A x \in Prices, j \in Ids :
          At(r, x, j) <=> At(m, x, j) \/ (x = p /\ j = id)
  <2> HIDE DEF m
  <2> QED BY <1>1, <1>2, PushBackAt
<1>5. ASSUME TimePriority PROVE TimePriority'
  <2>1. LevelsInTime(r, arrival', clock')
    <3>1. LevelsInTime(m, arrival, clock) /\ \A y \in Prices : ~At(m, y, id)
      BY <1>1, <1>2, <1>5 DEF TimePriority
    <3>2. arrival \in [Ids -> Nat] /\ clock \in Nat
      BY BookMaps
    <3> HIDE DEF m
    <3> QED BY <1>1, <1>2, <1>3, <3>1, <3>2, PushBackInTime
  <2>2. ASSUME NEW x \in Sides PROVE LevelsInTime(book[x], arrival', clock')
    <3> DEFINE n == book[x]
    <3>1. /\ LevelsInTime(n, arrival, clock) /\ \A y \in Prices : ~At(n, y, id)
          /\ IsLevelMap(n) /\ arrival \in [Ids -> Nat] /\ clock \in Nat
      BY <1>2, <1>5, BookMaps DEF TimePriority
    <3> HIDE DEF n
    <3>2. LevelsInTime(n, arrival', clock')
      BY <1>1, <1>3, <3>1, PushBackInTime
    <3> QED BY <3>2 DEF n
  <2> QED BY <1>3, <2>1, <2>2 DEF TimePriority
<1> HIDE DEF r
<1>6. \A x \in Sides, y \in Prices, j \in Ids :
          At(book'[x], y, j) <=>
              At(book[x], y, j) \/ (x = s /\ y = p /\ j = id)
  BY <1>1, <1>3, <1>4
<1>7. RestingIds' = RestingIds \cup {id}
  BY <1>1, <1>6 DEF RestingIds, Resting
<1> QED BY <1>5, <1>7

----------------------------------------------------------------------------
(* The book implements the exchange: each step, seen through the orders    *)
(* and the set of orders in the book, is a step of the exchange or none.   *)

LEMMA InitRefines == Init => Ex!Init /\ TimePriority
<1> SUFFICES ASSUME Init PROVE Ex!Init /\ TimePriority
  OBVIOUS
<1>1. \A s \in Sides : DOMAIN book[s] = {}
  BY DEF Init
<1>2. RestingIds = {}
  BY <1>1 DEF RestingIds, Resting, At
<1>3. Ex!Init
  BY <1>2 DEF Init, Ex!Init, Ex!Blank, NoOrder
<1> QED BY <1>1, <1>3 DEF TimePriority, LevelsInTime

\* A step that changes neither the orders nor the book.
LEMMA StutterRefines ==
  ASSUME UNCHANGED <<order, book, arrival, clock>>
  PROVE  UNCHANGED Ex!evars /\ (TimePriority => TimePriority')
<1>1. RestingIds' = RestingIds
  BY DEF RestingIds, Resting
<1> QED BY <1>1 DEF Ex!evars, TimePriority

\* addOrder accepts an order.
LEMMA AddRefines ==
  ASSUME NEW t \in Threads, NEW id \in Ids, NEW in \in Inputs,
         addOrder(t, id, NewOrder(in))
  PROVE  Ex!Next /\ (TimePriority => TimePriority')
<1>1. /\ order' = [order EXCEPT ![id] = NewOrder(in)]
      /\ NewOrder(in).rem > 0 /\ order[id].status = "NONE"
      /\ UNCHANGED <<book, arrival, clock>>
  BY DEF addOrder, AddStop, AddPlain, Accepts, history
<1>2. RestingIds' = RestingIds
  BY <1>1 DEF RestingIds, Resting
<1>3. Ex!Submit(id, in)
  BY <1>1, <1>2 DEF Ex!Submit, NewOrder
<1> QED BY <1>1, <1>3 DEF Ex!Next, TimePriority

\* cancelOrder cancels an order of the book or a stored stop.
LEMMA CancelRefines ==
  ASSUME IInv, NEW t \in Threads, NEW id \in Ids, CancelOrder(t, id)
  PROVE  Ex!Next /\ (TimePriority => TimePriority')
<1> DEFINE o == order[id]
<1>1. /\ mutex = NoThread /\ id \in orders_by_id
      /\ order' = [order EXCEPT ![id] = cancel(o)]
      /\ IF isStopOrder(o)
         THEN UNCHANGED book
         ELSE book' = [book EXCEPT ![o.side] = EraseFrom(@, o.price, id)]
      /\ UNCHANGED <<arrival, clock>>
  BY DEF CancelOrder, history
<1>2. Ex!Live(o) /\ cancel(o) = [o EXCEPT !.status = "CANCELED"]
  <2>1. ~InFlight(id)
    BY <1>1 DEF IInv, MutualExclusion, InFlight, InQueue
  <2>2. Resting(id) \/ Stored(id)
    BY <1>1, <2>1 DEF IInv, IndexExact
  <2>3. o.status \in {"PENDING", "PARTIAL"}
    BY <2>2 DEF IInv, Resting, Stored, BookSound, StopsSound, Open
  <2> QED BY <2>3 DEF Ex!Live, cancel, Closed
<1>3. RestingIds' = RestingIds \ {id} /\ (TimePriority => TimePriority')
  <2>1. CASE isStopOrder(o)
    <3>1. ~Resting(id)
      BY <2>1 DEF IInv, Resting, BookSound, isStopOrder
    <3>2. RestingIds' = RestingIds
      BY <1>1, <2>1 DEF RestingIds, Resting
    <3> QED BY <1>1, <2>1, <3>1, <3>2 DEF RestingIds, TimePriority
  <2>2. CASE ~isStopOrder(o)
    BY <1>1, <2>2, BookAfterErase
  <2> QED BY <2>1, <2>2
<1>4. order' = [order EXCEPT ![id].status = "CANCELED"]
  BY <1>1, <1>2
<1>5. Ex!Cancel(id)
  BY <1>1, <1>2, <1>3, <1>4 DEF Ex!Cancel
<1> QED BY <1>3, <1>5 DEF Ex!Next

\* A fill that is not refused is the exchange's.
LEMMA FillIsFilled ==
  ASSUME NEW o \in Orders, NEW q \in Nat, q <= o.rem,
         o.status \in {"PENDING", "PARTIAL"}
  PROVE  fill(o, q) = Ex!Filled(o, q)
<1>1. o.rem \in Nat
  BY DEF Orders
<1>2. o.rem - q = 0 <=> q = o.rem
  BY <1>1
<1>3. ~(o.status \in Closed \/ q > o.rem)
  BY <1>1 DEF Closed
<1> QED BY <1>2, <1>3 DEF fill, Ex!Filled

(***************************************************************************)
(* One trade of matchOrder: its two orders are different and open, and the *)
(* quantity is positive and within what is left of both.                   *)
(***************************************************************************)
Paired(taker, maker, other, level, q) ==
    /\ taker = Head(todo) /\ other = Opposite(order[taker].side)
    /\ level \in DOMAIN book[other] /\ level = BestPrice(other)
    /\ maker = Head(book[other][level])
    /\ order[taker] \in Orders /\ Open(order[taker]) /\ ~Resting(taker)
    /\ order[taker].type \in {"LIMIT", "MARKET"}
    /\ order[maker] \in Orders /\ Open(order[maker]) /\ maker # taker
    /\ order[maker].price = level /\ order[maker].side = other
    /\ At(book[other], level, maker)
    /\ q > 0 /\ q <= order[taker].rem /\ q <= order[maker].rem

Traded(t, taker, maker, other, level, q) ==
    LET bought == IF other = "SELL" THEN taker ELSE maker
        sold   == IF other = "SELL" THEN maker ELSE taker
        trade  == [buy |-> bought, sell |-> sold, price |-> order[maker].price,
                   qty |-> q]
    IN  /\ Paired(taker, maker, other, level, q)
        /\ order' = [order EXCEPT ![taker] = fill(@, q), ![maker] = fill(@, q)]
        /\ traded' = [traded EXCEPT ![taker] = @ + q, ![maker] = @ + q]
        /\ pending_trades' = [pending_trades EXCEPT ![t] = Append(@, trade)]
        /\ pending_order_updates' =
               [pending_order_updates EXCEPT ![t] = @ \o <<bought, sold>>]
        /\ IF order'[maker].rem = 0
           THEN book' = [book EXCEPT ![other] =
                             SetLevel(@, level, Tail(book[other][level]))]
           ELSE UNCHANGED book

LEMMA MatchEffect ==
  ASSUME IInv, NEW t \in Threads, Match(t)
  PROVE  \E taker, maker \in Ids, other \in Sides, level \in Prices, q \in Nat :
             Traded(t, taker, maker, other, level, q)
<1>1. /\ pc[t] = "match" /\ todo # <<>> /\ Matchable(order[Head(todo)])
  BY DEF Match
<1>2. PICK taker \in Ids : taker = Head(todo)
  BY <1>1, TodoHead
<1>3. PICK other \in Sides : other = Opposite(order[taker].side)
  BY DEF Opposite, Sides
<1>4. /\ order[taker] \in Orders /\ Open(order[taker]) /\ ~Resting(taker)
      /\ order[taker].type \in {"LIMIT", "MARKET"}
  BY <1>1, <1>2, TodoHead DEF Matchable, Resting
<1>5. /\ IsLevelMap(book[other]) /\ WellFormed(book[other])
      /\ DOMAIN book[other] # {} /\ DOMAIN book[other] \in SUBSET Prices
  BY <1>1, <1>2, <1>3 DEF IInv, TypeOK, BookSound, IsLevelMap, Matchable
<1>6. PICK level \in Prices : level \in DOMAIN book[other] /\ level = BestPrice(other)
  BY <1>5, ExtremePrices DEF BestPrice
<1>7. PICK maker \in Ids : maker = Head(book[other][level])
  BY <1>5, <1>6, PopFrontAt
<1>8. /\ At(book[other], level, maker) /\ maker # taker
      /\ order[maker] \in Orders /\ Open(order[maker])
      /\ order[maker].price = level /\ order[maker].side = other
  <2>1. At(book[other], level, maker)
    BY <1>5, <1>6, <1>7, PopFrontAt
  <2> QED BY <1>4, <2>1 DEF IInv, BookSound, TypeOK, Resting
<1> DEFINE min == IF order[taker].rem <= order[maker].rem
                  THEN order[taker].rem ELSE order[maker].rem
<1>9. PICK q \in Nat : q = min
  BY <1>4, <1>8 DEF Orders
<1>10. q > 0 /\ q <= order[taker].rem /\ q <= order[maker].rem
  BY <1>4, <1>8, <1>9 DEF Orders, Open
<1>11. Paired(taker, maker, other, level, q)
  BY <1>2, <1>3, <1>4, <1>6, <1>7, <1>8, <1>10 DEF Paired
<1>12. Traded(t, taker, maker, other, level, q)
  BY <1>2, <1>3, <1>6, <1>7, <1>9, <1>10, <1>11 DEF Match, Traded
<1> QED BY <1>12

(***************************************************************************)
(* A trade of the book is a trade of the exchange.  The maker is the front *)
(* order of the best level: any other offer of its side is at a worse      *)
(* price or behind it in the queue, hence arrived later.                   *)
(***************************************************************************)
LEMMA MatchRefines ==
  ASSUME IInv, TimePriority, NEW t \in Threads, Match(t)
  PROVE  Ex!Next /\ TimePriority'
<1>1. /\ Matchable(order[Head(todo)]) /\ UNCHANGED <<arrival, clock>>
  BY DEF Match
<1>2. PICK taker \in Ids, maker \in Ids, other \in Sides, level \in Prices, q \in Nat :
          Traded(t, taker, maker, other, level, q)
  BY MatchEffect
<1>2a. Paired(taker, maker, other, level, q)
  BY <1>2 DEF Traded
<1>3. taker = Head(todo) /\ other = Opposite(order[taker].side)
  BY <1>2a DEF Paired
<1>4. /\ order[taker] \in Orders /\ Open(order[taker]) /\ ~Resting(taker)
      /\ order[taker].type \in {"LIMIT", "MARKET"}
  BY <1>2a DEF Paired
<1>5. /\ IsLevelMap(book[other]) /\ WellFormed(book[other])
      /\ DOMAIN book[other] # {} /\ DOMAIN book[other] \in SUBSET Prices
  BY <1>2a, BookMaps DEF Paired, IsLevelMap
<1>6. level \in DOMAIN book[other] /\ level = BestPrice(other)
  BY <1>2a DEF Paired
<1>7. maker = Head(book[other][level])
  BY <1>2a DEF Paired
<1>8. /\ At(book[other], level, maker) /\ level \in Prices /\ maker # taker
      /\ order[maker] \in Orders /\ Open(order[maker])
      /\ order[maker].price = level /\ order[maker].side = other
  BY <1>2a DEF Paired
<1>9. q > 0 /\ q <= order[taker].rem /\ q <= order[maker].rem
  BY <1>2a DEF Paired
<1>10. /\ order' = [order EXCEPT ![taker] = fill(@, q), ![maker] = fill(@, q)]
       /\ IF order'[maker].rem = 0
          THEN book' = [book EXCEPT ![other] =
                            SetLevel(@, level, Tail(book[other][level]))]
          ELSE UNCHANGED book
  BY <1>2 DEF Traded
<1>11. /\ fill(order[taker], q) = Ex!Filled(order[taker], q)
       /\ fill(order[maker], q) = Ex!Filled(order[maker], q)
  BY <1>4, <1>8, <1>9, FillIsFilled DEF Open
<1>12. order' = [order EXCEPT ![taker] = Ex!Filled(@, q), ![maker] = Ex!Filled(@, q)]
  BY <1>8, <1>10, <1>11
<1>13. order'[maker].rem = 0 <=> q = order[maker].rem
  <2>1. order'[maker] = fill(order[maker], q)
    BY <1>8, <1>10 DEF IInv, TypeOK
  <2>2. order'[maker].rem = order[maker].rem - q
    BY <1>8, <1>9, <2>1, FillFields DEF Open
  <2> QED BY <1>8, <1>9, <2>2 DEF Orders
<1>14. /\ RestingIds' = IF q = order[maker].rem THEN RestingIds \ {maker}
                                                ELSE RestingIds
       /\ TimePriority'
  <2>1. CASE q = order[maker].rem
    BY <1>1, <1>6, <1>7, <1>10, <1>13, <2>1, BookAfterPop
  <2>2. CASE q # order[maker].rem
    <3>1. UNCHANGED book
      BY <1>10, <1>13, <2>2
    <3>2. RestingIds' = RestingIds
      BY <3>1 DEF RestingIds, Resting
    <3> QED BY <1>1, <2>2, <3>1, <3>2 DEF TimePriority
  <2> QED BY <2>1, <2>2
\* Price-time priority of the maker.
<1>15. ASSUME NEW r \in RestingIds \ {maker}, order[r].side = order[maker].side
       PROVE  Ex!Before(maker, r)
  <2>1. PICK s \in Sides, p \in Prices : At(book[s], p, r)
    BY DEF RestingIds, Resting
  <2>2. r \in Ids /\ s = other /\ order[r].price = p /\ p \in DOMAIN book[other]
    BY <1>8, <1>15, <2>1 DEF IInv, BookSound, RestingIds, At
  <2>3. CASE p = level
    <3>1. PICK k \in 1 .. Len(book[other][level]) : book[other][level][k] = r
      BY <2>1, <2>2, <2>3 DEF At, InQueue
    <3>2. /\ book[other][level] \in Seq(Ids) /\ book[other][level] # <<>>
          /\ InTime(book[other][level], arrival)
      BY <1>5, <1>6 DEF IsLevelMap, WellFormed, TimePriority, LevelsInTime
    <3>3. book[other][level][1] = maker /\ 1 \in 1 .. Len(book[other][level]) /\ 1 < k
      BY <1>7, <1>15, <3>1, <3>2
    <3>4. arrival[maker] < arrival[r]
      BY <3>1, <3>2, <3>3 DEF InTime
    <3> QED BY <1>8, <2>2, <2>3, <3>4 DEF Ex!Before
  <2>4. CASE p # level
    <3>1. p \in Nat /\ level \in Nat
      BY <1>8, PricesAssumption
    <3>2. CASE other = "BUY"
      <4>1. p <= level
        BY <1>5, <1>6, <2>2, <3>2, ExtremePrices DEF BestPrice
      <4> QED BY <1>8, <2>2, <2>4, <3>1, <3>2, <4>1 DEF Ex!Before
    <3>3. CASE other = "SELL"
      <4>1. level <= p
        BY <1>5, <1>6, <2>2, <3>3, ExtremePrices DEF BestPrice
      <4> QED BY <1>8, <2>2, <2>4, <3>1, <3>3, <4>1 DEF Ex!Before
    <3> QED BY <3>2, <3>3 DEF Sides
  <2> QED BY <2>3, <2>4
<1>16. Ex!Compatible(order[taker], order[maker])
  BY <1>1, <1>3, <1>4, <1>6, <1>8
     DEF Ex!Compatible, Matchable, Opposite, Orders, Sides
<1>17. taker \notin RestingIds /\ maker \in RestingIds
  BY <1>4, <1>8 DEF RestingIds, Resting
<1>18. Ex!Live(order[taker]) /\ ~Ex!IsStop(order[taker])
  BY <1>4 DEF Ex!Live, Ex!IsStop, Open
<1>19. Ex!Trade(taker, maker, q)
  BY <1>1, <1>9, <1>12, <1>14, <1>15, <1>16, <1>17, <1>18 DEF Ex!Trade
<1>20. q \in 1 .. order[maker].rem
  BY <1>8, <1>9 DEF Orders
<1> QED BY <1>14, <1>19, <1>20 DEF Ex!Next

(***************************************************************************)
(* The head of the round cannot match: what is left of a market order is   *)
(* canceled; what is left of a limit order is offered, and no offer could  *)
(* serve it because the best one cannot.                                   *)
(***************************************************************************)
LEMMA SettleRefines ==
  ASSUME IInv, TimePriority, NEW t \in Threads, Settle(t)
  PROVE  [Ex!Next]_(Ex!evars) /\ TimePriority'
<1>1. PICK id \in Ids : id = Head(todo)
  BY TodoHead DEF Settle
<1> DEFINE o == order[id]
           rests == o.rem > 0 /\ o.status \notin {"FILLED", "CANCELED"}
<1>2. /\ o \in Orders /\ o.type \in {"LIMIT", "MARKET"} /\ ~Resting(id)
      /\ Open(o) \/ (o.status = "FILLED" /\ o.rem = 0)
      /\ ~Matchable(o)
  BY <1>1, TodoHead DEF Settle, Resting
<1>3. rests => Open(o) /\ Ex!Live(o)
  BY <1>2 DEF Ex!Live, Open
<1>4. CASE ~rests
  BY <1>1, <1>4, StutterRefines DEF Settle
<1>5. CASE rests /\ o.type = "MARKET"
  <2>1. order' = [order EXCEPT ![id] = cancel(o)] /\ UNCHANGED <<book, arrival, clock>>
    BY <1>1, <1>5 DEF Settle
  <2>2. cancel(o) = [o EXCEPT !.status = "CANCELED"]
    BY <1>3, <1>5 DEF cancel, Closed, Open
  <2>3. RestingIds' = RestingIds \ {id}
    BY <1>2, <2>1 DEF RestingIds, Resting
  <2>4. order' = [order EXCEPT ![id].status = "CANCELED"]
    BY <2>1, <2>2
  <2>5. Ex!Cancel(id)
    BY <1>3, <1>5, <2>1, <2>3, <2>4 DEF Ex!Cancel
  <2> QED BY <2>1, <2>5 DEF Ex!Next, TimePriority
<1>6. CASE rests /\ o.type = "LIMIT"
  <2>1. addOrderToBook(id) /\ UNCHANGED order
    BY <1>1, <1>6 DEF Settle
  <2>2. RestingIds' = RestingIds \cup {id} /\ TimePriority'
    BY <1>2, <2>1, BookAfterPush
  <2>3. ASSUME NEW r \in RestingIds PROVE ~Ex!Compatible(o, order[r])
    <3>1. PICK s \in Sides, p \in Prices : At(book[s], p, r)
      BY DEF RestingIds, Resting
    <3>2. r \in Ids /\ order[r].side = s /\ order[r].price = p /\ p \in DOMAIN book[s]
      BY <3>1 DEF IInv, BookSound, RestingIds, At
    <3>3. /\ DOMAIN book[s] \in SUBSET Prices /\ DOMAIN book[s] # {}
          /\ Prices \subseteq Nat /\ o.price \in Nat /\ p \in Nat
      BY <1>2, <3>1, <3>2, BookMaps, PricesAssumption DEF IsLevelMap, Orders
    <3>4. /\ Lowest(DOMAIN book[s]) \in Nat /\ Lowest(DOMAIN book[s]) <= p
          /\ Highest(DOMAIN book[s]) \in Nat /\ p <= Highest(DOMAIN book[s])
      BY <3>2, <3>3, ExtremePrices
    <3>5. CASE o.side = "BUY" /\ s = "SELL"
      <4>1. ~(o.price >= Lowest(DOMAIN book["SELL"]))
        BY <1>2, <1>6, <3>3, <3>5 DEF Matchable, BestPrice, Opposite
      <4>2. ~(o.price >= p)
        BY <3>3, <3>4, <3>5, <4>1
      <4> QED BY <1>6, <3>2, <3>5, <4>2 DEF Ex!Compatible
    <3>6. CASE o.side = "SELL" /\ s = "BUY"
      <4>1. ~(o.price <= Highest(DOMAIN book["BUY"]))
        BY <1>2, <1>6, <3>3, <3>6 DEF Matchable, BestPrice, Opposite
      <4>2. ~(o.price <= p)
        BY <3>3, <3>4, <3>6, <4>1
      <4> QED BY <1>6, <3>2, <3>6, <4>2 DEF Ex!Compatible
    <3>7. CASE o.side = s
      BY <3>2, <3>7 DEF Ex!Compatible
    <3>8. o.side \in Sides
      BY <1>2 DEF Orders
    <3> QED BY <3>5, <3>6, <3>7, <3>8 DEF Sides
  <2>4. Ex!Offer(id)
    BY <1>2, <1>3, <1>6, <2>1, <2>2, <2>3 DEF Ex!Offer, addOrderToBook, RestingIds
  <2> QED BY <2>2, <2>4 DEF Ex!Next
<1> QED BY <1>2, <1>4, <1>5, <1>6

\* The scan triggers an existing level.
LEMMA TriggeredLevel ==
  ASSUME IInv, NEW t \in Threads, TriggerBuy(t) \/ TriggerSell(t)
  PROVE  \E side \in Sides : \E p \in DOMAIN stops[side] : TriggerLevel(side, p)
<1>1. prices \subseteq Prices /\ \A s \in Sides : DOMAIN stops[s] \subseteq Prices
  BY DEF IInv, TypeOK, IsLevelMap
<1>2. "BUY" \in Sides /\ "SELL" \in Sides
  BY DEF Sides
<1>3. CASE TriggerBuy(t)
  <2> DEFINE S == CrossedBy("BUY", Lowest(prices))
  <2>1. S # {} /\ S \subseteq DOMAIN stops["BUY"] /\ TriggerLevel("BUY", Lowest(S))
    BY <1>3 DEF TriggerBuy, CrossedBy
  <2> HIDE DEF S
  <2>2. Lowest(S) \in DOMAIN stops["BUY"]
    BY <1>1, <1>2, <2>1, ExtremePrices
  <2> QED BY <1>2, <2>1, <2>2
<1>4. CASE TriggerSell(t)
  <2> DEFINE S == CrossedBy("SELL", Lowest(prices))
  <2>1. S # {} /\ S \subseteq DOMAIN stops["SELL"] /\ TriggerLevel("SELL", Highest(S))
    BY <1>4 DEF TriggerSell, CrossedBy
  <2> HIDE DEF S
  <2>2. Highest(S) \in DOMAIN stops["SELL"]
    BY <1>1, <1>2, <2>1, ExtremePrices
  <2> QED BY <1>2, <2>1, <2>2
<1> QED BY <1>3, <1>4

\* The scan triggers all stops of one level.
LEMMA TriggerRefines ==
  ASSUME IInv, NEW t \in Threads, TriggerBuy(t) \/ TriggerSell(t)
  PROVE  Ex!Next /\ (TimePriority => TimePriority')
<1>0. PICK side \in Sides : \E p \in DOMAIN stops[side] : TriggerLevel(side, p)
  BY TriggeredLevel
<1>1. PICK p \in DOMAIN stops[side] : TriggerLevel(side, p)
  BY <1>0
<1> DEFINE q == stops[side][p]
           S == {i \in Ids : InQueue(q, i)}
<1>2. UNCHANGED <<book, arrival, clock>>
  BY DEF TriggerBuy, TriggerSell, history
<1>3. \A i \in S : isStopOrder(order[i]) /\ Ex!Live(order[i]) /\ order[i] \in Orders
  <2>1. p \in Prices
    BY DEF IInv, TypeOK, IsLevelMap
  <2>2. \A i \in S : At(stops[side], p, i)
    BY DEF At
  <2> QED BY <2>1, <2>2 DEF IInv, StopsSound, TypeOK, Ex!Live
<1>4. \A i \in S : trigger(order[i]) =
          [order[i] EXCEPT !.type =
               IF order[i].type = "STOP" THEN "MARKET" ELSE "LIMIT"]
  BY <1>3 DEF trigger, isStopOrder
<1>5. order' = [i \in Ids |-> IF i \in S THEN trigger(order[i]) ELSE order[i]]
  BY <1>1 DEF TriggerLevel
<1> HIDE DEF S
<1>6. RestingIds' = RestingIds
  BY <1>2 DEF RestingIds, Resting
<1>7. Ex!Trigger(S)
  BY <1>2, <1>3, <1>4, <1>5, <1>6 DEF Ex!Trigger, Ex!IsStop, isStopOrder
<1>8. S \in SUBSET Ids
  BY DEF S
<1> QED BY <1>2, <1>7, <1>8 DEF Ex!Next, TimePriority

LEMMA NextRefines ==
  IInv /\ TimePriority /\ [Next]_vars => [Ex!Next]_(Ex!evars) /\ TimePriority'
<1> SUFFICES ASSUME IInv, TimePriority, [Next]_vars
             PROVE  [Ex!Next]_(Ex!evars) /\ TimePriority'
  OBVIOUS
<1>1. CASE UNCHANGED vars
  BY <1>1, StutterRefines DEF vars, history
<1>2. CASE Next
  <2>1. PICK t \in Threads : Call(t) \/ Step(t)
    BY <1>2 DEF Next
  <2>2. CASE Call(t)
    <3>1. CASE \E id \in Ids, in \in Inputs : addOrder(t, id, NewOrder(in))
      BY <3>1, AddRefines
    <3>2. CASE \E id \in Ids : CancelOrder(t, id)
      BY <3>2, CancelRefines
    <3>3. CASE ReturnFalse(t)
      BY <1>1, <3>3 DEF ReturnFalse
    <3> QED BY <2>2, <3>1, <3>2, <3>3 DEF Call
  <2>3. CASE Step(t)
    <3>1. CASE Match(t)
      BY <3>1, MatchRefines
    <3>2. CASE Settle(t)
      BY <3>2, SettleRefines
    <3>3. CASE TriggerBuy(t) \/ TriggerSell(t)
      BY <3>3, TriggerRefines
    <3>4. CASE \/ EndRound(t) \/ NextPrice(t) \/ NextRound(t) \/ Unlock(t)
               \/ NotifyTrade(t) \/ NotifyUpdate(t) \/ NotifyIncoming(t)
      <4>1. UNCHANGED <<order, book, arrival, clock>>
        BY <3>4 DEF EndRound, NextPrice, NextRound, Unlock, NotifyTrade,
                    NotifyUpdate, NotifyIncoming, history
      <4> QED BY <4>1, StutterRefines
    <3> QED BY <2>3, <3>1, <3>2, <3>3, <3>4 DEF Step
  <2> QED BY <2>1, <2>2, <2>3
<1> QED BY <1>1, <1>2

(***************************************************************************)
(* addOrder and cancelOrder, whatever their interleaving, implement the    *)
(* exchange: every trade is with the offer that is first in price and then *)
(* in time, within the limits of both orders and for the same quantity of  *)
(* both, only an order no offer can serve is offered, and a filled or      *)
(* canceled order never changes again.                                     *)
(***************************************************************************)
THEOREM BookImplementsExchange == Spec => ImplementsExchange
<1>1. Init => Ex!Init /\ TimePriority /\ IInv
  BY InitRefines, InitInv
<1>2. IInv /\ TimePriority /\ [Next]_vars =>
          IInv' /\ TimePriority' /\ [Ex!Next]_(Ex!evars)
  BY NextRefines, NextInv
<1> QED BY <1>1, <1>2, PTL DEF Spec, ImplementsExchange, Ex!Spec

ExchangeInv == Ex!ExchangeTypeOK /\ Ex!LiveExactly /\ Ex!NoCrossedOffers

(***************************************************************************)
(* The exchange that the book implements, from its specification alone.    *)
(* ExchangeInv is inductive: NoCrossedOffers needs LiveExactly, which says *)
(* that the orders on offer are limit orders, so that being incompatible   *)
(* is a matter of their prices.                                            *)
(***************************************************************************)
LEMMA FilledFields ==
  ASSUME NEW o \in Ex!LedgerOrders, NEW q \in Nat, q <= o.rem
  PROVE  /\ Ex!Filled(o, q) \in Ex!LedgerOrders
         /\ Ex!Filled(o, q).side = o.side
         /\ Ex!Filled(o, q).type = o.type
         /\ Ex!Filled(o, q).price = o.price
         /\ Ex!Filled(o, q).rem = o.rem - q
         /\ Ex!Filled(o, q).status = IF q = o.rem THEN "FILLED" ELSE "PARTIAL"
<1> DEFINE st == IF q = o.rem THEN "FILLED" ELSE "PARTIAL"
           r == o.rem - q
<1>1. st \in {"FILLED", "PARTIAL"} /\ r \in Nat
  BY DEF Ex!LedgerOrders
<1>2. Ex!Filled(o, q) = [o EXCEPT !.rem = r, !.status = st]
  BY DEF Ex!Filled
<1> HIDE DEF st, r
<1>3. /\ Ex!Filled(o, q) \in Ex!LedgerOrders
      /\ Ex!Filled(o, q).side = o.side
      /\ Ex!Filled(o, q).type = o.type
      /\ Ex!Filled(o, q).price = o.price
      /\ Ex!Filled(o, q).rem = r
      /\ Ex!Filled(o, q).status = st
  BY <1>1, <1>2 DEF Ex!LedgerOrders
<1> QED BY <1>3 DEF st, r

LEMMA ExchangeInit == Ex!Init => ExchangeInv
  BY DEF Ex!Init, Ex!Blank, ExchangeInv, Ex!ExchangeTypeOK, Ex!LedgerOrders, Ex!LiveExactly,
         Ex!NoCrossedOffers, Ex!Live

LEMMA ExchangeStep ==
  ASSUME Ex!InputsAreOrders, ExchangeInv, [Ex!Next]_(Ex!evars)
  PROVE  ExchangeInv'
<1> USE DEF ExchangeInv
<1>1. ASSUME NEW id \in Ids, NEW in \in Inputs, Ex!Submit(id, in)
      PROVE  ExchangeInv'
  <2> DEFINE new == [side |-> in.side, type |-> in.type, price |-> in.price,
                     stop |-> in.stop, qty |-> in.qty, rem |-> in.qty,
                     status |-> "PENDING"]
  <2>1. /\ order' = [order EXCEPT ![id] = new]
        /\ UNCHANGED <<RestingIds, arrival, clock>>
        /\ id \notin RestingIds /\ in.qty > 0
    BY <1>1 DEF Ex!Submit, Ex!LiveExactly, Ex!Live
  <2>2. Ex!ExchangeTypeOK'
    BY <2>1 DEF Ex!InputsAreOrders, Ex!ExchangeTypeOK, Ex!LedgerOrders
  <2>3. Ex!LiveExactly'
    BY <2>1 DEF Ex!InputsAreOrders, Ex!LiveExactly, Ex!Live, Ex!ExchangeTypeOK
  <2>4. Ex!NoCrossedOffers'
    BY <2>1 DEF Ex!NoCrossedOffers, Ex!ExchangeTypeOK
  <2> QED BY <2>2, <2>3, <2>4
<1>2. ASSUME NEW taker \in Ids, NEW maker \in Ids,
             NEW q \in 1 .. order[maker].rem, Ex!Trade(taker, maker, q)
      PROVE  ExchangeInv'
  <2>1. /\ taker # maker /\ taker \notin RestingIds /\ maker \in RestingIds
        /\ order' = [order EXCEPT ![taker] = Ex!Filled(order[taker], q),
                                    ![maker] = Ex!Filled(order[maker], q)]
        /\ RestingIds' = IF q = order[maker].rem THEN RestingIds \ {maker}
                                               ELSE RestingIds
        /\ UNCHANGED <<arrival, clock>>
        /\ q \in Nat /\ q <= order[taker].rem /\ q <= order[maker].rem
    BY <1>2 DEF Ex!Trade, Ex!ExchangeTypeOK
  <2> DEFINE T == Ex!Filled(order[taker], q)
             M == Ex!Filled(order[maker], q)
  <2>2. /\ order'[taker] = T /\ order'[maker] = M
        /\ \A i \in Ids \ {taker, maker} : order'[i] = order[i]
    BY <2>1 DEF Ex!ExchangeTypeOK
  <2>3. order[taker] \in Ex!LedgerOrders /\ order[maker] \in Ex!LedgerOrders
    BY DEF Ex!ExchangeTypeOK
  <2>4. /\ T \in Ex!LedgerOrders /\ M \in Ex!LedgerOrders
        /\ M.side = order[maker].side /\ M.price = order[maker].price
        /\ M.type = order[maker].type
        /\ T.rem = order[taker].rem - q /\ M.rem = order[maker].rem - q
        /\ T.status = IF q = order[taker].rem THEN "FILLED" ELSE "PARTIAL"
        /\ M.status = IF q = order[maker].rem THEN "FILLED" ELSE "PARTIAL"
    BY <2>1, <2>3, FilledFields
  <2> HIDE DEF T, M
  <2>5. Ex!ExchangeTypeOK'
    BY <2>1, <2>4 DEF Ex!ExchangeTypeOK, T, M
  <2>6. Ex!LiveExactly'
    <3>1. \A r \in RestingIds' : Ex!Live(order[r])' /\ order'[r].type = "LIMIT"
      BY <2>1, <2>2, <2>4 DEF Ex!ExchangeTypeOK, Ex!LiveExactly, Ex!Live
    <3>2. ASSUME NEW i \in Ids
          PROVE  /\ Ex!Live(order[i])' => order'[i].rem > 0
                 /\ order'[i].status = "FILLED" => order'[i].rem = 0
      <4>1. /\ q \in Nat /\ order[taker].rem \in Nat
            /\ order[maker].rem \in Nat
        BY <2>1, <2>3 DEF Ex!LedgerOrders
      <4>2. CASE i = taker
        BY <2>1, <2>2, <2>4, <4>1, <4>2 DEF Ex!Live
      <4>3. CASE i = maker
        BY <2>1, <2>2, <2>4, <4>1, <4>3 DEF Ex!Live
      <4>4. CASE i \notin {taker, maker}
        BY <2>2, <4>4 DEF Ex!LiveExactly, Ex!Live
      <4> QED BY <4>2, <4>3, <4>4
    <3> QED BY <3>1, <3>2 DEF Ex!LiveExactly
  <2>7. Ex!NoCrossedOffers'
    <3>1. \A r \in RestingIds' : /\ r \in RestingIds
                              /\ order'[r].side = order[r].side
                              /\ order'[r].price = order[r].price
      BY <2>1, <2>2, <2>4 DEF Ex!ExchangeTypeOK
    <3> QED BY <3>1 DEF Ex!NoCrossedOffers
  <2> QED BY <2>5, <2>6, <2>7
<1>3. ASSUME NEW id \in Ids, Ex!Offer(id) PROVE ExchangeInv'
  <2>1. Ex!ExchangeTypeOK' /\ Ex!LiveExactly'
    BY <1>3 DEF Ex!Offer, Ex!ExchangeTypeOK, Ex!LedgerOrders, Ex!LiveExactly
  <2>2. Ex!NoCrossedOffers'
    BY <1>3 DEF Ex!Offer, Ex!Compatible, Ex!NoCrossedOffers, Ex!ExchangeTypeOK, Ex!LedgerOrders, Ex!LiveExactly
  <2> QED BY <2>1, <2>2
<1>4. ASSUME NEW id \in Ids, Ex!Cancel(id) PROVE ExchangeInv'
  BY <1>4 DEF Ex!Cancel, Ex!ExchangeTypeOK, Ex!LedgerOrders, Ex!LiveExactly, Ex!NoCrossedOffers, Ex!Live
<1>5. ASSUME NEW S \in SUBSET Ids, Ex!Trigger(S) PROVE ExchangeInv'
  <2>1. \A r \in RestingIds : r \notin S
    BY <1>5 DEF Ex!Trigger, Ex!IsStop, Ex!LiveExactly, Ex!ExchangeTypeOK, Ex!LedgerOrders
  <2>2. Ex!ExchangeTypeOK'
    BY <1>5 DEF Ex!Trigger, Ex!ExchangeTypeOK, Ex!LedgerOrders
  <2>3. Ex!LiveExactly'
    BY <1>5, <2>1 DEF Ex!Trigger, Ex!ExchangeTypeOK, Ex!LedgerOrders, Ex!LiveExactly, Ex!Live
  <2>4. Ex!NoCrossedOffers'
    BY <1>5, <2>1 DEF Ex!Trigger, Ex!ExchangeTypeOK, Ex!LedgerOrders, Ex!NoCrossedOffers
  <2> QED BY <2>2, <2>3, <2>4
<1>6. CASE UNCHANGED Ex!evars
  BY <1>6 DEF Ex!evars, Ex!ExchangeTypeOK, Ex!LedgerOrders, Ex!LiveExactly, Ex!NoCrossedOffers, Ex!Live
<1> QED BY <1>1, <1>2, <1>3, <1>4, <1>5, <1>6 DEF Ex!Next

\* The inputs of the book are what the exchange is to be given.
LEMMA ExchangeInputs == Ex!InputsAreOrders
  BY InputsAssumption, PricesAssumption DEF Ex!InputsAreOrders, Sides, OrderTypes

(***************************************************************************)
(* Serving orders by price and time is enough: the offers of the exchange  *)
(* never cross, and exactly the orders with something left are live,       *)
(* whatever implements it.                                                 *)
(***************************************************************************)
THEOREM ExchangeSafe ==
    Ex!Spec => [](Ex!ExchangeTypeOK /\ Ex!LiveExactly /\ Ex!NoCrossedOffers)
<1>1. ExchangeInv /\ [Ex!Next]_(Ex!evars) => ExchangeInv'
  BY ExchangeStep, ExchangeInputs
<1> QED BY <1>1, ExchangeInit, PTL DEF Ex!Spec, ExchangeInv

\* So are the orders that rest in bids_ and asks_, because the book implements
\* the exchange.
THEOREM BookOffersSafe == Spec => [](Ex!LiveExactly /\ Ex!NoCrossedOffers)
  BY ExchangeSafe, BookImplementsExchange, PTL DEF ImplementsExchange

----------------------------------------------------------------------------
(* Stop orders.  The trades of a call are scanned round by round, and a    *)
(* price is dropped once no stop is left that it crosses.  Stops only      *)
(* leave the maps while the mutex is held, so a price that was dropped     *)
(* stays clear of stops until the mutex is released.                       *)

\* No stored stop is crossed by a trade at price p.
Clear(p) == \A s \in Sides : CrossedBy(s, p) = {}

\* Thread t's scan: it starts without trades, scans only prices of its trades,
\* and a trade of an earlier round, or one whose price is dropped, is clear.
ScanSound(t) ==
    /\ pc[t] = "idle" => pending_trades[t] = <<>>
    /\ pc[t] \in {"match", "scan"} =>
           /\ mark <= Len(pending_trades[t])
           /\ \A p \in prices : \E k \in 1 .. Len(pending_trades[t]) :
                  pending_trades[t][k].price = p
           /\ \A k \in 1 .. Len(pending_trades[t]) :
                  \/ /\ k > mark
                     /\ pc[t] = "match" \/ pending_trades[t][k].price \in prices
                  \/ Clear(pending_trades[t][k].price)

\* An order that was not submitted yet is no stop order.
BlankPlain == \A id \in Ids : order[id].status = "NONE" => ~isStopOrder(order[id])

ScanInv == BlankPlain /\ \A t \in Threads : ScanSound(t)

\* The scan of a thread that does not move is disturbed only by a change of the
\* maps while it holds the mutex.
LEMMA OtherScan ==
  ASSUME IInv, NEW u \in Threads, ScanSound(u),
         pc'[u] = pc[u], pending_trades'[u] = pending_trades[u],
         mutex = u => UNCHANGED <<stops, prices, mark>>
  PROVE  ScanSound(u)'
<1>1. CASE pc[u] \notin {"match", "scan"}
  BY <1>1 DEF ScanSound
<1>2. CASE pc[u] \in {"match", "scan"}
  <2>1. UNCHANGED <<stops, prices, mark>>
    BY <1>2 DEF IInv, MutualExclusion
  <2> QED BY <1>2, <2>1 DEF ScanSound, Clear, CrossedBy
<1> QED BY <1>1, <1>2

\* addOrder and cancelOrder begin.
LEMMA CallScan ==
  ASSUME IInv, ScanInv, NEW t \in Threads, NEW id \in Ids,
         \/ \E N \in Orders : N.status # "NONE" /\ addOrder(t, id, N)
         \/ CancelOrder(t, id)
  PROVE  ScanInv'
<1>1. /\ mutex = NoThread /\ pc[t] = "idle" /\ UNCHANGED pending_trades
      /\ \/ pc' = [pc EXCEPT ![t] = "notify"]
         \/ pc' = [pc EXCEPT ![t] = "match"] /\ mark' = 0 /\ UNCHANGED prices
  BY DEF addOrder, AddStop, AddPlain, CancelOrder
<1>2. pc \in [Threads -> {"idle", "match", "scan", "notify"}] /\ prices = {}
  BY <1>1 DEF IInv, TypeOK, MutualExclusion
<1>3. \A u \in Threads \ {t} : ScanSound(u)'
  BY <1>1, <1>2, OtherScan, ThreadsAssumption DEF ScanInv
<1>4. ScanSound(t)'
  <2>1. pending_trades[t] = <<>>
    BY <1>1 DEF ScanInv, ScanSound
  <2> QED BY <1>1, <1>2, <2>1 DEF ScanSound
<1>5. BlankPlain'
  <2>1. PICK o \in Orders : order' = [order EXCEPT ![id] = o] /\ o.status # "NONE"
    <3>1. CASE \E N \in Orders : N.status # "NONE" /\ addOrder(t, id, N)
      BY <3>1 DEF addOrder, AddStop, AddPlain
    <3>2. CASE CancelOrder(t, id)
      <4>1. /\ order[id].status \in {"PENDING", "PARTIAL"} /\ order[id] \in Orders
            /\ order' = [order EXCEPT ![id] = cancel(order[id])]
        <5>1. id \in orders_by_id /\ ~InFlight(id)
          BY <1>1, <3>2 DEF CancelOrder, IInv, MutualExclusion, InFlight, InQueue
        <5>2. Resting(id) \/ Stored(id)
          BY <5>1 DEF IInv, IndexExact
        <5> QED BY <3>2, <5>2 DEF CancelOrder, IInv, Resting, Stored, BookSound,
                                  StopsSound, Open, TypeOK
      <4> QED BY <4>1, CancelFields
    <3> QED BY <3>1, <3>2
  <2> QED BY <2>1 DEF ScanInv, BlankPlain, IInv, TypeOK
<1> QED BY <1>3, <1>4, <1>5 DEF ScanInv

\* matchOrder and its settling: trades are appended, stops stay.
LEMMA MatchScan ==
  ASSUME IInv, ScanInv, NEW t \in Threads, Match(t) \/ Settle(t)
  PROVE  /\ ScanInv'
         /\ \A id \in Ids : order'[id].type = order[id].type
<1>1. /\ pc[t] = "match" /\ mutex = t /\ todo # <<>>
      /\ UNCHANGED <<pc, stops, prices, mark>>
      /\ \A u \in Threads \ {t} : pending_trades'[u] = pending_trades[u]
      /\ \/ pending_trades'[t] = pending_trades[t]
         \/ \E tr : pending_trades'[t] = Append(pending_trades[t], tr)
      /\ pending_trades[t] \in Seq(Trades)
  <2>1. pending_trades \in [Threads -> Seq(Trades)] /\ (pc[t] = "match" => mutex = t)
    BY DEF IInv, TypeOK, MutualExclusion
  <2>2. CASE Settle(t)
    BY <2>1, <2>2 DEF Settle, callVars
  <2>3. CASE Match(t)
    <3>0. PICK a \in Ids, b \in Ids, other \in Sides, level \in Prices, q \in Nat :
              Traded(t, a, b, other, level, q)
      BY <2>3, MatchEffect
    <3>1. \E tr : pending_trades' = [pending_trades EXCEPT ![t] = Append(@, tr)]
      BY <3>0 DEF Traded
    <3>2. /\ pc[t] = "match" /\ todo # <<>>
          /\ UNCHANGED <<pc, stops, prices, mark>>
      BY <2>3 DEF Match, lockVars
    <3> QED BY <2>1, <3>1, <3>2
  <2> QED BY <2>2, <2>3
<1>2. \A u \in Threads \ {t} : ScanSound(u)'
  BY <1>1, OtherScan DEF ScanInv
<1>3. ScanSound(t)'
  <2>1. CASE pending_trades'[t] = pending_trades[t]
    BY <1>1, <2>1, OtherScan DEF ScanInv
  <2>2. CASE \E tr : pending_trades'[t] = Append(pending_trades[t], tr)
    <3> DEFINE a == pending_trades[t]
    <3>1. /\ Len(a') = Len(a) + 1 /\ Len(a) \in Nat /\ mark \in Nat
          /\ \A k \in 1 .. Len(a) : a'[k] = a[k]
      BY <1>1, <2>2 DEF IInv, TypeOK
    <3>2. prices = {} /\ mark <= Len(a)
      BY <1>1 DEF IInv, MutualExclusion, ScanInv, ScanSound
    <3>3. ASSUME NEW k \in 1 .. Len(a') PROVE k > mark \/ Clear(a[k].price)'
      <4>1. CASE k \in 1 .. Len(a)
        <5>1. k > mark \/ Clear(a[k].price)
          BY <1>1, <4>1 DEF ScanInv, ScanSound
        <5> QED BY <1>1, <3>1, <4>1, <5>1 DEF Clear, CrossedBy
      <4>2. CASE k = Len(a) + 1
        BY <3>1, <3>2, <4>2
      <4> QED BY <3>1, <4>1, <4>2
    <3>4. mark' <= Len(a') /\ prices' = {} /\ pc'[t] = "match" /\ mark' = mark
      BY <1>1, <3>1, <3>2
    <3> QED BY <3>3, <3>4 DEF ScanSound
  <2> QED BY <1>1, <2>1, <2>2
<1>4. ASSUME NEW id \in Ids
      PROVE  /\ order'[id].type = order[id].type
             /\ order'[id].status = "NONE" => order[id].status = "NONE"
  <2>1. ASSUME NEW o \in Orders, NEW q
        PROVE  /\ fill(o, q).type = o.type /\ cancel(o).type = o.type
               /\ fill(o, q).status = "NONE" => o.status = "NONE"
               /\ cancel(o).status = "NONE" => o.status = "NONE"
    BY DEF fill, cancel, Orders
  <2>2. order \in [Ids -> Orders] /\ Head(todo) \in Ids
    BY <1>1, TodoHead DEF IInv, TypeOK
  <2>3. CASE Settle(t)
    <3>1. \/ order' = order
          \/ order' = [order EXCEPT ![Head(todo)] = cancel(order[Head(todo)])]
      BY <2>3 DEF Settle
    <3> QED BY <2>1, <2>2, <3>1
  <2>4. CASE Match(t)
    <3>1. PICK a \in Ids, b \in Ids, other \in Sides, level \in Prices, q \in Nat :
              Traded(t, a, b, other, level, q)
      BY <2>4, MatchEffect
    <3>2. order' = [order EXCEPT ![a] = fill(@, q), ![b] = fill(@, q)] /\ a # b
      BY <3>1 DEF Traded, Paired
    <3>3. order'[id] = order[id] \/ order'[id] = fill(order[id], q)
      BY <2>2, <3>2
    <3> QED BY <2>1, <2>2, <3>3
  <2> QED BY <2>3, <2>4
<1>5. BlankPlain'
  BY <1>4 DEF ScanInv, BlankPlain, isStopOrder
<1> QED BY <1>2, <1>3, <1>4, <1>5 DEF ScanInv

\* A level of stops that is triggered leaves the maps.
LEMMA TriggerScan ==
  ASSUME IInv, ScanInv, NEW t \in Threads, TriggerBuy(t) \/ TriggerSell(t)
  PROVE  ScanInv'
<1>1. /\ pc[t] = "scan" /\ mutex = t
      /\ UNCHANGED <<pc, pending_trades, prices, mark, mutex>>
      /\ \E s, p : TriggerLevel(s, p)
  BY DEF TriggerBuy, TriggerSell, callVars, IInv, MutualExclusion
<1>2. \A s \in Sides : DOMAIN stops'[s] \subseteq DOMAIN stops[s]
  <2>1. PICK side, p : stops' = [stops EXCEPT ![side] = EraseLevel(@, p)]
    BY <1>1 DEF TriggerLevel
  <2>2. \A m : DOMAIN EraseLevel(m, p) \subseteq DOMAIN m
    BY DEF EraseLevel
  <2> QED BY <2>1, <2>2 DEF IInv, TypeOK
<1>3. \A p : Clear(p) => Clear(p)'
  BY <1>2 DEF Clear, CrossedBy, Sides
<1>4. \A u \in Threads \ {t} : ScanSound(u)'
  BY <1>1, OtherScan DEF ScanInv
<1>5. ScanSound(t)'
  <2>1. ScanSound(t)
    BY DEF ScanInv
  <2>2. \A k : Clear(pending_trades[t][k].price) => Clear(pending_trades[t][k].price)'
    BY <1>1, <1>3
  <2> QED BY <1>1, <2>1, <2>2 DEF ScanSound
<1>6. BlankPlain'
  <2>1. \A id \in Ids : order'[id] = order[id] \/ order'[id] = trigger(order[id])
    BY <1>1 DEF TriggerLevel
  <2>2. \A o \in Orders : /\ trigger(o).status = o.status
                          /\ ~isStopOrder(o) => ~isStopOrder(trigger(o))
    BY DEF trigger, isStopOrder, Orders
  <2>3. order \in [Ids -> Orders]
    BY DEF IInv, TypeOK
  <2> QED BY <2>1, <2>2, <2>3 DEF ScanInv, BlankPlain
<1> QED BY <1>4, <1>5, <1>6 DEF ScanInv

\* The scan of a round begins, drops a price that is clear, and ends.
LEMMA RoundScan ==
  ASSUME IInv, ScanInv, NEW t \in Threads,
         EndRound(t) \/ NextPrice(t) \/ NextRound(t) \/ Unlock(t)
  PROVE  ScanInv'
<1>1. /\ pc[t] \in {"match", "scan"} /\ mutex = t
      /\ UNCHANGED <<order, stops, pending_trades>>
      /\ \A u \in Threads \ {t} : pc'[u] = pc[u]
      /\ pending_trades[t] \in Seq(Trades) /\ Len(pending_trades[t]) \in Nat
      /\ mark \in Nat /\ pc \in [Threads -> {"idle", "match", "scan", "notify"}]
      /\ prices \subseteq Prices
  BY DEF EndRound, NextPrice, NextRound, Unlock, callVars, IInv, TypeOK,
         MutualExclusion
<1>2. \A u \in Threads \ {t} : ScanSound(u)'
  BY <1>1, OtherScan DEF ScanInv
<1>3. BlankPlain'
  BY <1>1 DEF ScanInv, BlankPlain
<1>4. \A p : Clear(p) <=> Clear(p)'
  BY <1>1 DEF Clear, CrossedBy
<1>5. \A k : Clear(pending_trades[t][k].price) => Clear(pending_trades[t][k].price)'
  BY <1>1, <1>4
<1>6. ScanSound(t)
  BY DEF ScanInv
<1> SUFFICES ScanSound(t)'
  BY <1>2, <1>3 DEF ScanInv
<1>7. CASE EndRound(t)
  <2>1. /\ pc[t] = "match" /\ pc'[t] = "scan" /\ mark' = mark
        /\ prices' = {pending_trades[t][k].price :
                          k \in mark + 1 .. Len(pending_trades[t])}
    BY <1>1, <1>7 DEF EndRound
  <2>2. \A k \in 1 .. Len(pending_trades[t]) : k > mark =>
            pending_trades[t][k].price \in prices'
    BY <1>1, <2>1
  <2>3. \A p \in prices' : \E k \in 1 .. Len(pending_trades[t]) :
            pending_trades[t][k].price = p
    BY <1>1, <2>1
  <2> QED BY <1>1, <1>5, <1>6, <2>1, <2>2, <2>3 DEF ScanSound
<1>8. CASE NextPrice(t)
  <2>1. /\ pc[t] = "scan" /\ pc' = pc /\ mark' = mark
        /\ prices' = prices \ {Lowest(prices)} /\ Clear(Lowest(prices))
    BY <1>8 DEF NextPrice, Clear
  <2>2. \A k \in 1 .. Len(pending_trades[t]) :
            pending_trades[t][k].price \in prices =>
                \/ pending_trades[t][k].price \in prices'
                \/ Clear(pending_trades[t][k].price)
    BY <2>1
  <2> QED BY <1>1, <1>5, <1>6, <2>1, <2>2 DEF ScanSound
<1>9. CASE NextRound(t)
  <2>1. /\ pc[t] = "scan" /\ pc'[t] = "match" /\ prices = {} /\ prices' = prices
        /\ mark' = Len(pending_trades[t])
    BY <1>1, <1>9 DEF NextRound
  <2> QED BY <1>1, <1>5, <1>6, <2>1 DEF ScanSound
<1>10. CASE Unlock(t)
  <2>1. pc'[t] = "notify"
    BY <1>1, <1>10 DEF Unlock
  <2> QED BY <2>1 DEF ScanSound
<1> QED BY <1>7, <1>8, <1>9, <1>10

\* The callbacks: a call returns with its list of trades empty.
LEMMA NotifyScan ==
  ASSUME IInv, ScanInv, NEW t \in Threads,
         NotifyTrade(t) \/ NotifyUpdate(t) \/ NotifyIncoming(t)
  PROVE  ScanInv'
<1>1. /\ pc[t] = "notify" /\ pc \in [Threads -> {"idle", "match", "scan", "notify"}]
      /\ pending_trades \in [Threads -> Seq(Trades)]
      /\ UNCHANGED <<order, stops, prices, mark, mutex>>
      /\ \A u \in Threads \ {t} : pc'[u] = pc[u] /\ pending_trades'[u] = pending_trades[u]
      /\ pc'[t] = "notify" \/ (pc'[t] = "idle" /\ pending_trades'[t] = <<>>)
  BY DEF NotifyTrade, NotifyUpdate, NotifyIncoming, lockVars, IInv, TypeOK
<1>2. \A u \in Threads \ {t} : ScanSound(u)'
  BY <1>1, OtherScan DEF ScanInv
<1>3. ScanSound(t)'
  BY <1>1 DEF ScanSound
<1> QED BY <1>1, <1>2, <1>3 DEF ScanInv, BlankPlain

LEMMA InitScan == Init => ScanInv
  BY DEF Init, ScanInv, BlankPlain, ScanSound, NoOrder, isStopOrder

LEMMA NextScan == IInv /\ ScanInv /\ [Next]_vars => ScanInv'
<1> SUFFICES ASSUME IInv, ScanInv, [Next]_vars PROVE ScanInv'
  OBVIOUS
<1>1. CASE UNCHANGED vars
  <2>1. UNCHANGED <<order, pc, pending_trades, stops, prices, mark>>
    BY <1>1 DEF vars, lockVars, callVars
  <2>2. \A u \in Threads : ScanSound(u)'
    BY <2>1, OtherScan DEF ScanInv
  <2> QED BY <2>1, <2>2 DEF ScanInv, BlankPlain
<1>2. CASE Next
  <2>1. PICK t \in Threads : Call(t) \/ Step(t)
    BY <1>2 DEF Next
  <2>2. CASE Call(t)
    BY <1>1, <2>2, CallScan, NewOrderFields DEF Call, ReturnFalse
  <2>3. CASE Step(t)
    BY <2>3, MatchScan, TriggerScan, RoundScan, NotifyScan DEF Step
  <2> QED BY <2>1, <2>2, <2>3
<1> QED BY <1>1, <1>2

\* A step turns a stop order into a plain one only when it triggers its level,
\* and that level is crossed by a trade of the call.
LEMMA JustifiedStep ==
  ASSUME IInv, ScanInv, [Next]_vars, NEW id \in Ids,
         isStopOrder(order[id]), ~isStopOrder(order'[id])
  PROVE  \E k \in 1 .. Len(pending_trades[mutex]) :
             Crosses(order[id], pending_trades[mutex][k].price)
<1>1. order' # order
  OBVIOUS
<1>2. PICK t \in Threads : Call(t) \/ Step(t)
  BY <1>1 DEF Next, vars
<1>3. ~Call(t)
  <2>1. order \in [Ids -> Orders] /\ order[id].status # "NONE"
    BY DEF IInv, TypeOK, ScanInv, BlankPlain
  <2>2. ASSUME NEW j \in Ids, NEW in \in Inputs, addOrder(t, j, NewOrder(in))
        PROVE  FALSE
    BY <2>1, <2>2 DEF addOrder, AddStop, AddPlain, Accepts
  <2>3. ASSUME NEW j \in Ids, CancelOrder(t, j) PROVE FALSE
    <3>1. order' = [order EXCEPT ![j] = cancel(order[j])]
      BY <2>3 DEF CancelOrder
    <3>2. \A o \in Orders : cancel(o).type = o.type
      BY DEF cancel, Orders
    <3> QED BY <2>1, <3>1, <3>2 DEF isStopOrder
  <2> QED BY <1>1, <2>2, <2>3 DEF Call, ReturnFalse, vars
<1>4. ~Match(t) /\ ~Settle(t)
  BY MatchScan DEF isStopOrder
<1>5. TriggerBuy(t) \/ TriggerSell(t)
  BY <1>1, <1>2, <1>3, <1>4
     DEF Step, EndRound, NextPrice, NextRound, Unlock, NotifyTrade, NotifyUpdate,
         NotifyIncoming
<1>6. /\ pc[t] = "scan" /\ mutex = t /\ prices # {} /\ prices \in SUBSET Prices
      /\ Prices \subseteq Nat /\ \A s \in Sides : DOMAIN stops[s] \in SUBSET Prices
  BY <1>5, PricesAssumption DEF TriggerBuy, TriggerSell, IInv, MutualExclusion,
                                TypeOK, IsLevelMap
<1>7. Lowest(prices) \in prices
  BY <1>6, ExtremePrices
<1>8. PICK k \in 1 .. Len(pending_trades[t]) : pending_trades[t][k].price = Lowest(prices)
  BY <1>6, <1>7 DEF ScanInv, ScanSound
<1>9. ASSUME NEW side \in Sides, NEW p \in DOMAIN stops[side], TriggerLevel(side, p)
      PROVE  order[id].side = side /\ order[id].stop = p
  <2>1. InQueue(stops[side][p], id)
    BY <1>9 DEF TriggerLevel
  <2>2. At(stops[side], p, id) /\ p \in Prices
    BY <1>6, <2>1 DEF At
  <2> QED BY <2>2 DEF IInv, StopsSound
<1>10. CASE TriggerBuy(t)
  <2> DEFINE S == CrossedBy("BUY", Lowest(prices))
  <2>1. /\ S # {} /\ S \in SUBSET DOMAIN stops["BUY"] /\ TriggerLevel("BUY", Lowest(S))
        /\ \A p \in S : p <= Lowest(prices)
    BY <1>10 DEF TriggerBuy, CrossedBy
  <2> HIDE DEF S
  <2>2. "BUY" \in Sides /\ S \in SUBSET Prices
    BY <1>6, <2>1 DEF Sides
  <2>3. Lowest(S) \in S
    BY <2>1, <2>2, ExtremePrices
  <2>4. order[id].side = "BUY" /\ order[id].stop = Lowest(S)
    BY <1>9, <2>1, <2>2, <2>3
  <2>5. Lowest(prices) >= order[id].stop
    BY <1>6, <1>7, <2>1, <2>2, <2>3, <2>4
  <2> QED BY <1>6, <1>8, <2>4, <2>5 DEF Crosses
<1>11. CASE TriggerSell(t)
  <2> DEFINE S == CrossedBy("SELL", Lowest(prices))
  <2>1. /\ S # {} /\ S \in SUBSET DOMAIN stops["SELL"] /\ TriggerLevel("SELL", Highest(S))
        /\ \A p \in S : p >= Lowest(prices)
    BY <1>11 DEF TriggerSell, CrossedBy
  <2> HIDE DEF S
  <2>2. "SELL" \in Sides /\ S \in SUBSET Prices
    BY <1>6, <2>1 DEF Sides
  <2>3. Highest(S) \in S
    BY <2>1, <2>2, ExtremePrices
  <2>4. order[id].side = "SELL" /\ order[id].stop = Highest(S)
    BY <1>9, <2>1, <2>2, <2>3
  <2>5. Lowest(prices) <= order[id].stop
    BY <1>6, <1>7, <2>1, <2>2, <2>3, <2>4
  <2> QED BY <1>6, <1>8, <2>4, <2>5 DEF Crosses
<1> QED BY <1>5, <1>10, <1>11

\* The mutex is released only by Unlock, when every price has been scanned.
LEMMA ExhaustedStep ==
  ASSUME IInv, ScanInv, [Next]_vars, NEW t \in Threads, mutex = t, mutex' # t,
         NEW id \in Ids, Stored(id), NEW k \in 1 .. Len(pending_trades[t])
  PROVE  ~Crosses(order[id], pending_trades[t][k].price)
<1>1. PICK u \in Threads : Call(u) \/ Step(u)
  BY DEF Next, vars
<1>2. ~Call(u)
  BY ThreadsAssumption
     DEF Call, addOrder, AddStop, AddPlain, CancelOrder, ReturnFalse, vars
<1>3. Unlock(u)
  BY <1>1, <1>2
     DEF Step, Match, Settle, EndRound, TriggerBuy, TriggerSell, NextPrice,
         NextRound, NotifyTrade, NotifyUpdate, NotifyIncoming
<1>4. u = t /\ pc[t] = "scan" /\ prices = {}
  BY <1>3 DEF Unlock, IInv, MutualExclusion
<1>5. Clear(pending_trades[t][k].price)
  BY <1>4 DEF ScanInv, ScanSound
<1>6. PICK s \in Sides, p \in Prices : At(stops[s], p, id)
  BY DEF Stored
<1>7. order[id].side = s /\ order[id].stop = p /\ p \in DOMAIN stops[s]
  BY <1>6 DEF IInv, StopsSound, At
<1>8. p \in Nat /\ pending_trades[t][k].price \in Nat
  <2>1. pending_trades[t][k] \in Trades
    BY DEF IInv, TypeOK
  <2> QED BY <2>1, PricesAssumption DEF Trades
<1>9. pending_trades[t][k].price \in Nat /\ order[id].stop \in Nat
  BY <1>7, <1>8
<1>10. order[id].stop \notin CrossedBy(order[id].side, pending_trades[t][k].price)
  BY <1>5, <1>7 DEF Clear
<1> QED BY <1>7, <1>8, <1>10 DEF Crosses, CrossedBy

(***************************************************************************)
(* processStopOrders triggers a stop order only when a trade of the same   *)
(* addOrder call, cascades included, reaches its stop price.               *)
(***************************************************************************)
THEOREM StopsTriggeredByTrades == Spec => StopsJustified
<1>1. IInv /\ ScanInv /\ [Next]_vars =>
          [\A id \in Ids : isStopOrder(order[id]) /\ ~isStopOrder(order'[id]) =>
              \E k \in 1 .. Len(pending_trades[mutex]) :
                  Crosses(order[id], pending_trades[mutex][k].price)]_vars
  BY JustifiedStep
<1> QED BY <1>1, InitInv, NextInv, InitScan, NextScan, PTL
        DEF Spec, StopsJustified

(***************************************************************************)
(* processStopOrders leaves no stop order behind that a trade of the call  *)
(* should have triggered: when addOrder releases the mutex all are clear.  *)
(***************************************************************************)
THEOREM StopsNeverMissed == Spec => StopsExhausted
<1>1. IInv /\ ScanInv /\ [Next]_vars =>
          [\A t \in Threads : mutex = t /\ mutex' # t =>
              \A id \in Ids : Stored(id) =>
                  \A k \in 1 .. Len(pending_trades[t]) :
                      ~Crosses(order[id], pending_trades[t][k].price)]_vars
  BY ExhaustedStep
<1> QED BY <1>1, InitInv, NextInv, InitScan, NextScan, PTL
        DEF Spec, StopsExhausted

----------------------------------------------------------------------------
(* The order callbacks.  A report can be owed by a call only through its   *)
(* own order or through its list of updates.  Settling a market order adds *)
(* nothing to that list, so the order settled must be the call's own or a  *)
(* triggered stop.                                                         *)

OwedInv ==
    /\ ReportsOwed
    /\ \A id \in Ids : isStopOrder(order[id]) => id \in stop_ids
    /\ \A t \in Threads : pc[t] = "idle" => incoming[t] = NoId
    /\ \A t \in Threads : mutex = t =>
           \A id \in Ids : InFlight(id) => id = incoming[t] \/ Triggered(id)

\* What is owed stays owed when the order does not change and no list of
\* updates or own order is forgotten.
LEMMA StillOwed ==
  ASSUME OwedInv, NEW id \in Ids, order'[id] = order[id], reported'[id] = reported[id],
         stop_ids \subseteq stop_ids', ReportDue(id) => ReportDue(id)'
  PROVE  \/ reported'[id] = View(order'[id])
         \/ ReportDue(id)'
         \/ Triggered(id)'
  BY DEF OwedInv, ReportsOwed, Triggered

LEMMA CallOwed ==
  ASSUME IInv, OwedInv, NEW t \in Threads, NEW id \in Ids,
         \/ \E N : addOrder(t, id, N)
         \/ CancelOrder(t, id)
  PROVE  OwedInv'
<1>1. /\ pc[t] = "idle" /\ mutex = NoThread /\ incoming[t] = NoId
      /\ incoming' = [incoming EXCEPT ![t] = id]
      /\ UNCHANGED <<pending_order_updates, reported, triggered>>
      /\ stop_ids \subseteq stop_ids'
      /\ \E o : order' = [order EXCEPT ![id] = o]
  BY DEF addOrder, AddStop, AddPlain, CancelOrder, OwedInv, lockVars, history
<1>2. /\ order \in [Ids -> Orders] /\ incoming \in [Threads -> Ids \cup {NoId}]
      /\ pc \in [Threads -> {"idle", "match", "scan", "notify"}]
      /\ \A u \in Threads : mutex # u /\ todo = <<>> /\ triggered = <<>>
  BY <1>1, ThreadsAssumption DEF IInv, TypeOK, MutualExclusion
<1>3. incoming'[t] = id /\ \A u \in Threads \ {t} : incoming'[u] = incoming[u]
  BY <1>1, <1>2
<1>4. ReportDue(id)' /\ \A j \in Ids : ReportDue(j) => ReportDue(j)'
  BY <1>1, <1>3, IdsAssumption DEF ReportDue
<1>5. \A j \in Ids \ {id} : order'[j] = order[j]
  BY <1>1, <1>2
<1>6. ReportsOwed'
  BY <1>1, <1>4, <1>5, StillOwed DEF ReportsOwed
<1>7. \A j \in Ids : isStopOrder(order'[j]) => j \in stop_ids'
  <2>1. \A j \in Ids : isStopOrder(order[j]) => j \in stop_ids
    BY DEF OwedInv
  <2>2. isStopOrder(order'[id]) => id \in stop_ids'
    <3>1. CASE CancelOrder(t, id)
      <4>1. order'[id] = cancel(order[id]) /\ order[id] \in Orders
        BY <1>2, <3>1 DEF CancelOrder
      <4>2. order'[id].type = order[id].type
        BY <4>1 DEF cancel, Orders
      <4> QED BY <1>1, <2>1, <4>2 DEF isStopOrder
    <3>2. ASSUME NEW N, AddStop(t, id, N) PROVE id \in stop_ids'
      BY <3>2 DEF AddStop
    <3>3. ASSUME NEW N, AddPlain(t, id, N)
          PROVE  ~isStopOrder(order'[id])
      BY <1>2, <3>3 DEF AddPlain
    <3> QED BY <3>1, <3>2, <3>3 DEF addOrder
  <2> QED BY <1>1, <1>5, <2>1, <2>2
<1>8. \A u \in Threads : pc'[u] = "idle" => incoming'[u] = NoId
  <2>1. pc'[t] # "idle" /\ \A u \in Threads \ {t} : pc'[u] = pc[u]
    BY <1>2 DEF addOrder, AddStop, AddPlain, CancelOrder
  <2> QED BY <1>3, <2>1 DEF OwedInv
<1>9. \A u \in Threads : mutex' = u =>
          \A j \in Ids : InFlight(j)' => j = incoming'[u] \/ Triggered(j)'
  <2>1. \/ mutex' = NoThread
        \/ mutex' = t /\ todo' = <<id>> /\ triggered' = <<>>
    BY <1>1, <1>2 DEF addOrder, AddStop, AddPlain, CancelOrder
  <2>2. ASSUME mutex' = t, todo' = <<id>>, triggered' = <<>>, NEW j, InFlight(j)'
        PROVE  j = id
    BY <2>2 DEF InFlight, InQueue
  <2> QED BY <1>3, <2>1, <2>2, ThreadsAssumption
<1> QED BY <1>6, <1>7, <1>8, <1>9 DEF OwedInv

\* A trade puts both its orders on the list of updates, and no other.
LEMMA MatchDue ==
  ASSUME IInv, NEW t \in Threads, NEW a \in Ids, NEW b \in Ids, NEW other, NEW level,
         NEW q, Match(t), Traded(t, a, b, other, level, q)
  PROVE  \A j \in Ids : ReportDue(j)' <=> ReportDue(j) \/ j \in {a, b}
<1>1. pending_order_updates \in [Threads -> Seq(Ids)] /\ UNCHANGED incoming
  BY DEF IInv, TypeOK, Match
<1>2. PICK x \in Ids, y \in Ids :
          /\ {x, y} = {a, b}
          /\ pending_order_updates' =
                 [pending_order_updates EXCEPT ![t] = @ \o <<x, y>>]
  BY DEF Traded
<1> DEFINE p == pending_order_updates[t]
           r == p \o <<x, y>>
<1>3. /\ p \in Seq(Ids) /\ pending_order_updates'[t] = r
      /\ \A u \in Threads \ {t} : pending_order_updates'[u] = pending_order_updates[u]
  BY <1>1, <1>2
<1>4. /\ Len(r) = Len(p) + 2 /\ Len(p) \in Nat
      /\ r[Len(p) + 1] = x /\ r[Len(p) + 2] = y
      /\ \A i \in 1 .. Len(p) : r[i] = p[i]
  BY <1>3
<1> HIDE DEF r
<1>5. \A j : InQueue(r, j) <=> InQueue(p, j) \/ j \in {x, y}
  <2>1. Len(p) + 1 \in 1 .. Len(r) /\ Len(p) + 2 \in 1 .. Len(r)
    BY <1>4
  <2>2. \A i \in 1 .. Len(p) : i \in 1 .. Len(r)
    BY <1>4
  <2>3. \A i \in 1 .. Len(r) : i \in 1 .. Len(p) \/ i = Len(p) + 1 \/ i = Len(p) + 2
    BY <1>4
  <2>4. ASSUME NEW j, InQueue(p, j) \/ j \in {x, y} PROVE InQueue(r, j)
    BY <1>4, <2>1, <2>2, <2>4 DEF InQueue
  <2>5. ASSUME NEW j, InQueue(r, j) PROVE InQueue(p, j) \/ j \in {x, y}
    BY <1>4, <2>3, <2>5 DEF InQueue
  <2> QED BY <2>4, <2>5
<1>6. \A u \in Threads, j \in Ids : InQueue(pending_order_updates'[u], j) <=>
          InQueue(pending_order_updates[u], j) \/ (u = t /\ j \in {a, b})
  BY <1>2, <1>3, <1>5
<1> QED BY <1>1, <1>6 DEF ReportDue

LEMMA MatchOwed ==
  ASSUME IInv, ScanInv, OwedInv, NEW t \in Threads, Match(t)
  PROVE  OwedInv'
<1>1. PICK a \in Ids, b \in Ids, other \in Sides, level \in Prices, q \in Nat :
          Traded(t, a, b, other, level, q)
  BY MatchEffect
<1>2. /\ order \in [Ids -> Orders]
      /\ UNCHANGED <<pc, mutex, todo, triggered, incoming, reported, stop_ids>>
      /\ \A j \in Ids : order'[j].type = order[j].type
  BY MatchScan DEF IInv, TypeOK, Match, lockVars
<1>3. order' = [order EXCEPT ![a] = fill(@, q), ![b] = fill(@, q)]
  BY <1>1 DEF Traded
<1>4. \A j \in Ids \ {a, b} : order'[j] = order[j]
  BY <1>2, <1>3
<1>5. /\ ReportDue(a)' /\ ReportDue(b)'
      /\ \A j \in Ids : ReportDue(j) => ReportDue(j)'
  BY <1>1, MatchDue
<1>6. ReportsOwed'
  BY <1>2, <1>4, <1>5, StillOwed DEF ReportsOwed
<1>7. \A j \in Ids : Triggered(j)' <=> Triggered(j)
  BY <1>2 DEF Triggered, isStopOrder
<1> QED BY <1>2, <1>6, <1>7 DEF OwedInv, InFlight, isStopOrder

\* The order that is settled is the call's own or a triggered stop.
LEMMA SettleOwed ==
  ASSUME IInv, ScanInv, OwedInv, NEW t \in Threads, Settle(t)
  PROVE  OwedInv'
<1>1. /\ order \in [Ids -> Orders] /\ pc[t] = "match" /\ mutex = t /\ todo # <<>>
      /\ UNCHANGED <<pc, mutex, triggered, incoming, pending_order_updates,
                     reported, stop_ids>>
      /\ todo' = Tail(todo)
      /\ \A j \in Ids : order'[j].type = order[j].type
  BY MatchScan DEF IInv, TypeOK, MutualExclusion, Settle, callVars
<1>2. /\ Head(todo) \in Ids /\ InFlight(Head(todo))
      /\ \A j \in Ids : InQueue(Tail(todo), j) => InQueue(todo, j)
  BY <1>1, TodoHead
<1>3. \A j \in Ids \ {Head(todo)} : order'[j] = order[j]
  BY <1>1, <1>2 DEF Settle
<1>4. \A j \in Ids : ReportDue(j)' <=> ReportDue(j)
  BY <1>1 DEF ReportDue
<1>5. \A j \in Ids : Triggered(j)' <=> Triggered(j)
  BY <1>1 DEF Triggered, isStopOrder
<1>6. ReportDue(Head(todo)) \/ Triggered(Head(todo))
  BY <1>1, <1>2 DEF OwedInv, ReportDue
<1>7. ReportsOwed'
  BY <1>1, <1>3, <1>4, <1>5, <1>6, StillOwed DEF ReportsOwed
<1>8. \A j \in Ids : InFlight(j)' => InFlight(j)
  BY <1>1, <1>2 DEF InFlight
<1> QED BY <1>1, <1>5, <1>7, <1>8 DEF OwedInv, isStopOrder

\* The orders of a level that is triggered are the exception.
LEMMA TriggerOwed ==
  ASSUME IInv, OwedInv, NEW t \in Threads, TriggerBuy(t) \/ TriggerSell(t)
  PROVE  OwedInv'
<1>1. PICK side \in Sides : \E p \in DOMAIN stops[side] : TriggerLevel(side, p)
  BY TriggeredLevel
<1>2. PICK p \in DOMAIN stops[side] : TriggerLevel(side, p)
  BY <1>1
<1> DEFINE q == stops[side][p]
<1>3. /\ UNCHANGED <<pc, mutex, todo, incoming, pending_order_updates, reported,
                     stop_ids>>
      /\ order \in [Ids -> Orders] /\ triggered \in Seq(Ids) /\ q \in Seq(Ids)
      /\ p \in Prices
  BY DEF TriggerBuy, TriggerSell, callVars, history, IInv, TypeOK, IsLevelMap
<1>4. /\ order' = [i \in Ids |-> IF InQueue(q, i) THEN trigger(order[i])
                                                 ELSE order[i]]
      /\ triggered' = triggered \o q
  BY <1>2 DEF TriggerLevel
<1>5. ASSUME NEW j \in Ids, InQueue(q, j) PROVE Triggered(j)'
  <2>1. At(stops[side], p, j)
    BY <1>5 DEF At
  <2>2. isStopOrder(order[j])
    BY <1>3, <2>1 DEF IInv, StopsSound
  <2>3. ~isStopOrder(order'[j])
    BY <1>3, <1>4, <1>5, <2>2, TriggerFields
  <2> QED BY <1>3, <2>2, <2>3 DEF OwedInv, Triggered
<1> HIDE DEF q
<1>6. \A j \in Ids : ~InQueue(q, j) => order'[j] = order[j]
  BY <1>4
<1>7. \A j \in Ids : InQueue(triggered', j) => InQueue(triggered, j) \/ InQueue(q, j)
  BY <1>3, <1>4 DEF InQueue
<1>8. \A j \in Ids : ReportDue(j)' <=> ReportDue(j)
  BY <1>3 DEF ReportDue
<1>9. ReportsOwed'
  BY <1>3, <1>5, <1>6, <1>8, StillOwed DEF ReportsOwed
<1>10. \A j \in Ids : isStopOrder(order'[j]) => j \in stop_ids'
  BY <1>3, <1>5, <1>6 DEF OwedInv, Triggered
<1>11. \A j \in Ids : Triggered(j) => Triggered(j)'
  BY <1>3, <1>5, <1>6 DEF Triggered
<1>12. \A j \in Ids : InFlight(j)' => InFlight(j) \/ Triggered(j)'
  BY <1>3, <1>5, <1>7 DEF InFlight
<1> QED BY <1>3, <1>9, <1>10, <1>11, <1>12 DEF OwedInv

LEMMA RoundOwed ==
  ASSUME IInv, OwedInv, NEW t \in Threads,
         EndRound(t) \/ NextPrice(t) \/ NextRound(t) \/ Unlock(t)
  PROVE  OwedInv'
<1>1. /\ UNCHANGED <<order, incoming, pending_order_updates, reported, stop_ids>>
      /\ \/ UNCHANGED <<todo, triggered>>
         \/ todo' = triggered /\ triggered' = <<>>
      /\ mutex' \in {mutex, NoThread}
  BY DEF EndRound, NextPrice, NextRound, Unlock, callVars, history
<1>2. pc \in [Threads -> {"idle", "match", "scan", "notify"}]
  BY DEF IInv, TypeOK
<1>3. \A u \in Threads : pc'[u] = "idle" => pc[u] = "idle"
  BY <1>2 DEF EndRound, NextPrice, NextRound, Unlock
<1>4. \A j \in Ids : InFlight(j)' => InFlight(j)
  BY <1>1 DEF InFlight, InQueue
<1>5. ReportsOwed'
  BY <1>1 DEF OwedInv, ReportsOwed, ReportDue, Triggered
<1> QED BY <1>1, <1>3, <1>4, <1>5, ThreadsAssumption DEF OwedInv, Triggered

\* A callback pays what it takes off the list, or leaves it to the last one.
LEMMA NotifyOwed ==
  ASSUME IInv, OwedInv, NEW t \in Threads,
         NotifyTrade(t) \/ NotifyUpdate(t) \/ NotifyIncoming(t)
  PROVE  OwedInv'
<1>1. /\ UNCHANGED <<order, mutex, todo, triggered, stop_ids>>
      /\ pc \in [Threads -> {"idle", "match", "scan", "notify"}]
      /\ reported \in [Ids -> Views] /\ incoming \in [Threads -> Ids \cup {NoId}]
      /\ pending_order_updates \in [Threads -> Seq(Ids)] /\ pc[t] = "notify"
      /\ mutex # t
  BY DEF IInv, TypeOK, MutualExclusion, NotifyTrade, NotifyUpdate, NotifyIncoming,
         lockVars
<1>2. CASE NotifyTrade(t)
  <2>1. UNCHANGED <<pc, incoming, pending_order_updates, reported>>
    BY <1>2 DEF NotifyTrade
  <2> QED BY <1>1, <2>1 DEF OwedInv, ReportsOwed, ReportDue, Triggered, InFlight
<1>3. CASE NotifyUpdate(t)
  <2> DEFINE p == pending_order_updates[t]
  <2>0. PICK id \in Ids : id = Head(p)
    BY <1>1, <1>3 DEF NotifyUpdate
  <2>1. /\ p \in Seq(Ids) /\ p # <<>> /\ UNCHANGED <<pc, incoming>>
        /\ pending_order_updates' = [pending_order_updates EXCEPT ![t] = Tail(p)]
        /\ reported' = IF id = incoming[t] THEN reported
                       ELSE [reported EXCEPT ![id] = View(order[id])]
    BY <1>1, <1>3, <2>0 DEF NotifyUpdate
  <2>2. \A j : InQueue(p, j) => j = id \/ InQueue(Tail(p), j)
    <3> HIDE DEF p
    <3>1. /\ Len(p) \in Nat /\ id = p[1] /\ Len(Tail(p)) = Len(p) - 1
          /\ \A i \in 1 .. Len(p) - 1 : Tail(p)[i] = p[i + 1]
      BY <2>0, <2>1
    <3>2. ASSUME NEW i \in 1 .. Len(p) PROVE p[i] = id \/ InQueue(Tail(p), p[i])
      <4>1. CASE i # 1
        <5>1. i - 1 \in 1 .. Len(Tail(p)) /\ Tail(p)[i - 1] = p[i]
          BY <3>1, <4>1
        <5> QED BY <5>1 DEF InQueue
      <4> QED BY <3>1, <4>1
    <3> QED BY <2>1, <3>2 DEF InQueue
  <2>3. /\ pending_order_updates'[t] = Tail(p)
        /\ \A u \in Threads \ {t} : pending_order_updates'[u] = pending_order_updates[u]
    BY <1>1, <2>1
  <2>4. \A j \in Ids \ {id} : ReportDue(j) => ReportDue(j)'
    BY <2>1, <2>2, <2>3 DEF ReportDue
  <2>5. ReportDue(id)' \/ reported'[id] = View(order'[id])
    BY <1>1, <2>1, <2>2 DEF ReportDue
  <2>6. \A j \in Ids \ {id} : reported'[j] = reported[j]
    BY <1>1, <2>1, <2>2
  <2>7. ReportsOwed'
    BY <1>1, <2>4, <2>5, <2>6, StillOwed DEF ReportsOwed
  <2> QED BY <1>1, <2>1, <2>7 DEF OwedInv, Triggered, InFlight
<1>4. CASE NotifyIncoming(t)
  <2>1. /\ pending_order_updates[t] = <<>> /\ UNCHANGED pending_order_updates
        /\ reported' = [reported EXCEPT ![incoming[t]] = View(order[incoming[t]])]
        /\ incoming' = [incoming EXCEPT ![t] = NoId]
        /\ pc' = [pc EXCEPT ![t] = "idle"]
    BY <1>4 DEF NotifyIncoming
  <2>2. incoming'[t] = NoId /\ \A u \in Threads \ {t} : incoming'[u] = incoming[u]
    BY <1>1, <2>1
  <2>3. \A j \in Ids : j # incoming[t] /\ ReportDue(j) => ReportDue(j)'
    BY <2>1, <2>2 DEF ReportDue, InQueue
  <2>4. \A j \in Ids : \/ j # incoming[t] /\ reported'[j] = reported[j]
                       \/ j = incoming[t] /\ reported'[j] = View(order'[j])
    BY <1>1, <2>1
  <2>5. ReportsOwed'
    BY <1>1, <2>3, <2>4, StillOwed DEF ReportsOwed
  <2>6. \A u \in Threads : pc'[u] = "idle" => incoming'[u] = NoId
    BY <1>1, <2>1, <2>2 DEF OwedInv
  <2> QED BY <1>1, <2>2, <2>5, <2>6 DEF OwedInv, Triggered, InFlight
<1> QED BY <1>2, <1>3, <1>4

LEMMA InitOwed == Init => OwedInv
  BY ThreadsAssumption DEF Init, OwedInv, ReportsOwed, NoOrder, isStopOrder

LEMMA NextOwed == IInv /\ ScanInv /\ OwedInv /\ [Next]_vars => OwedInv'
<1> SUFFICES ASSUME IInv, ScanInv, OwedInv, [Next]_vars PROVE OwedInv'
  OBVIOUS
<1>1. CASE UNCHANGED vars
  BY <1>1 DEF vars, lockVars, callVars, history, OwedInv, ReportsOwed,
              ReportDue, Triggered, InFlight
<1>2. CASE Next
  <2>1. PICK t \in Threads : Call(t) \/ Step(t)
    BY <1>2 DEF Next
  <2>2. CASE Call(t)
    BY <1>1, <2>2, CallOwed DEF Call, ReturnFalse
  <2>3. CASE Step(t)
    BY <2>3, MatchOwed, SettleOwed, TriggerOwed, RoundOwed, NotifyOwed DEF Step
  <2> QED BY <2>1, <2>2, <2>3
<1> QED BY <1>1, <1>2

LEMMA OwedAlways == Spec => []OwedInv
  BY InitOwed, NextOwed, InitInv, NextInv, InitScan, NextScan, PTL DEF Spec

(***************************************************************************)
(* order_callback_ reads an order after the mutex is released, when other  *)
(* calls may have changed it.  Still, whenever its last view of an order   *)
(* is out of date some call owes it a report of that order, unless the     *)
(* order is a stop that was triggered.                                     *)
(***************************************************************************)
THEOREM ReportsAreOwed == Spec => []ReportsOwed
<1>1. OwedInv => ReportsOwed
  BY DEF OwedInv
<1> QED BY <1>1, OwedAlways, PTL

----------------------------------------------------------------------------
(* The trade callback.  Undelivered counts the units of an order in the    *)
(* trades that calls still hold: a trade adds its units to both orders and *)
(* a callback takes those of the first trade away, which moves all others  *)
(* of that call one place to the front.                                    *)

Units(t, k, q) == {<<t, k, u>> : u \in 1 .. q}

DeliverInv ==
    /\ TradesDelivered
    /\ \A id \in Ids : IsFiniteSet(Undelivered(id))
    /\ \A t \in Threads : \A k \in 1 .. Len(pending_trades[t]) :
           pending_trades[t][k].buy # pending_trades[t][k].sell

LEMMA UnitsCount ==
  ASSUME NEW t, NEW k, NEW q \in Nat
  PROVE  IsFiniteSet(Units(t, k, q)) /\ Cardinality(Units(t, k, q)) = q
<1> DEFINE S == Units(t, k, q)
           f == [u \in 1 .. q |-> <<t, k, u>>]
<1>1. f \in [1 .. q -> S] /\ \A u \in 1 .. q : f[u] = <<t, k, u>>
  BY DEF Units
<1>2. \A u, v \in 1 .. q : f[u] = f[v] => u = v
  BY <1>1
<1>3. \A x \in S : \E u \in 1 .. q : f[u] = x
  BY <1>1 DEF Units
<1> HIDE DEF S, f
<1>4. f \in Bijection(1 .. q, S)
  BY <1>1, <1>2, <1>3, Fun_IsBij
<1>5. ExistsBijection(1 .. q, S)
  BY <1>4 DEF ExistsBijection
<1>6. IsFiniteSet(1 .. q) /\ Cardinality(1 .. q) = q
  BY FS_Interval
<1>7. IsFiniteSet(S) /\ Cardinality(S) = q
  BY <1>5, <1>6, FS_Bijection
<1> QED BY <1>7 DEF S

\* The units of order id in the trades that the calls hold.
Holds(held, id, x) ==
    \E t \in Threads : \E k \in 1 .. Len(held[t]) :
        /\ id \in {held[t][k].buy, held[t][k].sell}
        /\ x \in Units(t, k, held[t][k].qty)

LEMMA UndeliveredUnits ==
  ASSUME NEW id
  PROVE  /\ \A x : x \in Undelivered(id) <=> Holds(pending_trades, id, x)
         /\ \A x : x \in Undelivered(id)' <=> Holds(pending_trades', id, x)
<1>1. ASSUME NEW held
      PROVE  \A x : Holds(held, id, x) <=>
                 x \in UNION {UNION {{<<t, k, u>> : u \in 1 .. held[t][k].qty} :
                                     k \in {j \in 1 .. Len(held[t]) :
                                               id \in {held[t][j].buy,
                                                      held[t][j].sell}}} :
                              t \in Threads}
  BY DEF Holds, Units
<1>2. \A x : x \in Undelivered(id) <=> Holds(pending_trades, id, x)
  BY <1>1 DEF Undelivered
<1>3. \A x : x \in Undelivered(id)' <=> Holds(pending_trades', id, x)
  BY <1>1 DEF Undelivered
<1> QED BY <1>2, <1>3

\* The trade appended by executeTrade.
LEMMA AppendUnits ==
  ASSUME NEW id, NEW t \in Threads, NEW trade \in Trades,
         pending_trades \in [Threads -> Seq(Trades)],
         pending_trades' = [pending_trades EXCEPT ![t] = Append(@, trade)],
         IsFiniteSet(Undelivered(id))
  PROVE  /\ IsFiniteSet(Undelivered(id)')
         /\ Cardinality(Undelivered(id)') = Cardinality(Undelivered(id)) +
                IF id \in {trade.buy, trade.sell} THEN trade.qty ELSE 0
<1> DEFINE p == pending_trades[t]
           n == Len(p) + 1
           new == Units(t, n, trade.qty)
           S == Undelivered(id)
           T == Undelivered(id)'
<1>1. /\ p \in Seq(Trades) /\ Len(p) \in Nat /\ trade.qty \in Nat
      /\ pending_trades'[t] = Append(p, trade)
      /\ \A u \in Threads \ {t} : pending_trades'[u] = pending_trades[u]
  <2>1. trade.qty \in Nat
    BY DEF Trades
  <2> QED BY <2>1
<1>2. /\ Len(pending_trades'[t]) = n /\ pending_trades'[t][n] = trade
      /\ \A k \in 1 .. Len(p) : pending_trades'[t][k] = p[k]
      /\ \A k \in 1 .. n : k \in 1 .. Len(p) \/ k = n
      /\ \A k \in 1 .. Len(p) : k \in 1 .. n /\ k # n
      /\ n \in 1 .. n
  BY <1>1
<1>3. \A x : x \in S <=>
          \E u \in Threads : \E k \in 1 .. Len(pending_trades[u]) :
              /\ id \in {pending_trades[u][k].buy, pending_trades[u][k].sell}
              /\ x \in Units(u, k, pending_trades[u][k].qty)
  BY UndeliveredUnits DEF Holds
<1>4. \A x : x \in T <=>
          \E u \in Threads : \E k \in 1 .. Len(pending_trades'[u]) :
              /\ id \in {pending_trades'[u][k].buy, pending_trades'[u][k].sell}
              /\ x \in Units(u, k, pending_trades'[u][k].qty)
  BY UndeliveredUnits DEF Holds
<1> HIDE DEF S, T, n
<1>5. \A x : x \in T <=> x \in S \/ (id \in {trade.buy, trade.sell} /\ x \in new)
  <2>1. ASSUME NEW x, x \in T
        PROVE  x \in S \/ (id \in {trade.buy, trade.sell} /\ x \in new)
    <3>1. PICK u \in Threads : \E k \in 1 .. Len(pending_trades'[u]) :
              /\ id \in {pending_trades'[u][k].buy, pending_trades'[u][k].sell}
              /\ x \in Units(u, k, pending_trades'[u][k].qty)
      BY <1>4, <2>1
    <3>2. CASE u # t
      BY <1>1, <1>3, <3>1, <3>2
    <3>3. CASE u = t
      BY <1>2, <1>3, <3>1, <3>3
    <3> QED BY <3>2, <3>3
  <2>2. ASSUME NEW x, x \in S PROVE x \in T
    <3>1. PICK u \in Threads : \E k \in 1 .. Len(pending_trades[u]) :
              /\ id \in {pending_trades[u][k].buy, pending_trades[u][k].sell}
              /\ x \in Units(u, k, pending_trades[u][k].qty)
      BY <1>3, <2>2
    <3>2. CASE u # t
      BY <1>1, <1>4, <3>1, <3>2
    <3>3. CASE u = t
      BY <1>2, <1>4, <3>1, <3>3
    <3> QED BY <3>2, <3>3
  <2>3. ASSUME NEW x, id \in {trade.buy, trade.sell}, x \in new PROVE x \in T
    BY <1>2, <1>4, <2>3
  <2> QED BY <2>1, <2>2, <2>3
<1>6. S \cap new = {}
  <2> SUFFICES ASSUME NEW x, x \in S, x \in new PROVE FALSE
    OBVIOUS
  <2>1. x[1] = t /\ x[2] = n
    BY DEF Units
  <2>2. PICK u \in Threads : \E k \in 1 .. Len(pending_trades[u]) :
                                 x[1] = u /\ x[2] = k
    BY <1>3 DEF Units
  <2> QED BY <1>2, <2>1, <2>2
<1>7. IsFiniteSet(new) /\ Cardinality(new) = trade.qty
  BY <1>1, UnitsCount
<1>8. IsFiniteSet(S)
  BY DEF S
<1> HIDE DEF new
<1>9. CASE id \in {trade.buy, trade.sell}
  <2>1. T = S \cup new
    BY <1>5, <1>9
  <2>2. /\ IsFiniteSet(T)
        /\ Cardinality(T) = Cardinality(S) + Cardinality(new) - Cardinality(S \cap new)
    BY <1>7, <1>8, <2>1, FS_Union
  <2>3. Cardinality(S) \in Nat /\ Cardinality(S \cap new) = 0
    BY <1>6, <1>8, FS_CardinalityType, FS_EmptySet
  <2>4. Cardinality(T) = Cardinality(S) + trade.qty
    BY <1>1, <1>7, <2>2, <2>3
  <2> QED BY <1>9, <2>2, <2>4 DEF S, T
<1>10. CASE id \notin {trade.buy, trade.sell}
  <2>1. T = S
    BY <1>5, <1>10
  <2>2. Cardinality(S) \in Nat
    BY <1>8, FS_CardinalityType
  <2>3. IsFiniteSet(T) /\ Cardinality(T) = Cardinality(S) + 0
    BY <1>8, <2>1, <2>2
  <2> QED BY <1>10, <2>3 DEF S, T
<1> QED BY <1>9, <1>10

\* The trade taken off by a callback.
LEMMA TailUnits ==
  ASSUME NEW id, NEW t \in Threads, NEW trade \in Trades,
         pending_trades \in [Threads -> Seq(Trades)], pending_trades[t] # <<>>,
         trade = Head(pending_trades[t]),
         pending_trades' = [pending_trades EXCEPT ![t] = Tail(@)],
         IsFiniteSet(Undelivered(id))
  PROVE  /\ IsFiniteSet(Undelivered(id)')
         /\ Cardinality(Undelivered(id)') \in Nat
         /\ Cardinality(Undelivered(id)) = Cardinality(Undelivered(id)') +
                IF id \in {trade.buy, trade.sell} THEN trade.qty ELSE 0
<1> DEFINE p == pending_trades[t]
           old == IF id \in {trade.buy, trade.sell} THEN Units(t, 1, trade.qty) ELSE {}
           S == Undelivered(id)
           R == S \ old
           T == Undelivered(id)'
           f == [x \in R |-> IF x[1] = t THEN <<t, x[2] - 1, x[3]>> ELSE x]
<1>1. /\ p \in Seq(Trades) /\ Len(p) \in Nat /\ trade.qty \in Nat
      /\ p[1] = trade /\ 1 \in 1 .. Len(p)
      /\ pending_trades'[t] = Tail(p)
      /\ \A u \in Threads \ {t} : pending_trades'[u] = pending_trades[u]
  <2>1. trade.qty \in Nat
    BY DEF Trades
  <2> QED BY <2>1
<1>2. /\ Len(pending_trades'[t]) = Len(p) - 1
      /\ \A k \in 1 .. Len(p) - 1 : pending_trades'[t][k] = p[k + 1] /\ k + 1 \in 1 .. Len(p)
      /\ \A k \in 1 .. Len(p) : k # 1 => k - 1 \in 1 .. Len(p) - 1 /\ k - 1 + 1 = k
  BY <1>1
<1>3. \A x : x \in S <=>
          \E u \in Threads : \E k \in 1 .. Len(pending_trades[u]) :
              /\ id \in {pending_trades[u][k].buy, pending_trades[u][k].sell}
              /\ x \in Units(u, k, pending_trades[u][k].qty)
  BY UndeliveredUnits DEF Holds
<1>4. \A x : x \in T <=>
          \E u \in Threads : \E k \in 1 .. Len(pending_trades'[u]) :
              /\ id \in {pending_trades'[u][k].buy, pending_trades'[u][k].sell}
              /\ x \in Units(u, k, pending_trades'[u][k].qty)
  BY UndeliveredUnits DEF Holds
<1> HIDE DEF S, T
<1>5. old \subseteq S
  BY <1>1, <1>3
\* The other units, those of thread t and those of the other threads.
<1>6. ASSUME NEW x \in R
      PROVE  \/ /\ x[1] # t /\ x \in T
             \/ /\ x[1] = t /\ x[2] \in Int /\ x = <<t, x[2], x[3]>>
                /\ <<t, x[2] - 1, x[3]>> \in T
  <2>0. PICK u \in Threads : \E k \in 1 .. Len(pending_trades[u]) :
            /\ id \in {pending_trades[u][k].buy, pending_trades[u][k].sell}
            /\ x \in Units(u, k, pending_trades[u][k].qty)
    BY <1>3 DEF R
  <2>1. PICK k \in 1 .. Len(pending_trades[u]) : \E v \in 1 .. pending_trades[u][k].qty :
            /\ id \in {pending_trades[u][k].buy, pending_trades[u][k].sell}
            /\ x = <<u, k, v>>
    BY <2>0 DEF Units
  <2>11. PICK v \in 1 .. pending_trades[u][k].qty : x = <<u, k, v>>
    BY <2>1
  <2>2. CASE u # t
    <3>1. x \in Units(u, k, pending_trades'[u][k].qty)
      BY <1>1, <2>1, <2>11, <2>2 DEF Units
    <3> QED BY <1>1, <1>4, <2>1, <2>11, <2>2, <3>1
  <2>3. CASE u = t
    <3>1. k # 1
      BY <1>1, <2>1, <2>11, <2>3 DEF Units
    <3>2. /\ k - 1 \in 1 .. Len(pending_trades'[t])
          /\ pending_trades'[t][k - 1] = pending_trades[t][k]
      BY <1>2, <2>1, <2>11, <2>3, <3>1
    <3>3. <<t, k - 1, v>> \in Units(t, k - 1, pending_trades'[t][k - 1].qty)
      BY <2>1, <2>11, <2>3, <3>2 DEF Units
    <3>4. <<t, k - 1, v>> \in T
      BY <1>4, <2>1, <2>11, <2>3, <3>2, <3>3
    <3>5. x[1] = t /\ x[2] = k /\ x[3] = v /\ x = <<t, k, v>> /\ k \in Int
      BY <2>11, <2>3
    <3> QED BY <3>4, <3>5
  <2> QED BY <2>2, <2>3
<1>7. ASSUME NEW y \in T
      PROVE  \/ y[1] # t /\ y \in R
             \/ /\ y[1] = t /\ y[2] \in Int /\ y = <<t, y[2], y[3]>>
                /\ <<t, y[2] + 1, y[3]>> \in R
  <2>0. PICK u \in Threads : \E k \in 1 .. Len(pending_trades'[u]) :
            /\ id \in {pending_trades'[u][k].buy, pending_trades'[u][k].sell}
            /\ y \in Units(u, k, pending_trades'[u][k].qty)
    BY <1>4 DEF R
  <2>1. PICK k \in 1 .. Len(pending_trades'[u]) : \E v \in 1 .. pending_trades'[u][k].qty :
            /\ id \in {pending_trades'[u][k].buy, pending_trades'[u][k].sell}
            /\ y = <<u, k, v>>
    BY <2>0 DEF Units
  <2>11. PICK v \in 1 .. pending_trades'[u][k].qty : y = <<u, k, v>>
    BY <2>1
  <2>2. CASE u # t
    <3>1. y \in Units(u, k, pending_trades[u][k].qty)
      BY <1>1, <2>1, <2>11, <2>2 DEF Units
    <3>2. y \in S
      BY <1>1, <1>3, <2>1, <2>11, <2>2, <3>1
    <3>3. y \notin old
      BY <2>1, <2>11, <2>2 DEF Units
    <3> QED BY <2>1, <2>11, <2>2, <3>2, <3>3
  <2>3. CASE u = t
    <3>1. k + 1 \in 1 .. Len(p) /\ pending_trades'[t][k] = p[k + 1] /\ k + 1 # 1
      BY <1>2, <2>1, <2>11, <2>3
    <3>2. <<t, k + 1, v>> \in Units(t, k + 1, p[k + 1].qty)
      BY <2>1, <2>11, <2>3, <3>1 DEF Units
    <3>3. <<t, k + 1, v>> \in S
      BY <1>3, <2>1, <2>11, <2>3, <3>1, <3>2
    <3>4. <<t, k + 1, v>> \notin old
      BY <3>1 DEF Units
    <3>5. y[1] = t /\ y[2] = k /\ y[3] = v /\ y = <<t, k, v>> /\ k \in Int
      BY <2>11, <2>3
    <3>6. <<t, k + 1, v>> \in R
      BY <3>3, <3>4
    <3> QED BY <3>5, <3>6
  <2> QED BY <2>2, <2>3
<1> HIDE DEF R, old
<1>8. f \in [R -> T]
  BY <1>6
<1>9. ASSUME NEW x \in R, NEW y \in R, f[x] = f[y] PROVE x = y
  <2>1. CASE x[1] = t /\ y[1] = t
    <3>1. <<t, x[2] - 1, x[3]>> = <<t, y[2] - 1, y[3]>>
      BY <1>9, <2>1
    <3>2. x[2] - 1 = y[2] - 1 /\ x[3] = y[3] /\ x[2] \in Int /\ y[2] \in Int
      BY <1>6, <2>1, <3>1
    <3>3. x[2] = y[2]
      BY <3>2
    <3>4. x = <<t, x[2], x[3]>> /\ y = <<t, y[2], y[3]>>
      BY <1>6, <2>1
    <3> QED BY <3>2, <3>3, <3>4
  <2>2. CASE x[1] # t /\ y[1] # t
    BY <1>9, <2>2
  <2>3. CASE x[1] = t /\ y[1] # t
    <3>1. <<t, x[2] - 1, x[3]>> = y
      BY <1>9, <2>3
    <3> QED BY <2>3, <3>1
  <2>4. CASE x[1] # t /\ y[1] = t
    <3>1. <<t, y[2] - 1, y[3]>> = x
      BY <1>9, <2>4
    <3> QED BY <2>4, <3>1
  <2> QED BY <2>1, <2>2, <2>3, <2>4
<1>10. ASSUME NEW y \in T PROVE \E x \in R : f[x] = y
  <2>1. CASE y[1] # t
    BY <1>7, <2>1
  <2>2. CASE y[1] = t
    <3> DEFINE x == <<t, y[2] + 1, y[3]>>
    <3>1. x \in R /\ y[2] \in Int /\ y = <<t, y[2], y[3]>>
      BY <1>7, <2>2
    <3>2. f[x] = <<t, x[2] - 1, x[3]>>
      BY <3>1
    <3>3. x[2] - 1 = y[2] /\ x[3] = y[3]
      BY <3>1
    <3>4. f[x] = y
      BY <3>1, <3>2, <3>3
    <3> QED BY <3>1, <3>4
  <2> QED BY <2>1, <2>2
<1> HIDE DEF f
<1>11. ExistsBijection(R, T)
  <2>1. f \in Bijection(R, T)
    BY <1>8, <1>9, <1>10, Fun_IsBij
  <2> QED BY <2>1 DEF ExistsBijection
<1>12. /\ IsFiniteSet(old) /\ Cardinality(old) \in Nat
       /\ Cardinality(old) = IF id \in {trade.buy, trade.sell} THEN trade.qty ELSE 0
  BY <1>1, UnitsCount, FS_EmptySet DEF old
<1>13. IsFiniteSet(R) /\ Cardinality(R) = Cardinality(S) - Cardinality(old)
  <2>1. IsFiniteSet(S) /\ S \cap old = old
    BY <1>5 DEF S
  <2> QED BY <2>1, FS_Difference DEF R
<1>14. IsFiniteSet(T) /\ Cardinality(T) = Cardinality(R)
  BY <1>11, <1>13, FS_Bijection
<1>15. Cardinality(T) \in Nat /\ Cardinality(S) \in Nat
  BY <1>14, FS_CardinalityType DEF S
<1>16. Cardinality(S) = Cardinality(T) + Cardinality(old)
  BY <1>12, <1>13, <1>14, <1>15
<1> QED BY <1>12, <1>14, <1>15, <1>16 DEF S, T

LEMMA MatchDelivers ==
  ASSUME IInv, DeliverInv, NEW t \in Threads, Match(t)
  PROVE  DeliverInv'
<1>1. PICK a \in Ids, b \in Ids, other \in Sides, level \in Prices, q \in Nat :
          Traded(t, a, b, other, level, q)
  BY MatchEffect
<1>0. Paired(a, b, other, level, q)
  BY <1>1 DEF Traded
<1> DEFINE bought == IF other = "SELL" THEN a ELSE b
           sold   == IF other = "SELL" THEN b ELSE a
<1>2. PICK trade \in Trades :
          /\ pending_trades' = [pending_trades EXCEPT ![t] = Append(@, trade)]
          /\ trade.qty = q /\ trade.buy = bought /\ trade.sell = sold
  <2>1. [buy |-> bought, sell |-> sold, price |-> order[b].price, qty |-> q] \in Trades
    BY <1>0 DEF Paired, Trades
  <2> QED BY <1>1, <2>1 DEF Traded
<1>3. /\ a # b /\ traded' = [traded EXCEPT ![a] = @ + q, ![b] = @ + q]
      /\ UNCHANGED delivered
      /\ pending_trades \in [Threads -> Seq(Trades)]
      /\ traded \in [Ids -> Nat] /\ delivered \in [Ids -> Nat]
  BY <1>0, <1>1 DEF Paired, Traded, Match, IInv, TypeOK
<1>4. trade.buy # trade.sell /\ {trade.buy, trade.sell} = {a, b}
  BY <1>2, <1>3
<1> HIDE DEF bought, sold
<1>5. ASSUME NEW id \in Ids
      PROVE  /\ IsFiniteSet(Undelivered(id)')
             /\ traded'[id] = delivered'[id] + Cardinality(Undelivered(id)')
  <2>1. /\ IsFiniteSet(Undelivered(id))
        /\ traded[id] = delivered[id] + Cardinality(Undelivered(id))
    BY DEF DeliverInv, TradesDelivered
  <2>2. /\ IsFiniteSet(Undelivered(id)')
        /\ Cardinality(Undelivered(id)') = Cardinality(Undelivered(id)) +
               IF id \in {a, b} THEN q ELSE 0
    BY <1>2, <1>3, <1>4, <2>1, AppendUnits
  <2>3. traded'[id] = traded[id] + IF id \in {a, b} THEN q ELSE 0
    BY <1>3
  <2>4. Cardinality(Undelivered(id)) \in Nat
    BY <2>1, FS_CardinalityType
  <2> QED BY <1>3, <2>1, <2>2, <2>3, <2>4
<1>6. ASSUME NEW u \in Threads, NEW k \in 1 .. Len(pending_trades'[u])
      PROVE  pending_trades'[u][k].buy # pending_trades'[u][k].sell
  <2>1. CASE u # t
    BY <1>2, <1>3, <1>6, <2>1 DEF DeliverInv
  <2>2. CASE u = t
    <3>1. pending_trades'[t] = Append(pending_trades[t], trade) /\ pending_trades[t] \in Seq(Trades)
      BY <1>2, <1>3
    <3>2. \/ pending_trades'[t][k] = trade
          \/ /\ k \in 1 .. Len(pending_trades[t])
             /\ pending_trades'[t][k] = pending_trades[t][k]
      BY <1>6, <2>2, <3>1
    <3> QED BY <1>4, <2>2, <3>2 DEF DeliverInv
  <2> QED BY <2>1, <2>2
<1> QED BY <1>5, <1>6 DEF DeliverInv, TradesDelivered

LEMMA NotifyDelivers ==
  ASSUME IInv, DeliverInv, NEW t \in Threads, NotifyTrade(t)
  PROVE  DeliverInv'
<1>1. PICK trade \in Trades :
          /\ pending_trades[t] # <<>> /\ trade = Head(pending_trades[t])
          /\ delivered' = [delivered EXCEPT ![trade.buy] = @ + trade.qty,
                                            ![trade.sell] = @ + trade.qty]
          /\ pending_trades' = [pending_trades EXCEPT ![t] = Tail(@)]
          /\ UNCHANGED traded
  <2>1. Head(pending_trades[t]) \in Trades
    BY DEF IInv, TypeOK, NotifyTrade
  <2> QED BY <2>1 DEF NotifyTrade
<1>2. /\ pending_trades \in [Threads -> Seq(Trades)]
      /\ traded \in [Ids -> Nat] /\ delivered \in [Ids -> Nat]
      /\ trade.buy \in Ids /\ trade.sell \in Ids /\ trade.qty \in Nat
  BY DEF IInv, TypeOK, Trades
<1>3. trade.buy # trade.sell
  <2>1. 1 \in 1 .. Len(pending_trades[t]) /\ pending_trades[t][1] = trade
    BY <1>1, <1>2
  <2> QED BY <2>1 DEF DeliverInv
<1>4. ASSUME NEW id \in Ids
      PROVE  /\ IsFiniteSet(Undelivered(id)')
             /\ traded'[id] = delivered'[id] + Cardinality(Undelivered(id)')
  <2>1. /\ IsFiniteSet(Undelivered(id))
        /\ traded[id] = delivered[id] + Cardinality(Undelivered(id))
    BY DEF DeliverInv, TradesDelivered
  <2>2. /\ IsFiniteSet(Undelivered(id)')
        /\ Cardinality(Undelivered(id)') \in Nat
        /\ Cardinality(Undelivered(id)) = Cardinality(Undelivered(id)') +
               IF id \in {trade.buy, trade.sell} THEN trade.qty ELSE 0
    BY <1>1, <1>2, <2>1, TailUnits
  <2>3. delivered'[id] = delivered[id] +
            IF id \in {trade.buy, trade.sell} THEN trade.qty ELSE 0
    BY <1>1, <1>2, <1>3
  <2> QED BY <1>1, <1>2, <2>1, <2>2, <2>3
<1>5. ASSUME NEW u \in Threads, NEW k \in 1 .. Len(pending_trades'[u])
      PROVE  pending_trades'[u][k].buy # pending_trades'[u][k].sell
  <2>1. CASE u # t
    BY <1>1, <1>2, <1>5, <2>1 DEF DeliverInv
  <2>2. CASE u = t
    <3>1. pending_trades'[t] = Tail(pending_trades[t])
      BY <1>1, <1>2
    <3>2. k + 1 \in 1 .. Len(pending_trades[t]) /\ pending_trades'[t][k] = pending_trades[t][k + 1]
      BY <1>1, <1>2, <1>5, <2>2, <3>1
    <3> QED BY <2>2, <3>2 DEF DeliverInv
  <2> QED BY <2>1, <2>2
<1> QED BY <1>4, <1>5 DEF DeliverInv, TradesDelivered

LEMMA InitDelivers == Init => DeliverInv
<1> SUFFICES ASSUME Init PROVE DeliverInv
  OBVIOUS
<1>1. \A t \in Threads : pending_trades[t] = <<>>
  BY DEF Init
<1>2. \A id \in Ids : Undelivered(id) = {}
  BY <1>1, UndeliveredUnits DEF Holds
<1>3. \A id \in Ids : IsFiniteSet(Undelivered(id)) /\ Cardinality(Undelivered(id)) = 0
  BY <1>2, FS_EmptySet
<1> QED BY <1>1, <1>3 DEF Init, DeliverInv, TradesDelivered

LEMMA SameDelivers ==
  ASSUME DeliverInv, UNCHANGED <<pending_trades, traded, delivered>>
  PROVE  DeliverInv'
<1>1. \A id \in Ids : Undelivered(id)' = Undelivered(id)
  BY UndeliveredUnits
<1> QED BY <1>1 DEF DeliverInv, TradesDelivered

LEMMA NextDelivers == IInv /\ DeliverInv /\ [Next]_vars => DeliverInv'
<1> SUFFICES ASSUME IInv, DeliverInv, [Next]_vars PROVE DeliverInv'
  OBVIOUS
<1>1. ASSUME NEW t \in Threads, Call(t) \/ Step(t), ~Match(t), ~NotifyTrade(t)
      PROVE  UNCHANGED <<pending_trades, traded, delivered>>
  <2>1. CASE Call(t)
    BY <2>1 DEF Call, addOrder, AddStop, AddPlain, CancelOrder, ReturnFalse,
                vars, callVars, history
  <2>2. CASE Step(t)
    BY <1>1, <2>2
       DEF Step, Settle, EndRound, TriggerBuy, TriggerSell, NextPrice,
           NextRound, Unlock, NotifyUpdate, NotifyIncoming, callVars, history
  <2> QED BY <1>1, <2>1, <2>2
<1>2. CASE UNCHANGED vars
  BY <1>2, SameDelivers DEF vars, callVars, history
<1>3. CASE Next
  <2>1. PICK t \in Threads : Call(t) \/ Step(t)
    BY <1>3 DEF Next
  <2>2. CASE ~Match(t) /\ ~NotifyTrade(t)
    BY <1>1, <2>1, <2>2, SameDelivers
  <2> QED BY <2>2, MatchDelivers, NotifyDelivers
<1> QED BY <1>2, <1>3

LEMMA DeliverAlways == Spec => []DeliverInv
  BY InitDelivers, NextDelivers, InitInv, NextInv, PTL DEF Spec

(***************************************************************************)
(* Every quantity that executeTrade records reaches trade_callback_        *)
(* exactly once: at any time what was traded of an order is what was       *)
(* delivered plus what the calls in progress still hold.                   *)
(***************************************************************************)
THEOREM TradesAreDelivered == Spec => []TradesDelivered
<1>1. DeliverInv => TradesDelivered
  BY DEF DeliverInv
<1> QED BY <1>1, DeliverAlways, PTL

----------------------------------------------------------------------------
(* The book inside a larger system: what its invariants are, and what one  *)
(* step does to the orders.                                                *)

\* All that is known of the book.
BookInv == IInv /\ ScanInv /\ OwedInv /\ DeliverInv

LEMMA BookInit == Init => BookInv
  BY InitInv, InitScan, InitOwed, InitDelivers DEF BookInv

LEMMA BookNext == BookInv /\ [Next]_vars => BookInv'
  BY NextInv, NextScan, NextOwed, NextDelivers DEF BookInv

\* addOrder of any order of which nothing is traded yet, a restored one included.
LEMMA BookAdd ==
  ASSUME BookInv, NEW t \in Threads, NEW id \in Ids, NEW N \in Orders,
         N.status \in {"PENDING", "PARTIAL"}, N.rem = N.qty,
         isStopOrder(N) => N.status = "PENDING",
         addOrder(t, id, N)
  PROVE  BookInv'
<1>1. IInv'
  BY AddStopInv, AddPlainInv DEF BookInv, addOrder, AddStop
<1>2. ScanInv'
  BY CallScan DEF BookInv
<1>3. OwedInv'
  BY CallOwed DEF BookInv
<1>4. UNCHANGED <<pending_trades, traded, delivered>>
  BY DEF addOrder, AddStop, AddPlain, history
<1>5. DeliverInv'
  BY <1>4, SameDelivers DEF BookInv
<1> QED BY <1>1, <1>2, <1>3, <1>5 DEF BookInv

\* What a step of a call under the lock leaves alone: orders that are done,
\* orders that do not exist, and who is to be told about which order.
OrdersStay ==
    /\ \A id \in Ids :
           /\ order[id].status \in {"FILLED", "CANCELED"} => order'[id] = order[id]
           /\ order'[id].qty = order[id].qty
           /\ order'[id].status = "NONE" <=> order[id].status = "NONE"
           /\ isStopOrder(order'[id]) => order'[id] = order[id]
           /\ ~isStopOrder(order[id]) => order'[id].type = order[id].type
           /\ order'[id].status = "CANCELED" /\ order'[id].type # "MARKET" =>
                  order[id].status = "CANCELED" /\ order[id].type # "MARKET"
    /\ UNCHANGED <<reported, stop_ids, delivered, incoming>>

LEMMA MatchStays ==
  ASSUME IInv, NEW t \in Threads, Match(t)
  PROVE  OrdersStay
<1>1. PICK taker \in Ids, maker \in Ids, other \in Sides, level \in Prices, q \in Nat :
          Traded(t, taker, maker, other, level, q)
  BY MatchEffect
<1>2. /\ order[taker] \in Orders /\ Open(order[taker])
      /\ order[maker] \in Orders /\ Open(order[maker]) /\ maker # taker
      /\ q <= order[taker].rem /\ q <= order[maker].rem
      /\ ~isStopOrder(order[taker]) /\ ~isStopOrder(order[maker])
      /\ order' = [order EXCEPT ![taker] = fill(@, q), ![maker] = fill(@, q)]
  <2>1. /\ Paired(taker, maker, other, level, q)
        /\ order' = [order EXCEPT ![taker] = fill(@, q), ![maker] = fill(@, q)]
    BY <1>1 DEF Traded
  <2>2. /\ order[taker] \in Orders /\ Open(order[taker])
        /\ order[maker] \in Orders /\ Open(order[maker]) /\ maker # taker
        /\ q <= order[taker].rem /\ q <= order[maker].rem
        /\ order[taker].type \in {"LIMIT", "MARKET"}
    BY <2>1 DEF Paired
  <2>3. At(book[other], level, maker)
    BY <2>1 DEF Paired
  <2>4. order[maker].type = "LIMIT"
    BY <2>3 DEF IInv, BookSound
  <2>5. ~isStopOrder(order[taker]) /\ ~isStopOrder(order[maker])
    BY <2>2, <2>4 DEF isStopOrder
  <2> QED BY <2>1, <2>2, <2>5
<1>3. order \in [Ids -> Orders]
  BY DEF IInv, TypeOK
<1>4. /\ order'[taker] = fill(order[taker], q) /\ order'[maker] = fill(order[maker], q)
      /\ \A id \in Ids \ {taker, maker} : order'[id] = order[id]
  BY <1>2, <1>3
<1>5. ASSUME NEW id \in {taker, maker}
      PROVE  /\ order[id].status \in {"PENDING", "PARTIAL"}
             /\ order'[id].status \in {"FILLED", "PARTIAL"}
             /\ order'[id].type = order[id].type /\ order'[id].qty = order[id].qty
             /\ ~isStopOrder(order[id])
  <2>1. order[id] \in Orders /\ order[id].status \in {"PENDING", "PARTIAL"}
        /\ q <= order[id].rem /\ ~isStopOrder(order[id])
    BY <1>2 DEF Open
  <2>2. order'[id] = fill(order[id], q)
    BY <1>4
  <2> QED BY <2>1, <2>2, FillFields
<1>6. UNCHANGED <<reported, stop_ids, delivered, incoming>>
  BY DEF Match
<1> QED BY <1>4, <1>5, <1>6 DEF OrdersStay, isStopOrder

LEMMA SettleStays ==
  ASSUME IInv, NEW t \in Threads, Settle(t)
  PROVE  OrdersStay
<1>1. PICK id \in Ids : id = Head(todo)
  BY TodoHead DEF Settle
<1>2. UNCHANGED <<reported, stop_ids, delivered, incoming>>
  BY DEF Settle, callVars
<1>3. order \in [Ids -> Orders]
  BY DEF IInv, TypeOK
<1>4. CASE order' = order
  BY <1>2, <1>4 DEF OrdersStay
<1>5. CASE order' # order
  <2>1. /\ order[id].rem > 0 /\ order[id].status \notin {"FILLED", "CANCELED"}
        /\ order[id].type = "MARKET"
        /\ order' = [order EXCEPT ![id] = cancel(order[id])]
    BY <1>1, <1>5 DEF Settle
  <2>2. order[id].status \in {"PENDING", "PARTIAL"} /\ order[id] \in Orders
    <3>1. Open(order[id]) \/ order[id].status = "FILLED"
      BY <1>1, TodoHead DEF Settle
    <3> QED BY <2>1, <3>1, <1>3 DEF Open
  <2>3. /\ order'[id].status = "CANCELED" /\ order'[id].type = "MARKET"
        /\ order'[id].qty = order[id].qty
    BY <2>1, <2>2, <1>3, CancelFields
  <2>4. \A j \in Ids \ {id} : order'[j] = order[j]
    BY <2>1, <1>3
  <2> QED BY <1>2, <2>1, <2>2, <2>3, <2>4 DEF OrdersStay, isStopOrder
<1> QED BY <1>4, <1>5

LEMMA TriggerStays ==
  ASSUME IInv, NEW t \in Threads, TriggerBuy(t) \/ TriggerSell(t)
  PROVE  OrdersStay
<1>1. UNCHANGED <<reported, stop_ids, delivered, incoming>>
  BY DEF TriggerBuy, TriggerSell, callVars, history
<1>2. PICK side \in Sides : \E p \in DOMAIN stops[side] : TriggerLevel(side, p)
  BY TriggeredLevel
<1>3. PICK p \in DOMAIN stops[side] : TriggerLevel(side, p)
  BY <1>2
<1>4. ASSUME NEW id \in Ids, order'[id] # order[id]
      PROVE  /\ order[id].status = "PENDING" /\ order'[id].status = "PENDING"
             /\ isStopOrder(order[id]) /\ ~isStopOrder(order'[id])
             /\ order'[id].qty = order[id].qty
  <2>1. InQueue(stops[side][p], id) /\ order'[id] = trigger(order[id])
    BY <1>3, <1>4 DEF TriggerLevel
  <2>2. p \in Prices
    BY DEF IInv, TypeOK, IsLevelMap
  <2>3. isStopOrder(order[id]) /\ order[id].status = "PENDING"
    BY <2>1, <2>2 DEF IInv, StopsSound, At
  <2>4. order[id] \in Orders
    BY DEF IInv, TypeOK
  <2> QED BY <2>1, <2>3, <2>4, TriggerFields
<1> QED BY <1>1, <1>4 DEF OrdersStay

\* The steps of a call under the lock.
LockStep(t) ==
    \/ Match(t) \/ Settle(t) \/ EndRound(t) \/ TriggerBuy(t) \/ TriggerSell(t)
    \/ NextPrice(t) \/ NextRound(t) \/ Unlock(t)

LEMMA LockStepStays ==
  ASSUME IInv, NEW t \in Threads, LockStep(t)
  PROVE  /\ OrdersStay
         /\ pc[t] \in {"match", "scan"} /\ pc'[t] # "idle"
         /\ \A u \in Threads \ {t} :
                /\ pc'[u] = pc[u]
                /\ pending_order_updates'[u] = pending_order_updates[u]
                /\ pending_trades'[u] = pending_trades[u]
<1>1. OrdersStay
  <2>1. CASE EndRound(t) \/ NextPrice(t) \/ NextRound(t) \/ Unlock(t)
    BY <2>1 DEF OrdersStay, EndRound, NextPrice, NextRound, Unlock, callVars, history
  <2> QED BY <2>1, MatchStays, SettleStays, TriggerStays DEF LockStep
<1>2. pc \in [Threads -> {"idle", "match", "scan", "notify"}]
      /\ pending_order_updates \in [Threads -> Seq(Ids)]
      /\ pending_trades \in [Threads -> Seq(Trades)]
  BY DEF IInv, TypeOK
<1>3. /\ pc[t] \in {"match", "scan"} /\ pc'[t] # "idle"
      /\ \A u \in Threads \ {t} : pc'[u] = pc[u]
  BY <1>2 DEF LockStep, Match, Settle, EndRound, TriggerBuy, TriggerSell,
              NextPrice, NextRound, Unlock
<1>4. \A u \in Threads \ {t} : /\ pending_order_updates'[u] = pending_order_updates[u]
                                /\ pending_trades'[u] = pending_trades[u]
  <2>1. CASE Match(t)
    BY <2>1, <1>2 DEF Match
  <2>2. CASE ~Match(t)
    BY <2>2 DEF LockStep, Settle, EndRound, TriggerBuy, TriggerSell,
                NextPrice, NextRound, Unlock, callVars
  <2> QED BY <2>1, <2>2
<1> QED BY <1>1, <1>3, <1>4

\* A step under the lock forgets no report, and owes one for each order it
\* changes, except for a stop order, whose quantity it leaves alone.
LEMMA LockStepOwes ==
  ASSUME IInv, OwedInv, NEW t \in Threads, LockStep(t), NEW id \in Ids
  PROVE  /\ ReportDue(id) => ReportDue(id)'
         /\ ReportDue(id)' => ReportDue(id) \/ order[id].status # "NONE"
         /\ Triggered(id) => Triggered(id)'
         /\ \/ order'[id] = order[id]
            \/ ReportDue(id)'
            \/ Triggered(id)' /\ order'[id].rem = order[id].rem
<1>1. OrdersStay
  BY LockStepStays
<1>2. Triggered(id) => Triggered(id)'
  BY <1>1 DEF OrdersStay, Triggered
<1>3. order \in [Ids -> Orders]
  BY DEF IInv, TypeOK
<1>4. CASE Match(t)
  <2>1. PICK a \in Ids, b \in Ids, other \in Sides, level \in Prices, q \in Nat :
            Traded(t, a, b, other, level, q)
    BY <1>4, MatchEffect
  <2>2. ReportDue(id)' <=> ReportDue(id) \/ id \in {a, b}
    BY <1>4, <2>1, MatchDue
  <2>3. /\ order' = [order EXCEPT ![a] = fill(@, q), ![b] = fill(@, q)]
        /\ order[a].status # "NONE" /\ order[b].status # "NONE"
    <3>1. /\ Paired(a, b, other, level, q)
          /\ order' = [order EXCEPT ![a] = fill(@, q), ![b] = fill(@, q)]
      BY <2>1 DEF Traded
    <3> QED BY <3>1 DEF Paired, Open
  <2>4. id \notin {a, b} => order'[id] = order[id]
    BY <1>3, <2>3
  <2> QED BY <1>2, <2>2, <2>3, <2>4
<1>5. CASE ~Match(t)
  <2>1. ReportDue(id)' <=> ReportDue(id)
    BY <1>5 DEF LockStep, Settle, EndRound, TriggerBuy, TriggerSell, NextPrice,
                NextRound, Unlock, callVars, ReportDue
  <2>2. CASE Settle(t)
    <3>1. PICK h \in Ids : h = Head(todo) /\ InFlight(h) /\ mutex = t
      BY <2>2, TodoHead DEF Settle
    <3>2. \/ order' = order
          \/ order' = [order EXCEPT ![h] = cancel(order[h])]
      BY <2>2, <3>1 DEF Settle
    <3>3. cancel(order[h]).rem = order[h].rem
      BY <1>3 DEF cancel, Orders
    <3>4. ReportDue(h) \/ Triggered(h)
      BY <3>1 DEF OwedInv, ReportDue
    <3>5. \/ order'[id] = order[id]
          \/ id = h /\ order'[id].rem = order[id].rem
      BY <1>3, <3>2, <3>3
    <3> QED BY <1>2, <2>1, <3>4, <3>5
  <2>3. CASE TriggerBuy(t) \/ TriggerSell(t)
    <3>1. PICK side \in Sides : \E p \in DOMAIN stops[side] : TriggerLevel(side, p)
      BY <2>3, TriggeredLevel
    <3>2. PICK p \in DOMAIN stops[side] : TriggerLevel(side, p)
      BY <3>1
    <3>3. CASE ~InQueue(stops[side][p], id)
      BY <1>2, <2>1, <3>2, <3>3 DEF TriggerLevel
    <3>4. CASE InQueue(stops[side][p], id)
      <4>1. p \in Prices /\ At(stops[side], p, id)
        BY <3>4 DEF IInv, TypeOK, IsLevelMap, At
      <4>2. isStopOrder(order[id]) /\ id \in stop_ids
        BY <4>1 DEF IInv, StopsSound, OwedInv
      <4>3. order'[id] = trigger(order[id]) /\ stop_ids' = stop_ids
        BY <1>1, <3>2, <3>4 DEF TriggerLevel, OrdersStay
      <4>4. ~isStopOrder(order'[id]) /\ order'[id].rem = order[id].rem
        BY <1>3, <4>2, <4>3, TriggerFields
      <4> QED BY <2>1, <4>2, <4>3, <4>4 DEF Triggered
    <3> QED BY <3>3, <3>4
  <2>4. CASE EndRound(t) \/ NextPrice(t) \/ NextRound(t) \/ Unlock(t)
    BY <1>2, <2>1, <2>4 DEF EndRound, NextPrice, NextRound, Unlock
  <2> QED BY <1>5, <2>2, <2>3, <2>4 DEF LockStep
<1> QED BY <1>4, <1>5

\* An order that does not exist has no trades.
LEMMA FreshUndelivered ==
  ASSUME IInv, DeliverInv, NEW id \in Ids, order[id].status = "NONE"
  PROVE  delivered[id] = 0
<1>1. order[id] \in Orders /\ traded[id] \in Nat /\ delivered[id] \in Nat
  BY DEF IInv, TypeOK
<1>2. order[id].rem \in Nat
  BY <1>1 DEF Orders
<1>3. order[id].rem + traded[id] = 0
  BY DEF IInv, Conservation
<1>4. traded[id] = delivered[id] + Cardinality(Undelivered(id))
  BY DEF DeliverInv, TradesDelivered
<1>5. Cardinality(Undelivered(id)) \in Nat
  BY FS_CardinalityType DEF DeliverInv
<1> QED BY <1>1, <1>2, <1>3, <1>4, <1>5

\* addOrder creates one order and changes no other.
LEMMA AddEffect ==
  ASSUME IInv, NEW t \in Threads, NEW id \in Ids, NEW N, addOrder(t, id, N)
  PROVE  /\ order[id].status = "NONE" /\ order'[id] = N /\ N.rem > 0
         /\ \A j \in Ids \ {id} : order'[j] = order[j]
         /\ pc[t] = "idle"
         /\ pc'[t] # "idle" /\ \A u \in Threads \ {t} : pc'[u] = pc[u]
         /\ incoming'[t] = id /\ \A u \in Threads \ {t} : incoming'[u] = incoming[u]
         /\ \A j \in Ids \ {id} : j \in stop_ids' <=> j \in stop_ids
         /\ UNCHANGED <<pending_order_updates, pending_trades, delivered, reported>>
<1>1. /\ order \in [Ids -> Orders] /\ incoming \in [Threads -> Ids \cup {NoId}]
      /\ pc \in [Threads -> {"idle", "match", "scan", "notify"}]
  BY DEF IInv, TypeOK
<1>2. /\ order' = [order EXCEPT ![id] = N]
      /\ order[id].status = "NONE" /\ pc[t] = "idle" /\ N.rem > 0
      /\ incoming' = [incoming EXCEPT ![t] = id]
      /\ pc' \in {[pc EXCEPT ![t] = "notify"], [pc EXCEPT ![t] = "match"]}
      /\ stop_ids' \in {stop_ids, stop_ids \cup {id}}
      /\ UNCHANGED <<pending_order_updates, pending_trades, delivered, reported>>
  BY DEF addOrder, AddStop, AddPlain, Accepts, history
<1> QED BY <1>1, <1>2

\* cancelOrder finds an open order and changes nothing else.
LEMMA CancelEffect ==
  ASSUME IInv, NEW t \in Threads, NEW id \in Ids, CancelOrder(t, id)
  PROVE  /\ order[id].status \in {"PENDING", "PARTIAL"}
         /\ order'[id].status = "CANCELED" /\ order'[id].type = order[id].type
         /\ order'[id].qty = order[id].qty /\ order'[id].rem = order[id].rem
         /\ pc[t] = "idle"
         /\ \A j \in Ids \ {id} : order'[j] = order[j]
         /\ pc'[t] = "notify" /\ \A u \in Threads \ {t} : pc'[u] = pc[u]
         /\ incoming'[t] = id /\ \A u \in Threads \ {t} : incoming'[u] = incoming[u]
         /\ UNCHANGED <<pending_order_updates, pending_trades, delivered, reported, stop_ids>>
<1>1. /\ order \in [Ids -> Orders] /\ incoming \in [Threads -> Ids \cup {NoId}]
      /\ pc \in [Threads -> {"idle", "match", "scan", "notify"}]
  BY DEF IInv, TypeOK
<1>2. /\ mutex = NoThread /\ pc[t] = "idle" /\ id \in orders_by_id
      /\ order' = [order EXCEPT ![id] = cancel(order[id])]
      /\ incoming' = [incoming EXCEPT ![t] = id]
      /\ pc' = [pc EXCEPT ![t] = "notify"]
      /\ UNCHANGED <<pending_order_updates, pending_trades, delivered, reported, stop_ids>>
  BY DEF CancelOrder, history
<1>3. Open(order[id])
  <2>1. Resting(id) \/ Stored(id) \/ InFlight(id)
    BY <1>2 DEF IInv, IndexExact
  <2>2. ~InFlight(id)
    BY <1>2 DEF IInv, MutualExclusion, InFlight, InQueue
  <2> QED BY <2>1, <2>2 DEF IInv, BookSound, StopsSound, Resting, Stored
<1>4. order[id] \in Orders /\ order[id].status \in {"PENDING", "PARTIAL"}
  BY <1>1, <1>3 DEF Open
<1>5. /\ cancel(order[id]).status = "CANCELED" /\ cancel(order[id]).type = order[id].type
      /\ cancel(order[id]).qty = order[id].qty /\ cancel(order[id]).rem = order[id].rem
  BY <1>4, CancelFields
<1> QED BY <1>1, <1>2, <1>4, <1>5
=============================================================================
