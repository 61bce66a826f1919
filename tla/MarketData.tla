----------------------------- MODULE MarketData -----------------------------
(***************************************************************************)
(* The snapshots of the book: sendOrderbookSnapshots, run by the timer,    *)
(* and handleSnapshotRequest.  Both run on the io thread and take the bid  *)
(* levels and the ask levels in two separate critical sections, so that    *)
(* another thread's cancelOrder can fall between the two.  The timer's     *)
(* snapshot holds orderbooks_mutex_ over both reads; a requested one does  *)
(* not.                                                                    *)
(***************************************************************************)
EXTENDS OrderBook

CONSTANTS
    IoThread,    \* the thread that runs io_context
    MaxLevels,   \* max_levels of a snapshot: 10 in the code
    WordSize     \* quantities are summed in uint32_t: 2^32 in the code

ASSUME IoThreadAssumption == IoThread \in Threads
ASSUME SizesAssumption == MaxLevels \in Nat /\ WordSize \in Nat \ {0}

VARIABLES
    reading,     \* a snapshot: "no", "timer" or "request" (the bids are read),
                 \* "sending" (both sides are)
    bids, asks   \* the levels read for the snapshot

snapVars == <<reading, bids, asks>>

----------------------------------------------------------------------------
\* uint32_t sum of the remaining quantities of the first n orders of a queue.
SumRemaining(q) ==
    LET sum[n \in 0 .. Len(q)] ==
            IF n = 0 THEN 0 ELSE (sum[n - 1] + order[q[n]].rem) % WordSize
    IN  sum[Len(q)]

\* Mutant of NthPrice: the worst price comes first.
WorstFirst(side, k) ==
    CHOOSE p \in DOMAIN book[side] :
        Cardinality({x \in DOMAIN book[side] :
                        IF side = "BUY" THEN x < p ELSE x > p}) = k - 1

\* The k-th price of a side, best first.
NthPrice(side, k) ==
    CHOOSE p \in DOMAIN book[side] :
        Cardinality({x \in DOMAIN book[side] :
                        IF side = "BUY" THEN x > p ELSE x < p}) = k - 1

calculatePriceLevels(side, depth) ==
    LET n == Cardinality(DOMAIN book[side])
    IN  [k \in 1 .. (IF n < depth THEN n ELSE depth) |->
            LET p == NthPrice(side, k)
            IN  [price |-> p, quantity |-> SumRemaining(book[side][p]),
                 order_count |-> Len(book[side][p])]]

----------------------------------------------------------------------------
MDInit == reading = "no" /\ bids = <<>> /\ asks = <<>>

\* getBidLevels of a snapshot of either kind ...
ReadBids(kind) ==
    /\ pc[IoThread] = "idle" /\ reading = "no"
    /\ mutex = NoThread
    /\ bids' = calculatePriceLevels("BUY", MaxLevels)
    /\ asks' = <<>>
    /\ reading' = kind
    /\ UNCHANGED vars

\* ... then getAskLevels ...
ReadAsks ==
    /\ reading \in {"timer", "request"}
    /\ mutex = NoThread
    /\ asks' = calculatePriceLevels("SELL", MaxLevels)
    /\ reading' = "sending"
    /\ UNCHANGED <<vars, bids>>

\* ... and the snapshot goes to the client, or to the subscribers.
SendSnapshot ==
    /\ reading = "sending"
    /\ reading' = "no" /\ bids' = <<>> /\ asks' = <<>>
    /\ UNCHANGED vars

----------------------------------------------------------------------------
\* A snapshot that is sent is never crossed although its two sides are read in
\* different critical sections: between them only cancels can run, because the
\* generator posts its orders to the io thread.
SnapshotUncrossed ==
    reading = "sending" => \A i \in DOMAIN bids, j \in DOMAIN asks :
                               bids[i].price < asks[j].price

\* A bid level as it was read: the orders that are still in the queue, and some
\* that were canceled since.
ReadOf(level, p) ==
    LET canceled == {id \in Ids : /\ order[id].status = "CANCELED"
                                  /\ order[id].side = "BUY" /\ order[id].price = p}
    IN  \E n \in 0 .. Cardinality(canceled) : \E gone \in [1 .. n -> canceled] :
            /\ \A i, j \in 1 .. n : gone[i] = gone[j] => i = j
            /\ level.order_count = Len(book["BUY"][p]) + n
            /\ level.quantity = SumRemaining(book["BUY"][p] \o gone)

\* A snapshot hides nothing: when it is complete every bid level of the book,
\* down to the depth limit, is in it, with the orders of the level and at most
\* canceled ones besides (the bids were read earlier, and only cancels come in
\* between).  Its quantity is the sum of theirs modulo 2^32: it is less than what
\* the level still has if the sum did not fit (calculatePriceLevels).
SnapshotComplete ==
    [][reading # "sending" /\ reading' = "sending" =>
           \A p \in DOMAIN book["BUY"] :
               \/ \E i \in DOMAIN bids : bids[i].price = p /\ ReadOf(bids[i], p)
               \/ /\ Len(bids) = MaxLevels
                  /\ \A i \in DOMAIN bids : bids[i].price > p]_<<vars, snapVars>>
=============================================================================
