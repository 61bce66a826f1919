---------------------------- MODULE MCOrderBook ----------------------------
(* TLC instances of OrderBook. *)
EXTENDS OrderBook, TLC

Limit(side, price, qty) ==
    [side |-> side, type |-> "LIMIT", price |-> price, stop |-> 0, qty |-> qty]
Market(side, qty) ==
    [side |-> side, type |-> "MARKET", price |-> 0, stop |-> 0, qty |-> qty]
StopMarket(side, stop, qty) ==
    [side |-> side, type |-> "STOP", price |-> 0, stop |-> stop, qty |-> qty]
StopLimit(side, stop, price, qty) ==
    [side |-> side, type |-> "STOP_LIMIT", price |-> price, stop |-> stop,
     qty |-> qty]

\* Makers of two sizes at two prices, takers that match one or two of them, and
\* stops of both kinds and on both sides: the trade of a triggered stop can
\* trigger another one.
BookInputs ==
    {Limit("BUY", 1, 1), Limit("BUY", 2, 2), Limit("SELL", 1, 1),
     Limit("SELL", 2, 1), Market("SELL", 2), Limit("BUY", 1, 0),
     StopMarket("SELL", 2, 1), StopLimit("SELL", 1, 1, 1),
     StopMarket("BUY", 1, 1)}

Symmetry == Permutations(Ids)
=============================================================================
