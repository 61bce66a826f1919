--------------------------- MODULE MCPersistence ---------------------------
(* TLC instances of Persistence. *)
EXTENDS Persistence, TLC

Limit(side, price, qty) ==
    [side |-> side, type |-> "LIMIT", price |-> price, stop |-> 0, qty |-> qty]

\* Orders of different sizes that trade at one price, one of no quantity, and a
\* stop of each kind.
StoreInputs ==
    {Limit("BUY", 1, 2), Limit("BUY", 1, 1), Limit("SELL", 1, 1),
     Limit("SELL", 1, 0),
     [side |-> "SELL", type |-> "STOP_LIMIT", price |-> 1, stop |-> 1, qty |-> 1],
     [side |-> "SELL", type |-> "STOP", price |-> 0, stop |-> 1, qty |-> 1]}

Symmetry == Permutations(Ids)
=============================================================================
