------------------------------ MODULE MCServer ------------------------------
(* TLC instances of Server. *)
EXTENDS Server, TLC

Limit(side, price, qty) ==
    [side |-> side, type |-> "LIMIT", price |-> price, stop |-> 0, qty |-> qty]

\* Orders that trade with each other in one or two parts, one of no quantity,
\* and a stop.
RequestInputs ==
    {Limit("BUY", 1, 2), Limit("SELL", 1, 1), Limit("SELL", 1, 0),
     [side |-> "SELL", type |-> "STOP", price |-> 0, stop |-> 1, qty |-> 1]}

Symmetry == Permutations(Ids) \cup Permutations(Clients)
=============================================================================
