-------------------------- MODULE MCServerProcess --------------------------
(* TLC instances of ServerProcess. *)
EXTENDS ServerProcess

Limit(side, price, qty) ==
    [side |-> side, type |-> "LIMIT", price |-> price, stop |-> 0, qty |-> qty]

\* The generator makes limit orders ...
FromGenerator == {Limit("BUY", 1, 2), Limit("SELL", 1, 1)}

\* ... clients also send market and stop orders.
FromClients ==
    {Limit("BUY", 2, 1),
     [side |-> "SELL", type |-> "MARKET", price |-> 0, stop |-> 0, qty |-> 2],
     [side |-> "SELL", type |-> "STOP", price |-> 0, stop |-> 1, qty |-> 1]}

AllInputs == FromGenerator \cup FromClients
=============================================================================
