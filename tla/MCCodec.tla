------------------------------- MODULE MCCodec -------------------------------
(***************************************************************************)
(* Messages for Codec: of each type one message and those that differ from *)
(* it in one field, or in two that depend on each other.                   *)
(***************************************************************************)
EXTENDS Codec

Connected == {<<"client", "server">>, <<"bridge", "server">>,
              <<"server", "client">>, <<"server", "bridge">>}

Vary(m, k, values) == {[m EXCEPT ![k] = v] : v \in values}

Status == [type |-> "ORDER_STATUS", order_id |-> "a", client_id |-> "b",
           symbol |-> "", side |-> "BUY", order_type |-> "LIMIT", price |-> 0,
           stop_price |-> 0, quantity |-> 0, filled_quantity |-> 0,
           status |-> "PENDING", timestamp |-> 0]
Submit == [type |-> "ORDER_SUBMIT", client_id |-> "a", symbol |-> "b",
           side |-> "BUY", order_type |-> "LIMIT", price |-> 1006,
           stop_price |-> 0, quantity |-> 2]

\* What client.cpp sends: plain limit orders, and status requests with nothing
\* but the two ids.
ClientMessages ==
    Vary(Submit, "side", {"BUY", "SELL"}) \cup Vary(Submit, "price", {0, 1003}) \cup
    Vary(Submit, "quantity", {0, MaxUint}) \cup
    {Status, [type |-> "ORDER_CANCEL", order_id |-> "a", client_id |-> "b"],
     [type |-> "SNAPSHOT_REQUEST", symbol |-> "a"]}

\* What the bridge sends: the numbers come from the page as they are.
BridgeMessages ==
    ClientMessages \cup
    UNION {Vary(s, "stop_price", {0, 4, 1999}) :
               s \in Vary(Submit, "order_type", {"MARKET", "STOP", "STOP_LIMIT"})} \cup
    Vary(Submit, "quantity", {-MaxUint - 1, -1, MaxUint + 1}) \cup
    {[type |-> t, username |-> u, password |-> "b"] :
         t \in {"LOGIN", "REGISTER"}, u \in {"", "a", LongText}}

Level(p, q, n) == [price |-> p, quantity |-> q, order_count |-> n]
Sides == {<<>>, <<Level(1000, 2, 1)>>, <<Level(1010, 3, 2), Level(1000, 1, 1)>>}

Reported == [Status EXCEPT !.symbol = "a", !.price = 1010, !.quantity = 3,
                           !.timestamp = Second + 3]

ServerMessages ==
    Vary(Reported, "side", {"BUY", "SELL"}) \cup
    Vary(Reported, "status", {"PARTIAL", "FILLED", "CANCELED", "REJECTED"}) \cup
    UNION {Vary(s, "stop_price", {0, 1020}) :
               s \in Vary(Reported, "order_type", {"MARKET", "STOP", "STOP_LIMIT"})} \cup
    Vary(Reported, "filled_quantity", {1, 3}) \cup
    {[type |-> "ORDERBOOK_SNAPSHOT", symbol |-> "a", bids |-> b, asks |-> a] :
         a \in Sides, b \in Sides} \cup
    {[type |-> "TRADE_NOTIFICATION", buy_order_id |-> "a", sell_order_id |-> "b",
      symbol |-> "a", price |-> 1010, quantity |-> q, timestamp |-> t] :
         q \in {1, 3}, t \in {2 * Second - 1} \cup SummerTimes} \cup
    {[type |-> "ERROR", error_code |-> "a", description |-> "b"]} \cup
    {[type |-> "LOGIN_RESPONSE", success |-> b, session_token |-> "a",
      username |-> "b", error_message |-> ""] : b \in BOOLEAN} \cup
    {[type |-> "REGISTER_RESPONSE", success |-> b, username |-> "b",
      error_message |-> "a"] : b \in BOOLEAN}

Messages(c) == CASE c[1] = "client" -> ClientMessages
                 [] c[1] = "bridge" -> BridgeMessages
                 [] c[1] = "server" -> ServerMessages
=============================================================================
