-------------------------------- MODULE Codec --------------------------------
(***************************************************************************)
(* Messages as text on a connection: the writers (message.cpp serialize,   *)
(* protocol.py serialize), the framing, the read loops and the parsers     *)
(* (message.cpp parseMessage, protocol.py parse_message).                  *)
(*                                                                         *)
(* The text is a sequence of lines <<key, value>>, and a line is the unit  *)
(* of length; strings hold no line break.  Prices are in tenths of a cent  *)
(* in memory and in cents on a line; times are in milliseconds.            *)
(***************************************************************************)
EXTENDS Integers, SequencesExt

CONSTANTS Channels,     \* the pairs <<writer, reader>> that are connected
          Sendable(_),  \* the messages the program at the writing end sends
          LongText,     \* a string longer than MaxSize
          MaxSize,      \* the length from which readers refuse a message
          Base,         \* values of a byte of the header
          MaxUint,      \* the largest uint32_t
          Second,       \* milliseconds of a second
          Hour,         \* milliseconds of an hour
          SummerTimes,  \* times at which the local clock is an hour ahead
          MaxSent       \* bound: messages sent

ASSUME SizesAssumption ==
         /\ {MaxSize, MaxUint, Second, Hour} \subseteq Nat \ {0}
         /\ Base \in Nat \ {0, 1}
         /\ MaxSent \in Nat

Writers == {"client", "server", "bridge"}
Readers == {"client", "server", "bridge"}

ASSUME ChannelsAssumption == Channels \subseteq Writers \X Readers

TextKeys == {"order_id", "client_id", "symbol", "buy_order_id", "sell_order_id",
             "error_code", "description", "username", "password",
             "session_token", "error_message"}
PriceKeys == {"price", "stop_price"}
UintKeys == {"quantity", "filled_quantity"}

-----------------------------------------------------------------------------
(* Writing.                                                                *)

\* The lines of a message after its type, in the order of serialize().
CppLayout ==
    [ORDER_SUBMIT |-> <<"client_id", "symbol", "side", "order_type", "price",
                        "stop_price", "quantity">>,
     ORDER_CANCEL |-> <<"order_id", "client_id">>,
     ORDER_STATUS |-> <<"order_id", "client_id", "symbol", "side", "order_type",
                        "price", "stop_price", "quantity", "filled_quantity",
                        "status", "timestamp">>,
     ORDERBOOK_SNAPSHOT |-> <<"symbol">>,
     TRADE_NOTIFICATION |-> <<"buy_order_id", "sell_order_id", "symbol", "price",
                              "quantity", "timestamp">>,
     ERROR |-> <<"error_code", "description">>,
     SNAPSHOT_REQUEST |-> <<"symbol">>,
     LOGIN |-> <<"username", "password">>,
     LOGIN_RESPONSE |-> <<"success", "session_token", "username", "error_message">>,
     REGISTER |-> <<"username", "password">>,
     REGISTER_RESPONSE |-> <<"success", "username", "error_message">>]

Fields(type) == Range(CppLayout[type])

\* The bridge writes requests only, and of an ORDER_STATUS request two lines.
BridgeLayout ==
    [ORDER_SUBMIT |-> <<"client_id", "symbol", "side", "order_type", "price",
                        "quantity", "stop_price">>,
     ORDER_CANCEL |-> <<"order_id", "client_id">>,
     ORDER_STATUS |-> <<"order_id", "client_id">>,
     SNAPSHOT_REQUEST |-> <<"symbol">>,
     LOGIN |-> <<"username", "password">>,
     REGISTER |-> <<"username", "password">>]

\* setprecision(2): the nearest cent (ties are not among the inputs).
Cents(p) == (p + 5) \div 10

\* The local clock, to the millisecond.
timePointToString(t) == IF t \in SummerTimes THEN t + Hour ELSE t

Written(k, v) == CASE k \in PriceKeys -> Cents(v)
                   [] k = "timestamp" -> timePointToString(v)
                   [] k = "success" -> IF v THEN "true" ELSE "false"
                   [] OTHER -> v

\* A string longer than MaxSize takes that many units.
Line(k, v) == IF k \in TextKeys /\ v = LongText
              THEN [i \in 1 .. MaxSize |-> <<k, v>>]
              ELSE << <<k, Written(k, v)>> >>

Layout(w, type) == IF w = "bridge" THEN BridgeLayout[type] ELSE CppLayout[type]

LevelLines(levels) ==
    FlattenSeq([i \in DOMAIN levels |->
        << <<"price", Cents(levels[i].price)>>,
           <<"quantity", levels[i].quantity>>,
           <<"order_count", levels[i].order_count>> >>])

SnapshotLines(m) ==
    << <<"BIDS:", "">> >> \o LevelLines(m.bids) \o
    << <<"ASKS:", "">> >> \o LevelLines(m.asks)

Serialize(w, m) ==
    LET keys == SelectSeq(Layout(w, m.type),
                          LAMBDA k : k = "stop_price" => m.stop_price > 0)
    IN  << <<"type", m.type>> >>
        \o FlattenSeq([i \in DOMAIN keys |-> Line(keys[i], m[keys[i]])])
        \o IF m.type = "ORDERBOOK_SNAPSHOT" THEN SnapshotLines(m) ELSE <<>>

HeaderSize == 4

(* A mutant: the most significant byte first. *)
HeaderBigEndian(n) ==
    [i \in 1 .. HeaderSize |-> <<"byte", (n \div Base^(HeaderSize - i)) % Base>>]

\* Four bytes, least significant first; the length is cut to that width.
Header(n) == [i \in 1 .. HeaderSize |-> <<"byte", (n \div Base^(i - 1)) % Base>>]
frameMessage(w, m) == Header(Len(Serialize(w, m))) \o Serialize(w, m)

-----------------------------------------------------------------------------
(* Parsing.                                                                *)

extractLength(header) ==
    header[1][2] + header[2][2] * Base + header[3][2] * Base^2 + header[4][2] * Base^3

\* operator>> for uint32_t: a sign is accepted and the value wraps, a number
\* that does not fit gives the largest one.
ReadUint(n) == IF n < -MaxUint \/ n > MaxUint THEN MaxUint ELSE n % (MaxUint + 1)

\* get_time stops before the fraction, so >> ms fails and gives 0; mktime is
\* told that the clock is not ahead.
stringToTimePoint(t) == (t \div Second) * Second

CppRead(k, v) ==
    CASE k \in PriceKeys -> v * 10
      [] k \in UintKeys -> ReadUint(v)
      [] k = "side" -> IF v = "SELL" THEN "SELL" ELSE "BUY"
      [] k = "order_type" -> IF v \in {"MARKET", "STOP", "STOP_LIMIT"} THEN v ELSE "LIMIT"
      [] k = "status" -> IF v \in {"PARTIAL", "FILLED", "CANCELED", "REJECTED"}
                         THEN v ELSE "PENDING"
      [] k = "success" -> v = "true"
      [] k = "timestamp" -> stringToTimePoint(v)
      [] OTHER -> v

\* What a field of a new message object holds.
Default(k) == CASE k \in PriceKeys \cup UintKeys \cup {"timestamp"} -> 0
                [] k = "side" -> "BUY"
                [] k = "order_type" -> "LIMIT"
                [] k = "status" -> "PENDING"
                [] k = "success" -> FALSE
                [] OTHER -> ""

\* The loop of parseMessage over the lines of any message but a snapshot.
CppFields(type, lines) ==
    FoldLeft(LAMBDA m, l : IF l[1] \in Fields(type)
                           THEN [m EXCEPT ![l[1]] = CppRead(l[1], l[2])] ELSE m,
             [k \in Fields(type) \cup {"type"} |->
                 IF k = "type" THEN type ELSE Default(k)],
             lines)

(* A mutant: ASKS: does not end the bids. *)
LevelLineInBids(st, l, value, new) ==
    IF l[1] = "order_count"
    THEN [msg |-> [st.msg EXCEPT !.bids = Append(@, [st.level EXCEPT !.order_count = value])],
          in |-> st.in, level |-> new]
    ELSE IF l[1] \in {"price", "quantity"}
         THEN [st EXCEPT !.level = [@ EXCEPT ![l[1]] = value]]
         ELSE st

\* One line of a snapshot: st is the snapshot so far, the side being read and
\* the level being read.  A level is complete with its order_count.
LevelLine(st, l, value, new) ==
    CASE l[1] = "symbol" -> [st EXCEPT !.msg.symbol = l[2]]
      [] l[1] = "BIDS:" -> [st EXCEPT !.in = "bids"]
      [] l[1] = "ASKS:" -> [st EXCEPT !.in = "asks"]
      [] st.in # "none" /\ l[1] \in {"price", "quantity"} ->
             [st EXCEPT !.level = [@ EXCEPT ![l[1]] = value]]
      [] st.in # "none" /\ l[1] = "order_count" ->
             [msg |-> [st.msg EXCEPT ![st.in] =
                           Append(@, [st.level EXCEPT !.order_count = value])],
              in |-> st.in, level |-> new]
      [] OTHER -> st

NewLevel == [price |-> 0, quantity |-> 0, order_count |-> 0]
NewSnapshot == [msg |-> [type |-> "ORDERBOOK_SNAPSHOT", symbol |-> "",
                         bids |-> <<>>, asks |-> <<>>],
                in |-> "none", level |-> NewLevel]

CppSnapshot(lines) ==
    FoldLeft(LAMBDA st, l : LevelLine(st, l, CppRead(l[1], l[2]), NewLevel),
             NewSnapshot, lines).msg

parseMessage(lines) ==
    LET type == lines[1][2]
    IN  CASE type = "ORDERBOOK_SNAPSHOT" -> CppSnapshot(Tail(lines))
          [] type \in DOMAIN CppLayout \ {"ORDERBOOK_SNAPSHOT"} ->
                 CppFields(type, Tail(lines))
          [] OTHER -> [type |-> "ERROR", error_code |-> "PARSE_ERROR",
                       description |-> type]

\* The bridge keeps strings as they are, the time among them.
PyRead(k, v) == CASE k \in PriceKeys -> v * 10
                  [] k = "success" -> v = "true"
                  [] OTHER -> v

\* A dictionary that holds the fields that have a line, and no others.
PyFields(type, lines) ==
    FoldLeft(LAMBDA m, l : IF l[1] \in Fields(type)
                           THEN (l[1] :> PyRead(l[1], l[2])) @@ m ELSE m,
             [type |-> type], lines)

\* Lines in the order of the server fill every key of a level before it is
\* added, so the empty dictionary of the next one is a new level here.
PySnapshot(lines) ==
    FoldLeft(LAMBDA st, l : LevelLine(st, l, PyRead(l[1], l[2]), NewLevel),
             NewSnapshot, lines).msg

parse_message(lines) ==
    LET type == lines[1][2]
    IN  CASE type = "ORDERBOOK_SNAPSHOT" -> PySnapshot(Tail(lines))
          [] type \in {"ORDER_STATUS", "TRADE_NOTIFICATION", "ERROR",
                       "LOGIN_RESPONSE", "REGISTER_RESPONSE"} ->
                 PyFields(type, Tail(lines))
          [] OTHER -> [type |-> "UNKNOWN"]

Parse(r, lines) == IF r = "bridge" THEN parse_message(lines) ELSE parseMessage(lines)

-----------------------------------------------------------------------------
VARIABLES channel,  \* the pair <<writer, reader>>
          up,       \* the connection has not been lost
          sent,     \* messages written so far
          stream,   \* units under way
          state,    \* read_state_: "header", "content", or "closed"
          length,   \* units of the content being read
          got       \* messages the reader has been given

cvars == <<channel, up, sent, stream, state, length, got>>

CInit == /\ channel \in Channels
         /\ up = TRUE
         /\ sent = <<>> /\ stream = <<>> /\ got = <<>>
         /\ state = "header" /\ length = 0

Send(m) == /\ up
           /\ Len(sent) < MaxSent
           /\ sent' = Append(sent, m)
           /\ stream' = stream \o frameMessage(channel[1], m)
           /\ UNCHANGED <<channel, up, state, length, got>>

\* async_read of four bytes, then of the length they give; a length that makes
\* no sense closes the connection.
BadLength(n) == n = 0 \/ n > MaxSize

ReadHeader == /\ state = "header"
              /\ Len(stream) >= HeaderSize
              /\ LET n == extractLength(stream)
                 IN  IF BadLength(n)
                     THEN state' = "closed" /\ UNCHANGED length
                     ELSE state' = "content" /\ length' = n
              /\ stream' = SubSeq(stream, HeaderSize + 1, Len(stream))
              /\ UNCHANGED <<channel, up, sent, got>>

\* The content is complete: it is parsed and handed on, and the next header read.
ReadContent == /\ state = "content"
               /\ Len(stream) >= length
               /\ got' = Append(got, Parse(channel[2], SubSeq(stream, 1, length)))
               /\ stream' = SubSeq(stream, length + 1, Len(stream))
               /\ state' = "header"
               /\ UNCHANGED <<channel, up, sent, length>>

\* The connection is lost; of what is under way the reader gets a first part.
Break == /\ up
         /\ up' = FALSE
         /\ \E n \in 0 .. Len(stream) : stream' = SubSeq(stream, 1, n)
         /\ UNCHANGED <<channel, sent, state, length, got>>

\* End of file before a header or a content is complete.
EndOfFile == /\ ~up
             /\ \/ state = "header" /\ Len(stream) < HeaderSize
                \/ state = "content" /\ Len(stream) < length
             /\ state' = "closed"
             /\ UNCHANGED <<channel, up, sent, stream, length, got>>

CNext == \/ \E m \in Sendable(channel) : Send(m)
         \/ ReadHeader \/ ReadContent \/ Break \/ EndOfFile

CSpec == CInit /\ [][CNext]_cvars

-----------------------------------------------------------------------------
(* Properties.                                                             *)

Nearest(p, q) == p - q <= 5 /\ q - p <= 5

\* The value g that the reader sees stands for the value s of the writer.
SameValue(k, s, g) ==
    CASE k = "price" -> Nearest(s, g)
      [] k = "stop_price" -> IF s > 0 THEN Nearest(s, g) ELSE g = 0
      [] k \in UintKeys -> IF s \in -MaxUint .. MaxUint
                           THEN g \in 0 .. MaxUint /\ (g - s) % (MaxUint + 1) = 0
                           ELSE g = MaxUint
      [] k = "timestamp" -> s + (IF s \in SummerTimes THEN Hour ELSE 0) - g \in 0 .. Second - 1
      [] OTHER -> g = s

SameLevels(s, g) ==
    /\ Len(s) = Len(g)
    /\ \A i \in DOMAIN s : /\ Nearest(s[i].price, g[i].price)
                           /\ g[i].quantity = s[i].quantity
                           /\ g[i].order_count = s[i].order_count

SeenField(g, k) == IF k \in DOMAIN g THEN g[k] ELSE Default(k)

\* What serialize() wrote is what parseMessage or parse_message gives the other
\* side, for each of the programs: every message that is handed on has the type
\* and, field by field, the values of the one that was sent at its place (a field
\* without a line has its default); no message is made up, skipped, or cut short,
\* also when the connection is lost in the middle of one.  The values are changed
\* in three ways, and no more than this: prices are rounded to the nearest cent;
\* times are cut to the second, and an hour late while the local clock is ahead;
\* a quantity, for which the page may send any number, is taken modulo 2^32 when
\* it is negative, and is the largest uint32_t when it does not fit.
Understood ==
    /\ Len(got) <= Len(sent)
    /\ \A i \in DOMAIN got :
          /\ got[i].type = sent[i].type
          /\ \A k \in Fields(sent[i].type) : SameValue(k, sent[i][k], SeenField(got[i], k))
          /\ sent[i].type = "ORDERBOOK_SNAPSHOT" =>
                SameLevels(sent[i].bids, got[i].bids) /\ SameLevels(sent[i].asks, got[i].asks)

\* What the reader has yet to see if it is at the start of message i.
Frames(i) == FlattenSeq([j \in 1 .. Len(sent) - i + 1 |->
                            frameMessage(channel[1], sent[i + j - 1])])

\* startRead, doRead and _read_loop keep in step with the writer: what is under
\* way starts with a header when they expect one and with the whole content of
\* the message announced when they expect that, they close a connection that is
\* up only in front of a message that is too long, and they never take text for
\* a length.
InStep ==
    LET next == Len(got) + 1
        rest == CASE state = "header" -> Frames(next)
                  [] state = "content" -> SubSeq(Frames(next), HeaderSize + 1, Len(Frames(next)))
                  [] OTHER -> stream
    IN  /\ IF up THEN stream = rest ELSE IsPrefix(stream, rest)
        /\ state = "content" => length = Len(Serialize(channel[1], sent[next]))
        /\ state = "closed" /\ up => Len(Serialize(channel[1], sent[next])) > MaxSize
=============================================================================
