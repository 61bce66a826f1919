# OrderbookGC in TLA+

A formal model of the OrderbookGC matching engine and its server: TLA+ modules
translated from the C++ source, TLC runs over small instances, and TLAPS proofs
for any instance. `PROJECT.json` lists every run, mutant, mapped source line,
hazard, finding and theorem.

## The system

A C++ server keeps one price-time priority order book per symbol, serves TCP
clients, stores orders and trades in SQLite, and can feed itself with a random
order generator. A Python bridge connects a browser GUI to it.

| Component | State | Operations | Talks to |
|---|---|---|---|
| `Order` | type, quantity left, status | `fill`, `cancel`, `trigger` | owned by the book, read by callbacks |
| `OrderBook` | `bids_`, `asks_`, two stop maps, `orders_by_id_`, `mutex_` | `addOrder` (match, settle, trigger stops, cascade), `cancelOrder`, level queries | order and trade callbacks, outside the lock |
| `OrderStore` | tables `orders`, `trades`, `users` | `saveOrder`, `updateOrder`, `saveTrade`, `loadAllActiveOrders`, accounts | called by the server, one transaction per statement |
| `Session` | socket, write queue, `writing_`, read state | `sendMessage`, `doRead`, `doWriteNext`, `close` | message and disconnect callbacks into the server |
| `Server` | `sessions_`, `subscriptions_`, `order_owners_`, books, snapshot timer | handlers of client messages, the book's callbacks, `removeSession`, restoration, `stop` | everything above |
| `OrderGenerator` | deque of tracked orders, last price | loop on its own thread: post an order, perhaps cancel one | posts to `io_context`; cancels directly |
| Messages | none | parse, serialize, frame | sessions and clients |
| Main program | the signal handler, `io_context` | start, `run()`, shutdown | the server, the generator |
| C++ client | socket, write queue, `connected_`, `io_thread_` | `connect`, `disconnect`, requests, read loop | the server's TCP port |
| Bridge (`tcp_client.py`, `main.py`, `pnl_tracker.py`), frontend | queues, reconnection, positions, lists | connect, retry, translate, display | the server's TCP port |

Two threads matter in the server: the one that runs `io_context` (all client
messages, posted generator orders, timers, completion handlers) and the
generator's, which calls `cancelOrder`. What is hard to test is listed with its
line under `hazards`: callbacks outside the book's lock, cascades of stops,
snapshots read in two critical sections, a crash between two transactions,
completion handlers that run after a close, owner entries written after the
callbacks that would erase them, shutdown from a signal handler that interrupts
the main thread with locks held, in the bridge write loops that outlive their
connection, and in the C++ client an io thread that outlives its own.

## Modules

**OrderBook** is the core. One action per turn of `matchOrder`'s loop (`Match`),
per order settled (`Settle`), per stop level triggered (`TriggerBuy`,
`TriggerSell`) and per callback (`NotifyTrade`, `NotifyUpdate`,
`NotifyIncoming`); `addOrder` begins in `AddStop` or `AddPlain`, `cancelOrder` is
`CancelOrder`. The critical section is cut this finely because callbacks read
`Order` objects without the lock. The recursion of `processStopOrders` is a loop
of rounds: `todo` holds the orders of a round, `mark` is `prev_trade_count`,
`prices` the trade prices to scan, `triggered` the next round. A level map is a
function whose domain is the set of prices that have a level, so an empty level
that is not erased is visible. Prices are tick numbers; MARKET and STOP orders
have price 0, as `handleOrderSubmit` makes them. `arrival`, `clock`, `traded`,
`delivered`, `reported` and `stop_ids` are history.

**Exchange** is what the book promises, without levels, queues, locks and
rounds: a trade takes place with the first order on offer in price, then time.
`OrderBook!ImplementsExchange` maps the Order objects to the ledger and the
orders in `bids_`/`asks_` to the orders on offer.

**MarketData** adds the snapshots: `calculatePriceLevels` with 32-bit sums
(`WordSize`), read for bids and asks in two critical sections, by the timer (under
`orderbooks_mutex_`) or for a request.

**ServerProcess** composes book and snapshots into the running process. The main
thread starts the server and runs handlers in `run()`; the generator's thread
tracks an order, posts it, and perhaps cancels a tracked one; the signal handler
runs on the main thread in the middle of whatever that thread does, which stands
still until it returns. `held` is the lock of a critical section too short to be a
step of its own that the signal fell into (the look-up of a book among them); the
book's mutex and `orderbooks_mutex_`, where it is held over several steps, are
state. `Server::stop` can pass only without sessions:
with one, `removeSession` asks for the mutex its own thread holds.

**Persistence** composes the book with the tables: `saveOrder` before
`addOrder`, `saveTrade` and `updateOrder` from the callbacks (an update reads the
order in one step and writes the row in another), a crash between any two steps,
and `initPersistence`, which makes new orders from the rows and adds them again.

**Session** is one connection: the write queue with `writing_`, the read loop,
and `close` cut where it releases `write_mutex_`. The outcome of an asynchronous
operation and the run of its handler are separate steps, since asio queues
completed handlers. The network (external) delivers or fails.

**Server** composes the book with the server's three maps and what each client
is told: connections, `handleOrderSubmit`, `handleOrderCancel`,
`handleOrderStatus`, `handleSnapshotRequest`, `onOrderUpdated`,
`onTradeExecuted`, `removeSession`. A client is one connection. After a close at
most one message can still be handled (a read that had completed); `Session`
shows how that happens.

**Access** is the users table and who may do what: logins, registration,
`requireAuth`, the default users (four transactions, with a crash possible
between them) and restarts with or without a store or `--auth`. Handlers run on
the io thread, so each is one step. sha256 is taken to be free of collisions.

**Bridge** is the TCP client of the bridge with its read loop, its write loops
and its reconnection, and the commands browsers send through it. A step runs from
one `await` to the next; a sleeping reconnection wakes after the tasks that are
ready, as asyncio does it. The login and the snapshot requests of `on_connect` are
tasks of their own, which run a step after the connection is made, and the login
may be good or bad. The read loop ends when the connection does (`ReadFails`), or
over a message with the connection still open (`ReadInvalid`: an invalid length,
or an exception of `parse_message` or `on_message`); nothing closes that
connection, so old write loops write to it until the next one is made, and the
server goes on handling what it was sent. Every connection therefore has its own
wire, session and order of commands. The server is the environment: a login sets
the account of the session that all browsers share, a bad one changes nothing
(`Authenticated`), and requests are refused without a login or without the
permission (`Refuses`: AUTH_REQUIRED, PERMISSION_DENIED); it closes or resets the
connection.

**Client** is the C++ client: the application's thread (`connect` in two steps
around `asio::connect`, `disconnect` in three, requests, dropping the object) and
`io_thread_` with the handlers of posted writes, `async_write` and `async_read`.
What std::thread does to a joinable thread that is assigned to or destroyed is
part of the state (`gone = "terminated"`), and so is that `io_context_` is never
restarted. The network (external) delivers, fails or ends.

**Codec** is the text between the programs: both writers (`serialize`,
`protocol.py`), the length prefix, the read loops and both parsers, as folds over
lines. A line is the unit of length, so a header counts lines; a string that is
too long takes `MaxSize` of them. Conversions do what the code does: prices are
rounded to cents, `stop_price` is left out when it is not positive, a quantity
that does not fit becomes another one (`ReadUint`), the C++ parser drops
milliseconds and is an hour off in summer, and a field without a line has its
default (C++) or is missing (Python).

**OrderBookProofs**, **PersistenceProofs**, **ServerProofs**, **ServerProcessProofs**,
**SessionProofs**, **ClientProofs**, **BridgeProofs** and **AccessProofs** hold the
proofs; the modules starting with `MC` give TLC its constants.

## Runs

| Run | Shows | Bounds |
|---|---|---|
| `book` | the maps are sound and agree with `orders_by_id_`, never crossed, fills balance (`Conservation`); a stop fires for exactly the trades that reach it; every step is one of the exchange | 5 orders, 2 prices, quantities 0 to 2, stops of each kind |
| `threads` | no trade lost or delivered twice; every change is reported or still owed; snapshots are not crossed and miss no level and no order of it, their sums being modulo 2^32; generated orders are neither lost nor miscounted; calls return; a signal that finds no client and no lock held ends the process with nothing half done | io thread and generator, 3 orders, 1 client, depth 1, 1 tracked order, a signal at any step; sums wrap at 3, quantities are at most 2 |
| `persistence` | rows, trades and restart under crashes | 2 threads, 3 orders, 2 crashes |
| `session` | order of messages, popping, one disconnect, draining | 4 messages out, 2 in |
| `server` | clients are informed, hear their trades, can cancel, and only they; a close cleans up | 2 connections, 3 orders, generator |
| `access` | who is logged in gave the password; nothing is served beyond the account; accounts and confirmed registrations survive | 2 connections, 10 pairs of name and password, any number of crashes |
| `bridge` | one connection or one reconnection at a time; commands are handled in order and once; what follows the login of the command line is refused only to an account that may only look; the client comes back and the queue empties | 2 connections, 4 commands, the logins among them, 1 browser that orders and logs in to a view-only account or with a bad password |
| `codec` | every reader gets the messages that were written, field by field, and keeps to their boundaries, also when the connection is lost at any byte | 2 messages of about 80, all 11 types, 4 pairs of programs, 3 values per header byte |
| `client` | messages arrive in order and once; std::terminate only after a lost connection; what the first connection accepts is sent, or the client is down | 3 messages, 3 connections |

The bounds let the interesting cases happen: a partial fill and a second maker at
one price need three orders, a stop triggered by the trade of a stop needs five,
a lost time priority needs two orders at one price and a taker. A second crash
finds what the restoration after the first left behind. Depth 1 with two prices
cuts a side off, and one tracked order with three generated ones overflows the
deque. A client needs a second connection to meet the thread of the first, and a
third to meet the stopped `io_context_` again. With quantities up to 2 and sums
modulo 3 two bids at one price wrap, and the cancel of one of them between the two
reads leaves a snapshot with less than the level has: `SnapshotComplete` says
exactly which sum it shows. In the bridge a second connection meets the write loop
and the still open socket of the first, and four commands are a login of
`on_connect` with its snapshot request and two of a browser before, between or
after them; the last connection of the bound stays up, so that liveness means
something. Ids (and threads or clients where they are alike) are symmetric.

Three runs expect a violation; each states what a comment or the README says and
TLC shows the code does otherwise (`findings`):

- `restart`: a triggered stop that rests, or whose remainder is canceled, is never
  given to the order callback, so its row stays PENDING STOP and a restart brings
  it back as an untriggered stop, even if it had been canceled.
- `owners`: an order filled inside `addOrder` gets its owner entry afterwards and
  keeps it while its client stays connected.
- `shutdown`: a signal never ends the process when a session is open
  (`sessions_mutex_` is locked twice by one thread), or when the code it
  interrupted holds a lock that the generator's thread, which is joined, waits for.

The passing properties next to them say what does hold: `ReportsOwed`,
`RowsCurrent`, `RestartFaithful` and `ClientInformed` make triggered stops their
only exception (`ClientInformed` also orders of quantity zero, which are refused
but reported PENDING). `CleanedUp` excepts a session whose last message is handled
after `removeSession`: it puts the closed client back into `subscriptions_` and
`order_owners_`, where nothing removes it. `StopsWhenFree` says when a signal does
end the process; `ExitClean` excepts a signal before `run()`, after which `start`
still starts the generator and main leaves with its thread alive.
`TerminatedOnlyAfterLoss` and `SentOrDown` name two limits of the C++ client:
after a lost connection the next `connect` or the destructor ends the process
(`disconnect` returns early and `io_thread_` stays joinable), and after a
`disconnect` a second `connect` succeeds but nothing is sent any more. `Client`
also shows that a `connect` after a loss can let the old thread write left-over
messages to the new connection, so `SentInOrder` allows gaps then, never another
order. `RefusedForCause` delimits two more: commands queued before the login of
`on_connect` are refused on a new connection, and a browser that logs in to a
view-only account takes the permission to trade from all others.

`Understood` names what the text does to values: prices are rounded to cents, a
number from the page that is no `uint32_t` becomes another quantity, and times are
local times that a C++ reader cuts to the second and, while the local clock is
ahead, takes for an hour later. The repository's README documents timestamps
differently, in UTC with milliseconds (README.md:238, 268): the server writes
neither the `T` nor the `Z` of that format, and milliseconds reach the bridge only.

## Fairness

`threads` assumes that the main thread, the generator's thread and the signal
handler keep running whenever they can take a step (weak fairness of each as a
whole): a thread waits only for a mutex or in `join`, and the model blocks it there.
Clients, the timer and the signal are not fair. Calls of the book return only if
no signal comes, since the interrupted thread may stand still for ever. The model
has the signal delivered to the main thread, as Linux does when that thread does
not block it. `session` assumes that the io thread keeps running completed
handlers and that TCP finishes a write, with success or an error; no fairness of
incoming messages. `bridge` assumes that ready tasks run (write loops, the tasks of
`on_connect`, a read loop whose connection has ended) and that an attempt to
connect succeeds at last (the server is not down for ever); not that browsers
send, that a message is invalid, or that the server handles anything. `client` assumes that
each kind of queued handler runs (asio's queue is first in, first out), that a
write is completed or fails, that a read at a dead connection ends, and that a
thread in `connect` or `disconnect` goes on; not that the application calls, the
server answers or the network fails. Deadlock is checked in every run but
`threads`, `session`, `codec` and `client`, where the process or the connection
really stops.

## Proofs

A theorem holds for every value of the constants that meets the module's
ASSUMEs: any threads, ids, clients, messages, any finite set of prices, any
inputs. Each rests on an inductive invariant that TLC checked on the module's
run first.

**The state of the book** (`OrderBookProofs`). `TypeCorrect` (`TypeOK`),
`NeverCrossed` (`Uncrossed`), `QuantityConserved` (`Conservation`) and
`IndexCorrect` (`MapsSound`: `BookSound`, `StopsSound`, `FlightSound`,
`IndexExact`). All follow from `IInv`, the conjunction of these with
`MutualExclusion`. None is inductive alone. `Conservation` fails as soon as
`fill` refuses a quantity, so makers must be open (`BookSound`) and takers too
(`FlightSound`); takers come from the stop maps (`StopsSound`) or are fresh;
an order that is cancelable must be where `cancelOrder` looks (`IndexExact`), or
a canceled order would stay in the book; `Uncrossed` needs the taker to have
nothing left to match when it joins the book, which is the guard of `Settle`; and
all of it needs the half-matched order to be invisible to other calls
(`MutualExclusion`). There is one lemma per action (`AddStopInv` ... `MatchInv`)
and `NextInv` puts them together. The first part of the module has the facts about
best prices of finite sets, queues and level maps (which orders are at which price
after `PushBack`, `SetLevel`, `EraseFrom`, ...).

**The steps of the book** (the same module), on top of `IInv`:

| Theorem | Property | What has to be added to `IInv` |
|---|---|---|
| `BookImplementsExchange` | `ImplementsExchange` | `TimePriority`: a queue is sorted by arrival and every arrival is in the past, since the exchange knows times and the book positions |
| `StopsTriggeredByTrades` | `StopsJustified` | `ScanInv`: a price being scanned is the price of a trade of this call |
| `StopsNeverMissed` | `StopsExhausted` | `ScanInv`: a trade of this call is newer than `mark`, or its price is still to be scanned, or no stop is left that it reaches |
| `ReportsAreOwed` | `ReportsOwed` | `OwedInv`: every order being matched is the one the call is about, or a triggered stop |
| `TradesAreDelivered` | `TradesDelivered` | `DeliverInv`: the undelivered units are finitely many and no trade has the same order on both sides |

The refinement is proved step by step: a `Match` is the trade of the exchange
with the first offer (`MatchRefines`, where the front order of the best level is
shown to be first in price and time), a `Settle` an offer, a cancel or a stutter,
a triggered level a set of triggers; the other steps stutter. `ExchangeSafe` is
about the abstract specification alone: no two orders on offer could trade with
each other, and exactly the live orders have quantity left. `BookOffersSafe`
puts the two together for the book.

**The tables** (`PersistenceProofs`). `RowsStayCurrent` (`RowsCurrent`),
`DoneNeverReturns` (`DoneStaysDone`) and `TablesAlwaysBalance` (`TablesBalance`)
hold for any number of crashes at any step; `RestoredBookSound` says that the
book inside the server keeps `MapsSound`, `Uncrossed`, `Conservation` and
`TradesDelivered` although `initPersistence` adds orders that are not new. They
need each other and more (`PersistInv`). `RowsCurrent` fails if a statement can
write an old view over a newer one: it runs after the callback has read the
order, without the book's lock. `WritesTrue` says it cannot, because the
generator's thread touches only orders without a row (`CallsRight`), so the row's
only writer is the io thread, in the order of its calls. `DoneStaysDone` needs
that what is still to be restored is active (`RestoresActive`) and that what was
saved and not yet added is new (`SavedNew`). In the middle of a call neither
table has caught up with the book, so `TablesBalance` is proved from `Balance`,
which compares both with what was delivered since the order was made.

`RestartIsFaithful` (`RestartFaithful`) compares the book before a crash with the
book after the restart through the table, which is all that survives. Each has its
open orders in the queues that side and price name (`PlacesRight`) and clients'
orders in the queues in the order of their rows (`QueuesByRow`), so both agree with
each other. `QueuesByRow` holds because an order is added only when its row is later
than the rows of all others in the process (`LastAdded`): the io thread saves and
adds one order at a time, and a restart adds in the order of the table. A triggered
stop joins the book later than its row says, which is why the property leaves it
out. During the restart nothing may happen but additions (`RestartInv`): the rows
come from a book that was not crossed (`RowsUncrossed`, which needs `StaleStops`,
that the row of a triggered stop is a stop's until it is written), so nothing
trades, no stop fires, and what the callbacks write is what the rows already say.

**The process** (`ServerProcessProofs`). `ProcessImplementsBook` and
`ProcessImplementsExchange` carry the results of the book over to the process
with its threads, its generator, its snapshots and its signal handler; on top of
them `SnapshotsNeverCrossed` (`SnapshotUncrossed`), `GeneratorAccounts`
(`GeneratedAccounted`) and `ExitsCleanly` (`ExitClean`) follow from `ProcInv`. A
snapshot reads the two sides in two critical sections. It is not crossed because
all additions run on the thread that takes the snapshot: between the two reads
another thread can only cancel, and levels only disappear (`ReadsSafe`, which
compares the levels already read with the book as it is now). That the generator
loses none of its orders needs that the book never cancels a limit order by itself
(`LimitsOnly`) and that what was posted is added or still in the queue
(`PostedUntilAdded`). `ShutdownOrder` orders the phases of `main` and the
generator's thread. The assumption `GeneratorLimits` on the inputs is
`generateOrder`'s: it leaves the order's type at the default, LIMIT (order.h:37).

**The server** (`ServerProofs`). `ServerRunsBook` (`SvSpec => Spec`) carries
everything above over to the book inside the server. `ClientsStayInformed`
(`ClientInformed`), `ClientsHearTheirTrades` (`OwnTradesHeard`),
`LiveOrdersAreOwned` (`LiveOwned`), `NobodyElseCancels` (`CanceledOnRequest`) and
`ClosedSessionsForgotten` (`CleanedUp`) then follow from `ServerInv`. The owner
entry is written after the callbacks that may already report the order as done,
so "the client owns its orders" is false in the middle of a request; what is
invariant is that the entry is the submitter's or missing (`OwnersRight`), and
missing only for the order being submitted or once the order is done and the
client was told (`OwnedOrDone`). `ToldReported` ties what was told to what the
order callback last saw; that this is the present state between two handlers
comes from `ReportsOwed`, because the other thread cancels only orders without a
client (`OtherThreads`). `TradesHeard` uses `buy # sell` of `DeliverInv`.

**The session** (`SessionProofs`): `PeerGetsInOrder` (`WireInOrder`),
`HandlersPopTheirs` (`PopsItsMessage`), `ClosingReportedOnce` (`RemovedOnce`), from
`SessionInv`. `close` resets `writing_` while a write is under way, so there may
be several of them on a closed socket: all but one have failed (`OneAlive`), and
that one is of the queue's front.

**The C++ client** (`ClientProofs`): `MessagesInOrder` (`SentInOrder`) and
`TerminatesOnlyAfterLoss` (`TerminatedOnlyAfterLoss`), from `ClientInv`, which
relates `io_thread_`, `connected_` and the stopped `io_context_` (`Threads`) and
says that a message that went nowhere is followed only by such messages until a
connection is lost (`Gap`).

**The bridge** (`BridgeProofs`): `AlwaysOneConnection` (`OneConnection`),
`CommandsInOrder` (`InOrder`) and `RefusalsForCause` (`RefusedForCause`), from
`BridgeInv`. `OneConnection` is inductive with the types. The two others need to
know where commands are: the queue holds the last ones sent, without a gap
(`QueueNumbered`), and what went out on a connection, handled or not, is an
unbroken run of numbers that begins where the one of the connection before had
ended (`Run`, `Streams`; between the runs are the commands written to a dead
connection). So a login of `on_connect` is handled before anything sent later that
goes out on its connection, and from then on the session has that login or a later
one (`LoginFirst`).

**Access** (`AccessProofs`): `AccessSafe` (`AccessSound`, that is `LoginProved`,
`Authorised` and `RegisteredStays`) and the action property `AccountsKept`
(`AccountsSafe`). The invariant `AInv` adds that what a session remembers of its
permissions is what the row says, and that seeding began with an empty table and
writes distinct names: without the first, a login proves nothing about what is
served later; without the second, `INSERT OR REPLACE` could overwrite an account.

Only model-checked:

- liveness (`CallsReturn`, the draining of queues, reconnection, shutdown), which
  is out of the prover's reach;
- `SnapshotComplete`, which compares sums that are defined by recursion;
- `Codec`: `Understood` and `InStep` say what folds over lines compute, which
  needs induction over data.

## Not modelled

- Tick rounding and `setTickSize`: prices are already ticks.
- Several symbols: books share nothing. Two consequences at the level of the
  server are left out: a snapshot request creates a book, and orders of such a
  book are not restored.
- Logins inside `Server`: permissions are checked in `Access`, apart from orders.
- In the bridge: `stop`, the forwarding of server messages to browsers, what each
  page takes its login to be (all share one session, and every LOGIN_RESPONSE goes
  to all of them), the PnL tracker. Registrations count as logins that change
  nothing. What a later close of a connection given up while open does at the
  server is `Server!removeSession`.
- Of the shutdown: a second signal, a signal before the server object exists,
  locks inside libraries (malloc, stdout) that the signal handler may find taken,
  and the destruction of the static objects, where `io_context` goes before the
  server that refers to it (main.cpp:12).
- Prices of generated orders follow `updateLastPrice`; here any of a set.
- Of the C++ client: `disconnect` called from a callback on the io thread (the
  join of itself throws and is caught), the data race on `socket_` between the two
  threads (each use of it is one step here), `injectTestMessage`.
- The page's connection indicator, which ignores the CONNECTION_STATUS the bridge
  broadcasts.
- `created_at` has a resolution of one second; rows are taken in insertion order.
- Failures of single SQL statements: their results are ignored by the server.
- Strings with line breaks, which no writer escapes.
- The lists of the frontend and the arithmetic of the PnL tracker; uuids are taken
  to be fresh, hashing and rendering are out of scope.

## Plan

1. Several symbols in `Server` and `Persistence`; two connections of one user.
2. `Bridge`: messages to browsers and what their pages make of them.
3. Proofs: that callbacks reach the right session when a user has two connections,
   with (1).
