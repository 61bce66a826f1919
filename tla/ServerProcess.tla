--------------------------- MODULE ServerProcess ---------------------------
(***************************************************************************)
(* The server as a process: main (server/src/main.cpp), the thread of the  *)
(* order generator (server/src/order_generator.cpp), the handlers that the *)
(* main thread runs inside io_context.run, and the signal handler that is  *)
(* to shut all of this down.                                               *)
(*                                                                         *)
(* The signal handler runs on the main thread in the middle of whatever    *)
(* that thread is doing, which stands still, locks held, until the handler *)
(* returns.  Most short critical sections are part of one step here; held  *)
(* is the lock of the one the handler may have interrupted.                *)
(*                                                                         *)
(* Ids are random and carry no meaning: the next one is any unused one.    *)
(***************************************************************************)
EXTENDS MarketData

CONSTANTS
    GenThread,        \* the generator's thread
    Clients,          \* connections
    ClientInputs,     \* the orders clients submit
    GeneratorInputs,  \* the orders generateOrder makes
    MaxTracked        \* config_.max_tracked_orders: 500 in the code

ASSUME GenThreadAssumption == Threads = {IoThread, GenThread} /\ IoThread # GenThread
ASSUME InputsUsed == ClientInputs \cup GeneratorInputs \subseteq Inputs
ASSUME MaxTrackedAssumption == MaxTracked \in Nat
ASSUME GeneratorLimits == \A in \in GeneratorInputs : in.type = "LIMIT"

VARIABLES
    phase,            \* main: "starting", "accepting", "running" (in run()), "exited"
    sessions,         \* the clients in sessions_
    orderbooks_mutex, \* the io thread holds orderbooks_mutex_ over several steps
    sig,              \* the signal handler: "none", "stop", "generator", "join",
                      \* "sleep", "returned"; the io_context is then stopped
    held,             \* the lock of the critical section it interrupted
    gpc,              \* the generator: "off", "top", "try", "lookup", "cancel",
                      \* "counting", "done"
    running,          \* running_ of the generator
    tracked,          \* tracked_order_ids_
    victim,           \* order_id_to_cancel
    posted,           \* orders posted to io_context: [id, in]
    cancel_count,     \* cancel_count_
    \* History
    generated,        \* the ids of the generator's orders
    early             \* the signal came before run()

mainVars == <<phase, sessions, orderbooks_mutex>>
sigVars == <<sig, held, early>>
genVars == <<gpc, running, tracked, victim, cancel_count, generated>>
procVars == <<vars, snapVars, mainVars, sigVars, genVars, posted>>

Unused == {id \in Ids : order[id].status = "NONE" /\ id \notin generated}
NextId == CHOOSE id \in Unused : TRUE

PInit ==
    /\ Init /\ MDInit
    /\ phase = "starting" /\ sessions = {} /\ orderbooks_mutex = FALSE
    /\ sig = "none" /\ held = {} /\ early = FALSE
    /\ gpc = "off" /\ running = FALSE /\ tracked = <<>> /\ victim = NoId
    /\ cancel_count = 0 /\ generated = {} /\ posted = <<>>

----------------------------------------------------------------------------
(* The main thread.  It runs while the signal handler does not; once the   *)
(* io_context is stopped it only finishes the handler it is in.            *)

MainRuns == sig \in {"none", "returned"}

\* Server::start: local_endpoint throws when stop() has closed the acceptor,
\* and main returns 1.
StartAccepting ==
    /\ MainRuns /\ phase = "starting"
    /\ phase' = IF sig = "none" THEN "accepting" ELSE "exited"
    /\ UNCHANGED <<vars, snapVars, sessions, orderbooks_mutex, sigVars, genVars,
                   posted>>

\* ... then the generator's thread, and run() in main.
StartGenerator ==
    /\ MainRuns /\ phase = "accepting"
    /\ phase' = "running"
    /\ running' = TRUE /\ gpc' = "top"
    /\ UNCHANGED <<vars, snapVars, sessions, orderbooks_mutex, sigVars, tracked,
                   victim, cancel_count, generated, posted>>

\* Mutant of IoFree: the two reads of a snapshot are separate handlers.
IoFreeInSnapshot == phase = "running" /\ pc[IoThread] = "idle"

\* Between two handlers of the io_context.
IoFree == phase = "running" /\ pc[IoThread] = "idle" /\ reading = "no"

\* run() takes the next handler.
IoNext == IoFree /\ sig = "none"

acceptConnection(c) ==
    /\ IoNext
    /\ c \notin sessions
    /\ sessions' = sessions \cup {c}
    /\ UNCHANGED <<vars, snapVars, phase, orderbooks_mutex, sigVars, genVars, posted>>

removeSession(c) ==
    /\ IoNext
    /\ c \in sessions
    /\ sessions' = sessions \ {c}
    /\ UNCHANGED <<vars, snapVars, phase, orderbooks_mutex, sigVars, genVars, posted>>

\* handleOrderSubmit
ClientOrder ==
    /\ IoNext /\ sessions # {} /\ Unused # {}
    /\ \E in \in ClientInputs : addOrder(IoThread, NextId, NewOrder(in))
    /\ UNCHANGED <<snapVars, mainVars, sigVars, genVars, posted>>

\* handleOrderCancel of an order that a client owns: orderbooks_mutex_ is held
\* until cancelOrder returns from its callback.
ClientCancel ==
    /\ IoNext /\ sessions # {}
    /\ \E id \in Ids \ generated : CancelOrder(IoThread, id)
    /\ orderbooks_mutex' = TRUE
    /\ UNCHANGED <<snapVars, phase, sessions, sigVars, genVars, posted>>

\* The handler that the generator's order callback posted.
AddPosted ==
    /\ IoNext
    /\ posted # <<>>
    /\ addOrder(IoThread, Head(posted).id, NewOrder(Head(posted).in))
    /\ posted' = Tail(posted)
    /\ UNCHANGED <<snapVars, mainVars, sigVars, genVars>>

\* The rest of addOrder and of cancelOrder.
IoStep ==
    /\ MainRuns
    /\ Step(IoThread)
    /\ orderbooks_mutex' = (orderbooks_mutex /\ pc'[IoThread] # "idle")
    /\ UNCHANGED <<snapVars, phase, sessions, sigVars, genVars, posted>>

\* The snapshot timer and handleSnapshotRequest.
StartSnapshot ==
    /\ IoNext
    /\ \/ ReadBids("timer") /\ orderbooks_mutex' = TRUE
       \/ ReadBids("request") /\ sessions # {} /\ UNCHANGED orderbooks_mutex
    /\ UNCHANGED <<phase, sessions, sigVars, genVars, posted>>

Snapshot ==
    /\ MainRuns
    /\ ReadAsks \/ SendSnapshot
    /\ orderbooks_mutex' = FALSE
    /\ UNCHANGED <<phase, sessions, sigVars, genVars, posted>>

\* run() returns and main ends: what is still posted is never added.
Exit ==
    /\ IoFree /\ sig = "returned"
    /\ phase' = "exited"
    /\ UNCHANGED <<vars, snapVars, sessions, orderbooks_mutex, sigVars, genVars,
                   posted>>

MainNext ==
    \/ StartAccepting \/ StartGenerator
    \/ AddPosted \/ IoStep \/ Snapshot \/ Exit

----------------------------------------------------------------------------
(* The generator's thread.  Only that thread uses tracked_order_ids_.      *)

\* the deque without its oldest ids beyond max_tracked
Trim(q) == IF Len(q) > MaxTracked
           THEN SubSeq(q, Len(q) - MaxTracked + 1, Len(q)) ELSE q

\* generatorLoop up to tryCancel: the new order is tracked, then posted.
generateOrder ==
    /\ gpc = "top" /\ running /\ Unused # {}
    /\ \E in \in GeneratorInputs :
           posted' = Append(posted, [id |-> NextId, in |-> in])
    /\ generated' = generated \cup {NextId}
    /\ tracked' = Trim(Append(tracked, NextId))
    /\ gpc' = "try"
    /\ UNCHANGED <<vars, snapVars, mainVars, sigVars, running, victim, cancel_count>>

LoopEnds ==
    /\ gpc = "top" /\ ~running
    /\ gpc' = "done"
    /\ UNCHANGED <<vars, snapVars, mainVars, sigVars, running, tracked, victim,
                   cancel_count, generated, posted>>

\* tryCancel: nothing to do this time, or a tracked order is picked and
\* forgotten.
tryCancel ==
    /\ gpc = "try"
    /\ \/ gpc' = "top" /\ UNCHANGED <<tracked, victim>>
       \/ \E i \in 1 .. Len(tracked) :
              /\ victim' = tracked[i]
              /\ tracked' = EraseAt(tracked, i)
              /\ gpc' = "lookup"
    /\ UNCHANGED <<vars, snapVars, mainVars, sigVars, running, cancel_count,
                   generated, posted>>

\* The cancel callback: getOrderbook ...
getOrderbook ==
    /\ gpc = "lookup"
    /\ ~orderbooks_mutex /\ "orderbooks" \notin held
    /\ gpc' = "cancel"
    /\ UNCHANGED <<vars, snapVars, mainVars, sigVars, running, tracked, victim,
                   cancel_count, generated, posted>>

\* ... and cancelOrder, which succeeds ...
CancelBegins ==
    /\ gpc = "cancel"
    /\ "book" \notin held
    /\ CancelOrder(GenThread, victim)
    /\ gpc' = "counting"
    /\ UNCHANGED <<snapVars, mainVars, sigVars, running, tracked, victim,
                   cancel_count, generated, posted>>

\* Mutant of CancelFails: the result of cancelOrder is not looked at.
CancelAlwaysCounts ==
    /\ gpc = "cancel"
    /\ "book" \notin held /\ mutex = NoThread
    /\ victim \notin orders_by_id \/ order[victim].status \in Closed
    /\ gpc' = "top" /\ victim' = NoId
    /\ cancel_count' = cancel_count + 1
    /\ UNCHANGED <<vars, snapVars, mainVars, sigVars, running, tracked, generated,
                   posted>>

\* ... or returns false: the order has been filled, or is not added yet.
CancelFails ==
    /\ gpc = "cancel"
    /\ "book" \notin held /\ mutex = NoThread
    /\ victim \notin orders_by_id \/ order[victim].status \in Closed
    /\ gpc' = "top" /\ victim' = NoId
    /\ UNCHANGED <<vars, snapVars, mainVars, sigVars, running, tracked,
                   cancel_count, generated, posted>>

\* onOrderUpdated writes the row and finds no owner; the cancel is counted.
CancelReturns ==
    /\ gpc = "counting"
    /\ held \cap {"db", "owners"} = {}
    /\ Step(GenThread)
    /\ cancel_count' = cancel_count + 1
    /\ gpc' = "top" /\ victim' = NoId
    /\ UNCHANGED <<snapVars, mainVars, sigVars, running, tracked, generated, posted>>

GenNext ==
    /\ phase # "exited"
    /\ \/ generateOrder \/ LoopEnds \/ tryCancel \/ getOrderbook
       \/ CancelBegins \/ CancelFails \/ CancelReturns

----------------------------------------------------------------------------
(* The signal handler.                                                     *)

\* The locks of critical sections that the main thread can be in the middle of.
Sections ==
    CASE phase # "running" \/ mutex = IoThread -> {}
      [] pc[IoThread] = "notify" -> {"db", "owners", "sessions"}
      [] reading \in {"timer", "request"} -> {"book"}
      [] reading = "sending" -> {"sessions"}
      [] OTHER -> {"orderbooks", "book", "db", "owners", "sessions"}

Signal ==
    /\ sig = "none" /\ phase # "exited"
    /\ sig' = "stop"
    /\ held' \in {{}} \cup {{l} : l \in Sections}
    /\ early' = (phase # "running")
    /\ UNCHANGED <<vars, snapVars, mainVars, genVars, posted>>

\* Server::stop closes the acceptor, then every session with sessions_mutex_
\* held.  Session::close runs the disconnect callback, and removeSession waits
\* for the mutex this thread holds: with a session there is no next step.
CloseSessions ==
    /\ sig = "stop"
    /\ "sessions" \notin held
    /\ sessions = {}
    /\ sig' = "generator"
    /\ UNCHANGED <<vars, snapVars, mainVars, held, early, genVars, posted>>

\* Mutant of StopGenerator: running_ is not cleared before the join.
StopWithoutFlag ==
    /\ sig = "generator"
    /\ sig' = IF running THEN "join" ELSE "sleep"
    /\ UNCHANGED <<vars, snapVars, mainVars, held, early, genVars, posted>>

\* OrderGenerator::stop ...
StopGenerator ==
    /\ sig = "generator"
    /\ running' = FALSE
    /\ sig' = IF running THEN "join" ELSE "sleep"
    /\ UNCHANGED <<vars, snapVars, mainVars, held, early, gpc, tracked, victim,
                   cancel_count, generated, posted>>

\* Mutant of Join: the thread is left to itself (detach).
Detach ==
    /\ sig = "join"
    /\ sig' = "sleep"
    /\ UNCHANGED <<vars, snapVars, mainVars, held, early, genVars, posted>>

\* ... waits for the thread.
Join ==
    /\ sig = "join"
    /\ gpc = "done"
    /\ sig' = "sleep"
    /\ UNCHANGED <<vars, snapVars, mainVars, held, early, genVars, posted>>

\* 100 ms later: io_context.stop, and the main thread goes on.
HandlerReturns ==
    /\ sig = "sleep"
    /\ sig' = "returned" /\ held' = {}
    /\ UNCHANGED <<vars, snapVars, mainVars, early, genVars, posted>>

HandlerNext == CloseSessions \/ StopGenerator \/ Join \/ HandlerReturns

----------------------------------------------------------------------------
PNext ==
    \/ MainNext \/ GenNext \/ HandlerNext \/ Signal
    \/ \E c \in Clients : acceptConnection(c) \/ removeSession(c)
    \/ ClientOrder \/ ClientCancel \/ StartSnapshot

\* Threads keep running; clients, the timer and the signal come when they like.
PSpec ==
    /\ PInit /\ [][PNext]_procVars
    /\ WF_procVars(MainNext) /\ WF_procVars(GenNext) /\ WF_procVars(HandlerNext)

----------------------------------------------------------------------------
(* Properties.                                                             *)

\* No generated order gets lost between the two threads: it is posted until it
\* is added, also when a cancel came before (that cancel does nothing), and
\* cancel_count_ is the number of those that were canceled, but for the one that
\* is being canceled (generatorLoop, tryCancel).
GeneratedAccounted ==
    /\ \A id \in generated :
           (\E i \in DOMAIN posted : posted[i].id = id) <=> order[id].status = "NONE"
    /\ Cardinality({id \in generated : order[id].status = "CANCELED"})
           = cancel_count + (IF gpc = "counting" THEN 1 ELSE 0)

\* Without a signal every call of the book returns: matching stops and cascades
\* of stops run out (addOrder, cancelOrder).
CallsReturnUnlessStopped == [](sig = "none") => CallsReturn

\* When main ends after a shutdown from within run() the generator's thread is
\* over, no call is left half way, every trade has been delivered and every
\* change reported: the handler the signal interrupted was run to its end.
ExitClean ==
    phase = "exited" /\ ~early =>
        /\ gpc = "done"
        /\ \A t \in Threads : pc[t] = "idle"
        /\ \A id \in Ids : /\ delivered[id] = traded[id]
                           /\ reported[id] = View(order[id]) \/ Triggered(id)

\* A signal that finds no client connected and the main thread outside all
\* critical sections ends the process, wherever the generator's thread is
\* (signal_handler, Server::stop, OrderGenerator::stop).
StopsWhenFree ==
    /\ sig = "stop" /\ held = {} /\ sessions = {}
    /\ mutex # IoThread /\ ~orderbooks_mutex
    ~> phase = "exited"

\* main.cpp: "Signal handler for graceful shutdown".  A signal ends the process.
GracefulShutdown == sig = "stop" ~> phase = "exited"
=============================================================================
