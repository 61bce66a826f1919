------------------------------- MODULE Client -------------------------------
(***************************************************************************)
(* The C++ client (client.cpp): the application's thread calls connect,    *)
(* disconnect and the requests, and drops its shared_ptr; io_thread_ runs  *)
(* the handlers, one at a time, until io_context_ is stopped.  A message   *)
(* is the number of the call that accepted it.                             *)
(***************************************************************************)
EXTENDS Naturals, Sequences

CONSTANTS MaxSent,      \* bound: messages the application sends
          MaxConnects   \* bound: calls of connect that succeed

ASSUME ClientBounds == MaxSent \in Nat /\ MaxConnects \in Nat

VARIABLES connected, running,   \* connected_, running_
          open,          \* socket_.is_open()
          net,           \* is the connection to the server up?
          thread,        \* io_thread_: "none" (not joinable), "running", "finished"
          stopped,       \* has io_context_ been stopped?  It is never restarted
          app,           \* where the application's thread is
          posts,         \* messages in handlers that write() has posted
          write_queue, writing,
          write_op,      \* the async_write under way or completed
          read_op,       \* the async_read under way or completed
          read_state,
          dropped,       \* has the application dropped its shared_ptr?
          gone,          \* "no", "destroyed", or "terminated" (std::terminate)
          sent, wire,    \* history: messages accepted, messages at the server
          connects,      \* history: connections made
          lost           \* history: has a handler taken the connection down?

flags == <<connected, running, open, net>>
threads == <<thread, stopped, app>>
queues == <<posts, write_queue, writing, write_op>>
reads == <<read_op, read_state>>
life == <<dropped, gone>>
history == <<sent, wire, connects, lost>>
cvars == <<flags, threads, queues, reads, life, history>>

NoRead == [of |-> "none", result |-> "none"]

NoWrite == [of |-> 0, result |-> "none"]

Begun(what) == [of |-> what, result |-> "pending"]

Ended(op, result) == [op EXCEPT !.result = result]

(* Closing the socket aborts what is under way on it. *)
Aborted(op) == IF op.result = "pending" THEN Ended(op, "error") ELSE op

CInit == /\ connected = FALSE /\ running = FALSE /\ open = FALSE /\ net = FALSE
         /\ thread = "none" /\ stopped = FALSE /\ app = "idle"
         /\ posts = <<>> /\ write_queue = <<>> /\ writing = FALSE
         /\ write_op = NoWrite /\ read_op = NoRead /\ read_state = "HEADER"
         /\ dropped = FALSE /\ gone = "no"
         /\ sent = 0 /\ wire = <<>> /\ connects = 0 /\ lost = FALSE

----------------------------------------------------------------------------
(* The application's thread. *)

AppCalls == app = "idle" /\ ~dropped /\ gone = "no"

(* startRead with running_ set and the socket open.  A read_state_ of       *)
(* CONTENT, left by a disconnect in mid-message, is put back to HEADER.     *)
startRead == /\ read_op' = Begun("header")
             /\ read_state' = "HEADER"

(* asio::connect closes the socket, which aborts what is left of an earlier *)
(* connection, and opens it anew.  io_thread_ may still run handlers.       *)
connect ==
  /\ AppCalls /\ ~connected
  /\ connects < MaxConnects
  /\ open' = TRUE /\ net' = TRUE
  /\ read_op' = Aborted(read_op) /\ write_op' = Aborted(write_op)
  /\ app' = "connecting"
  /\ connects' = connects + 1
  /\ UNCHANGED <<connected, running, thread, stopped, posts, write_queue, writing,
                 read_state, life, sent, wire, lost>>

(* The rest of connect.  Assigning to an io_thread_ that is still joinable  *)
(* ends the process.  A handler may have closed the socket in between.      *)
Connected ==
  /\ app = "connecting" /\ open
  /\ connected' = TRUE /\ running' = TRUE
  /\ app' = "idle"
  /\ IF thread = "none"
     THEN thread' = "running" /\ startRead /\ UNCHANGED gone
     ELSE gone' = "terminated" /\ UNCHANGED <<thread, reads>>
  /\ UNCHANGED <<open, net, stopped, queues, dropped, history>>

ClosedMeanwhile == /\ app = "connecting" /\ ~open
                   /\ app' = "idle"
                   /\ UNCHANGED <<flags, thread, stopped, queues, reads, life, history>>

(* The server does not answer: the socket stays open, unconnected. *)
connectFails ==
  /\ AppCalls /\ ~connected
  /\ open' = TRUE /\ net' = FALSE
  /\ read_op' = Aborted(read_op) /\ write_op' = Aborted(write_op)
  /\ UNCHANGED <<connected, running, threads, posts, write_queue, writing,
                 read_state, life, history>>

(* disconnect, up to the closing of the socket; it returns at once when     *)
(* connected_ is already false.                                             *)
disconnect ==
  /\ AppCalls /\ connected
  /\ running' = FALSE /\ open' = FALSE /\ net' = FALSE
  /\ read_op' = Aborted(read_op) /\ write_op' = Aborted(write_op)
  /\ app' = "stopping"
  /\ UNCHANGED <<connected, thread, stopped, posts, write_queue, writing,
                 read_state, life, history>>

StopContext == /\ app = "stopping"
               /\ stopped' = TRUE
               /\ app' = "joining"
               /\ UNCHANGED <<flags, thread, queues, reads, life, history>>

(* A mutant: the io thread is not joined. *)
NoJoin == /\ app = "joining"
          /\ app' = "idle"
          /\ connected' = FALSE
          /\ UNCHANGED <<running, open, net, thread, stopped, queues, reads, life,
                         history>>

JoinThread == /\ app = "joining"
              /\ thread = "finished"
              /\ thread' = "none"
              /\ app' = "idle"
              /\ connected' = FALSE
              /\ UNCHANGED <<running, open, net, stopped, queues, reads, life, history>>

(* submitOrder, cancelOrder, requestOrderbookSnapshot, requestOrderStatus   *)
(* and the write they end in: what it accepts is posted to the io thread.   *)
write ==
  /\ AppCalls /\ connected /\ open
  /\ sent < MaxSent
  /\ sent' = sent + 1
  /\ posts' = Append(posts, sent')
  /\ UNCHANGED <<flags, threads, write_queue, writing, write_op, reads, life, wire,
                 connects, lost>>

Drop == /\ AppCalls
        /\ dropped' = TRUE
        /\ UNCHANGED <<flags, threads, queues, reads, gone, history>>

(* The last shared_ptr is gone when no completion handler holds one.  The   *)
(* destructor disconnects, and so joins, only when connected_ is set; then  *)
(* the destructor of a joinable io_thread_ ends the process.                *)
Destroy ==
  /\ dropped /\ gone = "no" /\ app = "idle"
  /\ read_op = NoRead /\ write_op = NoWrite
  /\ gone' = IF connected \/ thread = "none" THEN "destroyed" ELSE "terminated"
  /\ UNCHANGED <<flags, threads, queues, reads, dropped, history>>

----------------------------------------------------------------------------
(* The io thread. *)

IoRuns == thread = "running" /\ ~stopped /\ gone = "no"

RunReturns == /\ thread = "running" /\ stopped /\ gone = "no"
              /\ thread' = "finished"
              /\ UNCHANGED <<flags, stopped, app, queues, reads, life, history>>

(* async_write on a socket that is closed by now fails. *)
doWriteNext(m) == write_op' = [of |-> m, result |-> IF open THEN "pending" ELSE "error"]

(* A mutant: a posted message goes ahead of those that wait. *)
PushFront == /\ IoRuns /\ posts # <<>>
             /\ posts' = Tail(posts)
             /\ writing' = TRUE
             /\ IF writing
                THEN /\ write_queue' = <<Head(write_queue), Head(posts)>> \o Tail(write_queue)
                     /\ UNCHANGED write_op
                ELSE /\ write_queue' = <<Head(posts)>> \o write_queue
                     /\ doWriteNext(Head(posts))
             /\ UNCHANGED <<flags, threads, reads, life, history>>

(* The handler that write() posts. *)
PostedWrite ==
  /\ IoRuns /\ posts # <<>>
  /\ posts' = Tail(posts)
  /\ write_queue' = Append(write_queue, Head(posts))
  /\ writing' = TRUE
  /\ IF writing THEN UNCHANGED write_op ELSE doWriteNext(Head(write_queue'))
  /\ UNCHANGED <<flags, threads, reads, life, history>>

(* A mutant: writing_ is not reset when the queue runs empty. *)
WriteDoneStaysWriting ==
  /\ IoRuns /\ write_op.result = "ok"
  /\ write_queue' = Tail(write_queue)
  /\ IF write_queue' = <<>> THEN write_op' = NoWrite ELSE doWriteNext(Head(write_queue'))
  /\ UNCHANGED <<flags, threads, posts, writing, reads, life, history>>

WriteDone ==
  /\ IoRuns /\ write_op.result = "ok"
  /\ write_queue' = Tail(write_queue)
  /\ writing' = (write_queue' # <<>>)
  /\ IF writing' THEN doWriteNext(Head(write_queue')) ELSE write_op' = NoWrite
  /\ UNCHANGED <<flags, threads, posts, reads, life, history>>

(* connected_ is cleared by a handler, not by disconnect. *)
LosesConnection == /\ connected' = FALSE
                   /\ lost' = (lost \/ running)

(* The socket stays open and writing_ stays set. *)
WriteError == /\ IoRuns /\ write_op.result = "error"
              /\ write_op' = NoWrite
              /\ LosesConnection
              /\ UNCHANGED <<running, open, net, threads, posts, write_queue, writing,
                             reads, life, sent, wire, connects>>

HeaderDone == /\ IoRuns /\ read_op = [of |-> "header", result |-> "ok"]
              /\ read_state' = "CONTENT"
              /\ read_op' = [of |-> "content", result |-> IF open THEN "pending" ELSE "error"]
              /\ UNCHANGED <<flags, threads, queues, life, history>>

(* handleData passes the message to the callback and catches what it throws; *)
(* then the next header is read, unless a disconnect is under way.          *)
ContentDone == /\ IoRuns /\ read_op = [of |-> "content", result |-> "ok"]
               /\ IF running /\ open
                  THEN startRead
                  ELSE read_op' = NoRead /\ read_state' = "HEADER"
               /\ UNCHANGED <<flags, threads, queues, life, history>>

(* The read failed, or the header holds an impossible length. *)
ReadError == /\ IoRuns /\ read_op.result \in {"error", "bad length"}
             /\ read_op' = NoRead
             /\ open' = FALSE /\ net' = FALSE
             /\ write_op' = Aborted(write_op)
             /\ LosesConnection
             /\ UNCHANGED <<running, threads, posts, write_queue, writing, read_state,
                            life, sent, wire, connects>>

----------------------------------------------------------------------------
(* The network and the server. *)

Arrives == /\ net /\ read_op.result = "pending"
           /\ \/ read_op' = Ended(read_op, "ok")
              \/ read_op.of = "header" /\ read_op' = Ended(read_op, "bad length")
           /\ UNCHANGED <<flags, threads, queues, read_state, life, history>>

(* A write may be taken by the local buffer when the peer has gone. *)
Transmit == /\ open /\ write_op.result = "pending"
            /\ write_op' = Ended(write_op, "ok")
            /\ wire' = IF net THEN Append(wire, write_op.of) ELSE wire
            /\ UNCHANGED <<flags, threads, posts, write_queue, writing, reads, life,
                           sent, connects, lost>>

WriteFails == /\ write_op.result = "pending"
              /\ write_op' = Ended(write_op, "error")
              /\ UNCHANGED <<flags, threads, posts, write_queue, writing, reads, life,
                             history>>

PeerGone == /\ net
            /\ net' = FALSE
            /\ UNCHANGED <<connected, running, open, threads, queues, reads, life,
                           history>>

EndOfStream == /\ ~net /\ read_op.result = "pending"
               /\ read_op' = Ended(read_op, "error")
               /\ UNCHANGED <<flags, threads, queues, read_state, life, history>>

Handler == PostedWrite \/ WriteDone \/ WriteError \/ HeaderDone \/ ContentDone \/ ReadError

CNext == \/ connect \/ Connected \/ ClosedMeanwhile \/ connectFails \/ disconnect \/ StopContext \/ JoinThread
         \/ write \/ Drop \/ Destroy
         \/ RunReturns \/ Handler
         \/ Arrives \/ Transmit \/ WriteFails \/ PeerGone \/ EndOfStream

(* Each queued handler runs in its turn, so each kind has its own fairness; *)
(* the kernel completes writes, and both threads keep running.  Nothing     *)
(* makes the application call, the server answer or the network fail.       *)
CSpec == /\ CInit /\ [][CNext]_cvars
         /\ WF_cvars(PostedWrite) /\ WF_cvars(WriteDone) /\ WF_cvars(WriteError)
         /\ WF_cvars(HeaderDone) /\ WF_cvars(ContentDone) /\ WF_cvars(ReadError)
         /\ WF_cvars(RunReturns) /\ WF_cvars(StopContext) /\ WF_cvars(JoinThread)
         /\ WF_cvars(Connected \/ ClosedMeanwhile)
         /\ WF_cvars(Transmit \/ WriteFails) /\ WF_cvars(EndOfStream)

----------------------------------------------------------------------------
(* The server gets the messages in the order of the calls and none twice,   *)
(* over posts, queue, failed writes and later connections; and it misses    *)
(* none in between unless the connection was lost (write, doWriteNext).     *)
SentInOrder == \A i \in 1 .. Len(wire) :
                 /\ i > 1 => wire[i - 1] < wire[i]
                 /\ wire[i] <= sent
                 /\ lost \/ wire[i] = i

(* std::thread ends the process only when a handler took a connection down, *)
(* which leaves io_thread_ joinable and makes disconnect return early: never *)
(* by disconnecting and connecting again, nor by dropping the client at any *)
(* moment (connect, disconnect, ~Client).                                   *)
TerminatedOnlyAfterLoss == gone = "terminated" => lost

(* A message accepted on the first connection reaches the server, or the    *)
(* client ends up not connected.  It is not so after a disconnect and a     *)
(* second connect: io_context_ stays stopped, so nothing is sent while      *)
(* isConnected() holds (write, doWriteNext, disconnect).                    *)
SentOrDown ==
  \A m \in 1 .. MaxSent :
    (connects = 1 /\ sent >= m) ~> (Len(wire) >= m \/ ~connected)
=============================================================================
