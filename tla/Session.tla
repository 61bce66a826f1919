------------------------------ MODULE Session ------------------------------
(***************************************************************************)
(* One connection of the server: class Session of server/src/session.cpp.  *)
(*                                                                         *)
(* The io thread runs the completion handlers of the asynchronous reads    *)
(* and writes one at a time.  What the network does to an operation, and   *)
(* the moment the operation's handler runs, are separate steps: a handler  *)
(* that reports success may still be waiting when another one closes the   *)
(* session.  sendMessage and close release write_mutex_ half way, and are  *)
(* cut there.                                                              *)
(*                                                                         *)
(* A message is its number in the order of the calls of sendMessage.       *)
(***************************************************************************)
EXTENDS Integers, Sequences

CONSTANTS
    IoThread,       \* the thread that runs io_context
    GenThread,      \* the thread of the order generator
    MaxSends,       \* bound on the messages sent
    MaxFrames       \* bound on the messages received

ASSUME SessionThreads == IoThread # GenThread
ASSUME SessionBounds == MaxSends \in Nat /\ MaxFrames \in Nat

VARIABLES
    write_messages, \* the queue of outgoing messages
    writing,        \* writing_
    is_open,        \* the socket is open
    flight,         \* async_writes whose handler has not run: [msg, res]
    starting,       \* threads between the push and doWriteNext
    io,             \* the io thread: "idle", "handling" a message, "closing",
                    \* or about to call doWriteNext again: "next"
    read_state,     \* the outstanding async_read: "HEADER", "CONTENT", "NONE"
    read_result,    \* "busy", "ok" or "err"
    callback_set,   \* disconnect_callback_ is set
    removed,        \* how often the disconnect callback has run
    frames,         \* messages received so far
    \* History
    sent,           \* number of messages given to sendMessage
    wire            \* messages that reached the peer

writeVars == <<write_messages, writing, flight, starting, sent, wire>>
readVars == <<read_state, read_result, frames>>
svars == <<writeVars, readVars, is_open, io, callback_set, removed>>

SInit ==
    /\ write_messages = <<>> /\ writing = FALSE /\ flight = <<>>
    /\ starting = {} /\ sent = 0 /\ wire = <<>>
    /\ read_state = "HEADER" /\ read_result = "busy" /\ frames = 0
    /\ is_open = TRUE /\ io = "idle"
    /\ callback_set = TRUE /\ removed = 0

\* The result an operation has when it is started.
Started == IF is_open THEN "busy" ELSE "err"

----------------------------------------------------------------------------
(* Writing.                                                                *)

\* Mutant of Senders: the generator's orders are not posted to io_context.
EveryThread == {IoThread, GenThread}

\* The threads that call sendMessage: the server posts the generator's orders
\* to io_context so that all callbacks run on the io thread.
Senders == {IoThread}

\* The server finds a session in sessions_, or answers the message at hand.
MaySend(t) ==
    /\ t = IoThread => io = "handling" \/ (io = "idle" /\ callback_set)
    /\ t # IoThread => callback_set
    /\ t \notin starting

sendMessage(t) ==
    /\ MaySend(t)
    /\ sent < MaxSends
    /\ sent' = sent + 1
    /\ write_messages' = Append(write_messages, sent')
    /\ writing' = TRUE
    /\ starting' = IF writing THEN starting ELSE starting \cup {t}
    /\ UNCHANGED <<flight, wire, readVars, is_open, io, callback_set, removed>>

\* doWriteNext, called by sendMessage.
StartWrite ==
    /\ flight' = IF write_messages = <<>> THEN flight
                 ELSE Append(flight, [msg |-> Head(write_messages), res |-> Started])
    /\ writing' = (writing /\ write_messages # <<>>)

doWriteNext(t) ==
    /\ t \in starting
    /\ StartWrite
    /\ starting' = starting \ {t}
    /\ UNCHANGED <<write_messages, sent, wire, readVars, is_open, io,
                   callback_set, removed>>

\* The network takes the message, or fails.
Transmit(i) ==
    /\ is_open /\ flight[i].res = "busy"
    /\ flight' = [flight EXCEPT ![i].res = "ok"]
    /\ wire' = Append(wire, flight[i].msg)
    /\ UNCHANGED <<write_messages, writing, starting, sent, readVars, is_open,
                   io, callback_set, removed>>

WriteFails(i) ==
    /\ flight[i].res = "busy"
    /\ flight' = [flight EXCEPT ![i].res = "err"]
    /\ UNCHANGED <<write_messages, writing, starting, sent, wire, readVars,
                   is_open, io, callback_set, removed>>

IoIdle == io = "idle" /\ IoThread \notin starting

Without(i) == [j \in 1 .. Len(flight) - 1 |->
                  IF j < i THEN flight[j] ELSE flight[j + 1]]

\* Mutant of WriteDone: the handler does not go on with the next message.
WriteDoneStops(i) ==
    /\ IoIdle /\ flight[i].res = "ok"
    /\ flight' = Without(i)
    /\ write_messages' = Tail(write_messages)
    /\ writing' = (writing /\ Tail(write_messages) # <<>>)
    /\ UNCHANGED <<starting, sent, wire, readVars, is_open, io, callback_set, removed>>

\* The handler of a write that succeeded ...
WriteDone(i) ==
    /\ IoIdle /\ flight[i].res = "ok"
    /\ flight' = Without(i)
    /\ write_messages' = Tail(write_messages)
    /\ writing' = (writing /\ Tail(write_messages) # <<>>)
    /\ io' = IF Tail(write_messages) = <<>> THEN "idle" ELSE "next"
    /\ UNCHANGED <<starting, sent, wire, readVars, is_open, callback_set, removed>>

\* ... goes on with the next message.
WriteNext ==
    /\ io = "next"
    /\ StartWrite
    /\ io' = "idle"
    /\ UNCHANGED <<write_messages, starting, sent, wire, readVars, is_open,
                   callback_set, removed>>

----------------------------------------------------------------------------
(* Closing.                                                                *)

\* close, its first half: writing_ is reset if the socket is open.
BeginClose ==
    /\ io' = "closing"
    /\ writing' = (writing /\ ~is_open)

\* The handler of a write that failed.
WriteError(i) ==
    /\ IoIdle /\ flight[i].res = "err"
    /\ flight' = Without(i)
    /\ BeginClose
    /\ UNCHANGED <<write_messages, starting, sent, wire, readVars, is_open,
                   callback_set, removed>>

\* Mutant of close: the callback is not moved out of the member.
CloseKeepsCallback ==
    /\ io = "closing"
    /\ is_open' = FALSE
    /\ flight' = [i \in DOMAIN flight |->
           IF flight[i].res = "busy" THEN [flight[i] EXCEPT !.res = "err"]
                                     ELSE flight[i]]
    /\ read_result' = IF read_state # "NONE" /\ read_result = "busy"
                      THEN "err" ELSE read_result
    /\ removed' = removed + 1
    /\ io' = "idle"
    /\ UNCHANGED <<write_messages, writing, starting, sent, wire, read_state,
                   frames, callback_set>>

\* Mutant of close: the messages that are still queued are thrown away.
CloseClearsQueue ==
    /\ io = "closing"
    /\ is_open' = FALSE
    /\ flight' = [i \in DOMAIN flight |->
           IF flight[i].res = "busy" THEN [flight[i] EXCEPT !.res = "err"]
                                     ELSE flight[i]]
    /\ read_result' = IF read_state # "NONE" /\ read_result = "busy"
                      THEN "err" ELSE read_result
    /\ removed' = IF callback_set THEN removed + 1 ELSE removed
    /\ callback_set' = FALSE
    /\ io' = "idle"
    /\ write_messages' = <<>>
    /\ UNCHANGED <<writing, starting, sent, wire, read_state, frames>>

\* close, its second half: operations the network has not finished end with an
\* error, those it has finished keep their result; the disconnect callback runs
\* once.
close ==
    /\ io = "closing"
    /\ is_open' = FALSE
    /\ flight' = [i \in DOMAIN flight |->
           IF flight[i].res = "busy" THEN [flight[i] EXCEPT !.res = "err"]
                                     ELSE flight[i]]
    /\ read_result' = IF read_state # "NONE" /\ read_result = "busy"
                      THEN "err" ELSE read_result
    /\ removed' = IF callback_set THEN removed + 1 ELSE removed
    /\ callback_set' = FALSE
    /\ io' = "idle"
    /\ UNCHANGED <<write_messages, writing, starting, sent, wire, read_state, frames>>

----------------------------------------------------------------------------
(* Reading: doRead and its two handlers.                                   *)

\* Bytes arrive, or the peer goes away.
Arrive ==
    /\ is_open /\ read_state # "NONE" /\ read_result = "busy"
    /\ frames < MaxFrames
    /\ read_result' = "ok"
    /\ UNCHANGED <<writeVars, read_state, frames, is_open, io, callback_set, removed>>

PeerGone ==
    /\ read_state # "NONE" /\ read_result = "busy"
    /\ read_result' = "err"
    /\ UNCHANGED <<writeVars, read_state, frames, is_open, io, callback_set, removed>>

\* A valid header: the content is read next.
HeaderDone ==
    /\ IoIdle /\ read_state = "HEADER" /\ read_result = "ok"
    /\ read_state' = "CONTENT"
    /\ read_result' = Started
    /\ UNCHANGED <<writeVars, frames, is_open, io, callback_set, removed>>

\* A length of zero or above 1 MB.
BadLength ==
    /\ IoIdle /\ read_state = "HEADER" /\ read_result = "ok"
    /\ read_state' = "NONE"
    /\ BeginClose
    /\ UNCHANGED <<write_messages, flight, starting, sent, wire, read_result,
                   frames, is_open, callback_set, removed>>

\* The content is parsed and given to message_callback_ ...
ContentDone ==
    /\ IoIdle /\ read_state = "CONTENT" /\ read_result = "ok"
    /\ frames' = frames + 1
    /\ io' = "handling"
    /\ UNCHANGED <<writeVars, read_state, read_result, is_open, callback_set, removed>>

\* ... then doRead waits for the next header.
doRead ==
    /\ io = "handling" /\ IoThread \notin starting
    /\ read_state' = "HEADER"
    /\ read_result' = Started
    /\ io' = "idle"
    /\ UNCHANGED <<writeVars, frames, is_open, callback_set, removed>>

ReadError ==
    /\ IoIdle /\ read_state # "NONE" /\ read_result = "err"
    /\ read_state' = "NONE"
    /\ BeginClose
    /\ UNCHANGED <<write_messages, flight, starting, sent, wire, read_result,
                   frames, is_open, callback_set, removed>>

----------------------------------------------------------------------------
\* Steps of the io thread and of the network, without new messages.
Complete ==
    \/ \E t \in Senders : doWriteNext(t)
    \/ \E i \in DOMAIN flight : WriteDone(i) \/ WriteError(i)
    \/ WriteNext \/ close
    \/ HeaderDone \/ BadLength \/ ContentDone \/ doRead \/ ReadError

SNext ==
    \/ \E t \in Senders : sendMessage(t)
    \/ \E i \in DOMAIN flight : Transmit(i) \/ WriteFails(i)
    \/ Complete
    \/ Arrive \/ PeerGone

SSpec == SInit /\ [][SNext]_svars

\* The io thread keeps running handlers, and TCP finishes every write: it takes
\* the bytes or reports an error.
SFairSpec ==
    /\ SSpec
    /\ WF_svars(Complete)
    /\ WF_svars(\E i \in DOMAIN flight : Transmit(i) \/ WriteFails(i))

----------------------------------------------------------------------------
\* The peer gets the messages in the order in which they were sent, none twice
\* and none left out, up to the moment the connection is lost.
WireInOrder == \A i \in DOMAIN wire : wire[i] = i

\* The handler of a successful write pops the message it wrote: the queue is
\* not empty (pop_front of an empty deque is undefined) and its front is that
\* message, even when the session was closed in between.
PopsItsMessage ==
    \A i \in DOMAIN flight : flight[i].res = "ok" =>
        write_messages # <<>> /\ Head(write_messages) = flight[i].msg

\* A closed connection is reported to the server exactly once although reads
\* and writes that fail each close the session.
RemovedOnce ==
    /\ callback_set = (removed = 0)
    /\ ~is_open /\ io # "closing" => removed = 1

\* No message waits for ever on an open connection: writing_ is never left set
\* without a write under way.
QueueDrains == write_messages # <<>> ~> (write_messages = <<>> \/ ~is_open)
=============================================================================
