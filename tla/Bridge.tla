------------------------------- MODULE Bridge -------------------------------
(***************************************************************************)
(* The Python bridge (gui/bridge): the TCP client with its read loop,      *)
(* write loops and reconnection, and the commands of browsers it queues.   *)
(* A step runs from one await to the next.                                 *)
(*                                                                         *)
(* _handle_disconnect does not cancel the write loop, which is waiting in  *)
(* _write_queue.get(): it takes the next command even while there is no    *)
(* connection, or lives on beside the write loop of the next connection.   *)
(* Nor does it close the connection: when the read loop ends over a message *)
(* it cannot use, write loops still write to it until _connect replaces    *)
(* _writer, and the server goes on handling what it was sent.              *)
(* Commands are far smaller than the write buffer, so drain() returns at   *)
(* once or raises.  The server runs with --auth.                           *)
(***************************************************************************)
EXTENDS Naturals, Sequences

CONSTANTS Browsers,      \* browser tabs
          Asked,         \* the kinds of command they send
          Given,         \* what the login of the command line may turn out to be
          MaxCommands,   \* bound on commands
          MaxConnects    \* bound on connections

Connections == 1 .. MaxConnects

VARIABLES
  cli,          \* is there a server_username, from the command line?
  connected,    \* _connected
  link,         \* the connection of _writer: "none", "open", "eof" (closed by
                \* the server) or "lost" (reset)
  readers,      \* read loops waiting in readexactly
  writers,      \* write loops waiting in get
  reconnects,   \* tasks that will try to connect
  greeting,     \* are the tasks of on_connect still to run?
  write_queue,  \* _write_queue
  wire,         \* [Connections -> written on it, not yet handled by the server]
  session,      \* [Connections -> the login its Session is authenticated by]
  ws,           \* [Browsers -> is the WebSocket open (and so in ws_clients)]
  connects,     \* history: number of connections made; the last is _writer's
  sent,         \* history: number of the last command
  login,        \* history: [Connections -> the login on_connect sent]
  handled,      \* history: [Connections -> the numbers handled, in that order]
  refused       \* history: the command the server handled last, if refused:
                \* {[no, conn, under]}, under the login of that session

tcpVars == <<connected, link, readers, writers, reconnects>>
serverVars == <<wire, session, handled, refused>>
webVars == <<ws, cli>>
bvars == <<tcpVars, serverVars, webVars, greeting, write_queue, connects, sent, login>>

(* A login is named for the account it opens: one that may trade, or one    *)
(* that may only look.  A bad one is refused by the server; a registration  *)
(* counts as one, since it does not touch the session either.               *)
Accounts == {"trader", "viewer"}
Logins == Accounts \cup {"badlogin"}

(* Submitting and canceling need "trade", a snapshot needs "view". *)
Kinds == Logins \cup {"submit", "snapshot"}

ASSUME BridgeAssumption == /\ Asked \subseteq Kinds /\ Given \subseteq Logins
                           /\ MaxCommands \in Nat /\ MaxConnects \in Nat \ {0}

Command(k, n) == [kind |-> k, no |-> n]
NoLogin == Command("none", 0)

(* TcpClient.start begins with an attempt to connect, like a reconnection. *)
BInit == /\ cli \in BOOLEAN
         /\ connected = FALSE /\ link = "none"
         /\ readers = 0 /\ writers = 0 /\ reconnects = 1 /\ greeting = FALSE
         /\ write_queue = <<>>
         /\ wire = [c \in Connections |-> <<>>]
         /\ session = [c \in Connections |-> NoLogin]
         /\ ws = [b \in Browsers |-> FALSE]
         /\ connects = 0 /\ sent = 0
         /\ login = [c \in Connections |-> NoLogin]
         /\ handled = [c \in Connections |-> <<>>]
         /\ refused = {}

----------------------------------------------------------------------------
(* Commands. *)

send(k) == /\ sent < MaxCommands
           /\ write_queue' = Append(write_queue, Command(k, sent + 1))
           /\ sent' = sent + 1

(* A command over the WebSocket is queued whether or not there is a          *)
(* connection.                                                               *)
handle_ws_command(b, k) ==
  /\ ws[b]
  /\ send(k)
  /\ UNCHANGED <<tcpVars, serverVars, webVars, greeting, connects, login>>

(* POST and DELETE /api/order: refused when not connected. *)
submit_order ==
  /\ connected
  /\ send("submit")
  /\ UNCHANGED <<tcpVars, serverVars, webVars, greeting, connects, login>>

----------------------------------------------------------------------------
(* The TCP client. *)

(* A mutant: the write loop is started for the first connection only. *)
WriteLoopOnce == writers' = IF connects = 0 THEN 1 ELSE writers

StartWriteLoop == writers' = writers + 1

(* on_connect schedules the tasks that log in and ask for snapshots.  The    *)
(* sleep of _reconnect outlasts the tasks that were ready when it began: no  *)
(* read loop that has yet to notice the loss is left, and no greeting.       *)
connect == /\ reconnects > 0 /\ connects < MaxConnects
           /\ readers = 0 /\ ~greeting
           /\ link' = "open" /\ connected' = TRUE
           /\ greeting' = cli
           /\ readers' = readers + 1
           /\ StartWriteLoop
           /\ reconnects' = reconnects - 1
           /\ connects' = connects + 1
           /\ UNCHANGED <<serverVars, webVars, write_queue, sent, login>>

(* The tasks of on_connect run one after the other; by then browsers may     *)
(* have queued commands.  What the login opens is up to the server.          *)
on_connect ==
  /\ greeting
  /\ greeting' = FALSE
  /\ \E k \in Given :
       /\ write_queue' = write_queue \o <<Command(k, sent + 1),
                                          Command("snapshot", sent + 2)>>
       /\ login' = [login EXCEPT ![connects] = Command(k, sent + 1)]
  /\ sent' = sent + 2
  /\ UNCHANGED <<tcpVars, serverVars, webVars, connects>>

(* A failed attempt: _reconnect sleeps again. *)
ConnectFails ==
  /\ reconnects > 0
  /\ connected' = FALSE
  /\ UNCHANGED <<link, readers, writers, reconnects, serverVars, webVars, greeting,
                 write_queue, connects, sent, login>>

(* A mutant: the check that someone else has seen the disconnect is missing. *)
DisconnectTwice == connected' = FALSE /\ reconnects' = reconnects + 1

(* on_disconnect tells the browsers, whose hook has no case for it.          *)
handle_disconnect ==
  IF connected THEN connected' = FALSE /\ reconnects' = reconnects + 1
               ELSE UNCHANGED <<connected, reconnects>>

(* A mutant: a command that could not be written is queued again. *)
WriteRetries ==
  /\ writers > 0 /\ write_queue # <<>>
  /\ \/ /\ link = "open"
        /\ write_queue' = Tail(write_queue)
        /\ wire' = [wire EXCEPT ![connects] = Append(@, Head(write_queue))]
        /\ writers' = IF connected THEN writers ELSE writers - 1
        /\ UNCHANGED <<connected, reconnects>>
     \/ /\ link = "lost"
        /\ write_queue' = Append(Tail(write_queue), Head(write_queue))
        /\ writers' = writers - 1
        /\ handle_disconnect
        /\ UNCHANGED wire
  /\ UNCHANGED <<link, readers, session, handled, refused, webVars, greeting,
                 connects, sent, login>>

write_loop ==
  /\ writers > 0 /\ write_queue # <<>>
  /\ write_queue' = Tail(write_queue)
  /\ \/ /\ link \in {"open", "eof"}
        /\ wire' = IF link = "open"
                      THEN [wire EXCEPT ![connects] = Append(@, Head(write_queue))]
                      ELSE wire
        /\ writers' = IF connected THEN writers ELSE writers - 1
        /\ UNCHANGED <<connected, reconnects>>
     \/ /\ link = "lost"
        /\ writers' = writers - 1
        /\ handle_disconnect
        /\ UNCHANGED wire
  /\ UNCHANGED <<link, readers, session, handled, refused, webVars, greeting,
                 connects, sent, login>>

(* A mutant: the read loop ends without _handle_disconnect. *)
EndSilently ==
  /\ readers' = readers - 1
  /\ UNCHANGED <<connected, link, writers, reconnects, serverVars, webVars, greeting,
                 write_queue, connects, sent, login>>

(* The finally clause; nothing closes the connection. *)
EndReadLoop ==
  /\ readers' = readers - 1
  /\ handle_disconnect
  /\ UNCHANGED <<link, writers, serverVars, webVars, greeting, write_queue, connects,
                 sent, login>>

(* IncompleteReadError or ConnectionError ends the read loop. *)
ReadFails == readers > 0 /\ link \in {"eof", "lost"} /\ EndReadLoop

(* So do a length that makes no sense and an exception of parse_message or   *)
(* on_message, with the connection still up (not on the last connection of   *)
(* the bound).                                                               *)
ReadInvalid == readers > 0 /\ link = "open" /\ connects < MaxConnects /\ EndReadLoop

read_loop == ReadFails \/ ReadInvalid

----------------------------------------------------------------------------
(* The server and the network (external). *)

(* The server closes the connection and reads no more from it.  The last     *)
(* connection of the bound stays up.                                         *)
ServerCloses ==
  /\ link = "open" /\ connects < MaxConnects
  /\ link' = "eof"
  /\ wire' = [wire EXCEPT ![connects] = <<>>]
  /\ UNCHANGED <<connected, readers, writers, reconnects, session, handled, refused,
                 webVars, greeting, write_queue, connects, sent, login>>

(* The client's side is reset; the server may still handle what it got. *)
Reset ==
  /\ link \in {"open", "eof"} /\ connects < MaxConnects
  /\ link' = "lost"
  /\ UNCHANGED <<connected, readers, writers, reconnects, serverVars, webVars,
                 greeting, write_queue, connects, sent, login>>

(* A mutant: a refused login ends the one before. *)
LogsOut(s, m) == IF m.kind \in Logins THEN (IF m.kind \in Accounts THEN m ELSE NoLogin)
                                      ELSE s

(* handleLogin: a login replaces the one before, a refused one changes       *)
(* nothing.                                                                  *)
Authenticated(s, m) == IF m.kind \in Accounts THEN m ELSE s

(* requireAuth: AUTH_REQUIRED without a login, PERMISSION_DENIED when the    *)
(* account lacks the permission.                                             *)
Refuses(s, m) == \/ m.kind \in {"submit", "snapshot"} /\ s = NoLogin
                 \/ m.kind = "submit" /\ s.kind = "viewer"

(* The server takes the next command of a connection, also of one that the   *)
(* bridge has given up.                                                      *)
ServerHandles(c) ==
  /\ wire[c] # <<>>
  /\ wire' = [wire EXCEPT ![c] = Tail(@)]
  /\ LET m == Head(wire[c]) IN
       /\ session' = [session EXCEPT ![c] = Authenticated(@, m)]
       /\ handled' = [handled EXCEPT ![c] = Append(@, m.no)]
       /\ refused' = IF Refuses(session[c], m)
                     THEN {[no |-> m.no, conn |-> c, under |-> session[c]]} ELSE {}
  /\ UNCHANGED <<tcpVars, webVars, greeting, write_queue, connects, sent, login>>

----------------------------------------------------------------------------
(* The browser's hook: a WebSocket that is reopened after two seconds. *)

ws_open(b) ==
  /\ ~ws[b]
  /\ ws' = [ws EXCEPT ![b] = TRUE]
  /\ UNCHANGED <<cli, tcpVars, serverVars, greeting, write_queue, connects, sent, login>>

ws_close(b) ==
  /\ ws[b]
  /\ ws' = [ws EXCEPT ![b] = FALSE]
  /\ UNCHANGED <<cli, tcpVars, serverVars, greeting, write_queue, connects, sent, login>>

BNext == \/ \E b \in Browsers : \/ ws_open(b) \/ ws_close(b)
                                \/ \E k \in Asked : handle_ws_command(b, k)
         \/ submit_order
         \/ connect \/ on_connect \/ ConnectFails \/ write_loop \/ read_loop
         \/ ServerCloses \/ Reset
         \/ \E c \in Connections : ServerHandles(c)

BSpec == BInit /\ [][BNext]_bvars

(* Ready tasks run, and the server is up often enough for an attempt to     *)
(* connect to succeed.  Nothing makes a message invalid.                    *)
BFairSpec == /\ BSpec
             /\ WF_bvars(connect) /\ WF_bvars(on_connect)
             /\ WF_bvars(write_loop) /\ WF_bvars(ReadFails)

----------------------------------------------------------------------------
(* The client is connected, with one read loop and a write loop, or exactly  *)
(* one task will try to connect; then a read loop is left only until it      *)
(* notices the reset that a write loop saw first.  Both loops may report the *)
(* same disconnect, and the connection may still be open when they do        *)
(* (_handle_disconnect).                                                     *)
OneConnection ==
  IF connected THEN reconnects = 0 /\ readers = 1 /\ writers > 0 /\ link # "none"
               ELSE reconnects = 1 /\ readers <= 1 /\ (readers = 1 => link = "lost")

(* Commands are handled in the order they were sent and never twice, however *)
(* many write loops share the queue: on one connection in that order, and    *)
(* those of a later connection were sent after those of an earlier one.      *)
(* (The server may still handle commands of a connection the bridge gave up  *)
(* after some of its successor: _write_loop, _send.)                         *)
InOrder ==
  \A c, d \in Connections :
    \A i \in 1 .. Len(handled[c]), j \in 1 .. Len(handled[d]) :
      c < d \/ (c = d /\ i < j) => handled[c][i] < handled[d][j]

(* When on_connect logs in to an account, the server refuses what was sent   *)
(* after that and went out on the same connection only because a later login *)
(* (of any browser, they share the session), or that one, is to an account   *)
(* that may only look.  Whatever else is refused was sent before the login:  *)
(* commands queued while the client reconnects overtake it (on_connect,      *)
(* requireAuth).                                                             *)
RefusedForCause ==
  \A r \in refused :
    login[r.conn].kind \in Accounts /\ login[r.conn].no < r.no =>
      /\ r.under.kind = "viewer"
      /\ login[r.conn].no <= r.under.no /\ r.under.no < r.no

(* A connection that ends, or that the client has given up, is replaced      *)
(* (_reconnect).                                                             *)
LiveAgain == (~connected \/ link # "open") ~> (connected /\ link = "open")

(* Queued commands are taken from the queue (_write_loop). *)
QueueSent == (write_queue # <<>>) ~> (write_queue = <<>>)
=============================================================================
