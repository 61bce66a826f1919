---------------------------- MODULE BridgeProofs ----------------------------
(***************************************************************************)
(* Proofs about Bridge, for every number of browsers, commands and         *)
(* connections: one connection or one attempt to connect at any time,      *)
(* commands in order, and refusals for a cause.                            *)
(*                                                                         *)
(* OneConnection is inductive.  The two others need where a command can    *)
(* be: the queue holds the last commands sent (QueueNumbered), and what    *)
(* went out on a connection is an unbroken run of numbers that begins      *)
(* where the one before had ended (Run, Streams).  So a login that         *)
(* on_connect sent is on the connection before anything sent later, and    *)
(* the session has it or a later one by then (LoginFirst).                 *)
(***************************************************************************)
EXTENDS Bridge, Integers, SequenceTheorems, TLAPS

Commands == [kind : Kinds, no : Nat]

BridgeType ==
  /\ cli \in BOOLEAN /\ connected \in BOOLEAN /\ greeting \in BOOLEAN
  /\ link \in {"none", "open", "eof", "lost"}
  /\ readers \in Nat /\ writers \in Nat /\ reconnects \in Nat
  /\ write_queue \in Seq(Commands)
  /\ wire \in [Connections -> Seq(Commands)]
  /\ handled \in [Connections -> Seq(Nat)]
  /\ session \in [Connections -> [kind : Accounts \cup {"none"}, no : Nat]]
  /\ login \in [Connections -> [kind : Logins \cup {"none"}, no : Nat]]
  /\ sent \in Nat /\ connects \in 0 .. MaxConnects

(* The number of the last command that was taken from the queue. *)
Taken == sent - Len(write_queue)

(* The queue holds the last commands sent, in their order. *)
QueueNumbered ==
  /\ Taken \in Nat
  /\ \A i \in 1 .. Len(write_queue) : write_queue[i].no = Taken + i

(* What went out on connection c, handled or not, are the commands from     *)
(* b + 1 to Last(c, b).                                                     *)
Last(c, b) == b + Len(handled[c]) + Len(wire[c])

Run(c, b) ==
  /\ \A i \in 1 .. Len(handled[c]) : handled[c][i] = b + i
  /\ \A i \in 1 .. Len(wire[c]) : wire[c][i].no = b + Len(handled[c]) + i
  /\ c <= connects => Last(c, b) <= Taken
  /\ c = connects /\ link = "open" => Last(c, b) = Taken
  /\ c > connects => /\ handled[c] = <<>> /\ wire[c] = <<>>
                     /\ login[c] = NoLogin /\ session[c] = NoLogin

(* The login that on_connect sent for c is not older than c, it is what it  *)
(* is wherever it is found, and once it has been handled the session is     *)
(* authenticated by it or by a later one.                                   *)
LoginFirst(c, b) ==
  /\ login[c].no <= sent
  /\ login[c].kind \in Accounts => b < login[c].no
  /\ \A i \in 1 .. Len(write_queue) :
       write_queue[i].no = login[c].no => write_queue[i].kind = login[c].kind
  /\ \A i \in 1 .. Len(wire[c]) :
       wire[c][i].no = login[c].no => wire[c][i].kind = login[c].kind
  /\ session[c].no <= b + Len(handled[c])
  /\ session[c].kind \in Accounts \/ session[c] = NoLogin
  /\ login[c].kind \in Accounts /\ login[c].no <= b + Len(handled[c]) =>
       session[c].kind \in Accounts /\ login[c].no <= session[c].no

Streams ==
  \E base \in [Connections -> Nat] :
    /\ \A c \in Connections : Run(c, base[c]) /\ LoginFirst(c, base[c])
    /\ \A c, d \in Connections : c < d /\ d <= connects => Last(c, base[c]) <= base[d]

RefusedKnown == \A r \in refused : r.conn \in Connections /\ r.no \in Nat /\ r.no <= Taken

BridgeInv ==
  /\ BridgeType
  /\ OneConnection
  /\ QueueNumbered
  /\ Streams
  /\ RefusedKnown
  /\ RefusedForCause

----------------------------------------------------------------------------
(* The queue.                                                               *)

(* k commands with the next numbers are put at the end of the queue. *)
Extended(k) ==
  /\ write_queue' \in Seq(Commands)
  /\ Len(write_queue') = Len(write_queue) + k
  /\ \A i \in 1 .. Len(write_queue) : write_queue'[i] = write_queue[i]
  /\ \A i \in 1 .. k : write_queue'[Len(write_queue) + i].no = sent + i
  /\ sent' = sent + k

LEMMA ExtendedQueue ==
  ASSUME BridgeType, QueueNumbered, NEW k \in Nat, Extended(k)
  PROVE  QueueNumbered' /\ Taken' = Taken /\ Taken \in Nat
<1>0. /\ Len(write_queue) \in Nat /\ sent \in Nat /\ Taken \in Nat
      /\ Len(write_queue') = Len(write_queue) + k /\ sent' = sent + k
  BY DEF BridgeType, QueueNumbered, Extended
<1>1. Taken' = Taken
  BY <1>0 DEF Taken
<1>2. ASSUME NEW i \in 1 .. Len(write_queue')
      PROVE  write_queue'[i].no = Taken + i
  <2>1. CASE i \in 1 .. Len(write_queue)
    BY <2>1 DEF Extended, QueueNumbered
  <2>2. CASE ~(i \in 1 .. Len(write_queue))
    <3>1. i - Len(write_queue) \in 1 .. k
      BY <1>0, <2>2
    <3>2. write_queue'[Len(write_queue) + (i - Len(write_queue))].no
            = sent + (i - Len(write_queue))
      BY <3>1 DEF Extended
    <3> QED
      BY <1>0, <3>2 DEF Taken
  <2> QED
    BY <2>1, <2>2
<1> QED
  BY <1>0, <1>1, <1>2 DEF QueueNumbered

LEMMA SendExtends ==
  ASSUME BridgeType, NEW k \in Kinds, send(k)
  PROVE  Extended(1)
<1>1. Command(k, sent + 1) \in Commands /\ Command(k, sent + 1).no = sent + 1
  BY DEF BridgeType, Commands, Command
<1>2. /\ write_queue' = Append(write_queue, Command(k, sent + 1))
      /\ sent' = sent + 1 /\ write_queue \in Seq(Commands)
  BY DEF send, BridgeType
<1> HIDE DEF Commands, Command
<1>3. /\ write_queue' \in Seq(Commands) /\ Len(write_queue') = Len(write_queue) + 1
      /\ \A i \in 1 .. Len(write_queue) : write_queue'[i] = write_queue[i]
      /\ write_queue'[Len(write_queue) + 1] = Command(k, sent + 1)
  BY <1>1, <1>2, AppendProperties
<1>4. \A i \in 1 .. 1 : i = 1
  OBVIOUS
<1> QED
  BY <1>1, <1>2, <1>3, <1>4 DEF Extended

LEMMA PairFacts ==
  ASSUME NEW S, NEW q \in Seq(S), NEW a \in S, NEW b \in S
  PROVE  /\ q \o <<a, b>> \in Seq(S)
         /\ Len(q \o <<a, b>>) = Len(q) + 2
         /\ \A i \in 1 .. Len(q) : (q \o <<a, b>>)[i] = q[i]
         /\ (q \o <<a, b>>)[Len(q) + 1] = a
         /\ (q \o <<a, b>>)[Len(q) + 2] = b
<1>1. <<a, b>> \in Seq(S) /\ Len(<<a, b>>) = 2
  OBVIOUS
<1>2. Len(q) \in Nat
  OBVIOUS
<1> QED
  BY <1>1, <1>2

(* The login that on_connect queues is the one of this connection. *)
LEMMA GreetExtends ==
  ASSUME BridgeType, NEW k \in Logins,
         write_queue' = write_queue \o <<Command(k, sent + 1), Command("snapshot", sent + 2)>>,
         sent' = sent + 2
  PROVE  Extended(2) /\ write_queue'[Len(write_queue) + 1].kind = k
<1> DEFINE a == Command(k, sent + 1)
           b == Command("snapshot", sent + 2)
<1>1. /\ a \in Commands /\ a.no = sent + 1 /\ a.kind = k
      /\ b \in Commands /\ b.no = sent + 2
  BY DEF BridgeType, Commands, Command, Kinds
<1>2. /\ write_queue' = write_queue \o <<a, b>> /\ write_queue \in Seq(Commands)
  BY DEF BridgeType
<1> HIDE DEF a, b
<1>3. /\ write_queue' \in Seq(Commands) /\ Len(write_queue') = Len(write_queue) + 2
      /\ \A i \in 1 .. Len(write_queue) : write_queue'[i] = write_queue[i]
      /\ write_queue'[Len(write_queue) + 1] = a
      /\ write_queue'[Len(write_queue) + 2] = b
  BY <1>1, <1>2, PairFacts
<1>4. \A i \in 1 .. 2 : i = 1 \/ i = 2
  OBVIOUS
<1>5. \A i \in 1 .. 2 : write_queue'[Len(write_queue) + i].no = sent + i
  BY <1>1, <1>3, <1>4
<1> QED
  BY <1>1, <1>2, <1>3, <1>5 DEF Extended

(* A queue that grew still holds the login of a connection as it was.       *)
LEMMA ExtendedKinds ==
  ASSUME BridgeType, NEW k \in Nat, Extended(k), NEW n \in Nat, n <= sent, NEW x,
         \A i \in 1 .. Len(write_queue) : write_queue[i].no = n => write_queue[i].kind = x
  PROVE  \A i \in 1 .. Len(write_queue') : write_queue'[i].no = n => write_queue'[i].kind = x
<1>0. /\ Len(write_queue) \in Nat /\ sent \in Nat /\ Len(write_queue') = Len(write_queue) + k
  BY DEF BridgeType, Extended
<1> SUFFICES ASSUME NEW i \in 1 .. Len(write_queue'), write_queue'[i].no = n
             PROVE  write_queue'[i].kind = x
  OBVIOUS
<1>1. CASE i \in 1 .. Len(write_queue)
  BY <1>1 DEF Extended
<1>2. CASE ~(i \in 1 .. Len(write_queue))
  <2>1. i - Len(write_queue) \in 1 .. k
    BY <1>0, <1>2
  <2>2. write_queue'[Len(write_queue) + (i - Len(write_queue))].no
          = sent + (i - Len(write_queue))
    BY <2>1 DEF Extended
  <2>3. write_queue'[i].no > sent
    BY <1>0, <2>1, <2>2
  <2> QED
    BY <1>0, <2>3
<1> QED
  BY <1>1, <1>2

----------------------------------------------------------------------------
(* Every step keeps BridgeInv.                                              *)

LEMMA BridgeInit == BInit => BridgeInv
<1> SUFFICES ASSUME BInit PROVE BridgeInv
  OBVIOUS
<1>0. Len(<<>>) = 0 /\ \A S : <<>> \in Seq(S)
  OBVIOUS
<1>1. BridgeType
  <2>1. NoLogin \in [kind : Accounts \cup {"none"}, no : Nat]
        /\ NoLogin \in [kind : Logins \cup {"none"}, no : Nat]
    BY DEF NoLogin, Command
  <2>2. 0 \in 0 .. MaxConnects
    BY BridgeAssumption
  <2> QED
    BY <1>0, <2>1, <2>2 DEF BInit, BridgeType
<1>2. Len(write_queue) = 0 /\ sent = 0 /\ Taken = 0
  <2>1. write_queue = <<>> /\ sent = 0
    BY DEF BInit
  <2>2. Len(write_queue) = 0
    BY <1>0, <2>1
  <2>3. Taken = 0 - 0
    BY <2>1, <2>2 DEF Taken
  <2> QED
    BY <2>1, <2>2, <2>3
<1>3. \A i : ~(i \in 1 .. 0)
  OBVIOUS
<1>4. QueueNumbered
  BY <1>2, <1>3 DEF QueueNumbered
<1>5. Streams
  <2> DEFINE base == [c \in Connections |-> 0]
  <2>1. base \in [Connections -> Nat]
    OBVIOUS
  <2>2. ASSUME NEW c \in Connections
        PROVE  Run(c, base[c]) /\ LoginFirst(c, base[c])
    <3>1. /\ handled[c] = <<>> /\ wire[c] = <<>> /\ session[c] = NoLogin
          /\ login[c] = NoLogin /\ base[c] = 0 /\ connects = 0 /\ link = "none"
          /\ c \in Nat /\ c > 0
      BY BridgeAssumption DEF BInit, Connections
    <3>2. NoLogin.no = 0 /\ NoLogin.kind \notin Accounts
      BY DEF NoLogin, Command, Accounts
    <3> HIDE DEF base
    <3> QED
      BY <1>0, <1>2, <1>3, <3>1, <3>2 DEF Run, LoginFirst, Last
  <2>3. \A c, d \in Connections : c < d /\ d <= connects => Last(c, base[c]) <= base[d]
    BY BridgeAssumption DEF BInit, Connections
  <2> HIDE DEF base
  <2> QED
    BY <2>1, <2>2, <2>3 DEF Streams
<1>6. OneConnection /\ RefusedKnown /\ RefusedForCause
  BY DEF BInit, OneConnection, RefusedKnown, RefusedForCause
<1> QED
  BY <1>1, <1>4, <1>5, <1>6 DEF BridgeInv

(* Steps that leave connections, sessions and queue alone. *)
StreamVars == <<wire, handled, session, login, refused, write_queue, sent, connects>>

LEMMA StillStep ==
  ASSUME BridgeInv, UNCHANGED StreamVars, BridgeType', OneConnection',
         link' = "open" => link = "open"
  PROVE  BridgeInv'
<1> USE DEF BridgeInv
<1>0. /\ wire' = wire /\ handled' = handled /\ session' = session /\ login' = login
      /\ refused' = refused /\ write_queue' = write_queue /\ sent' = sent
      /\ connects' = connects
  BY DEF StreamVars
<1>1. Taken' = Taken
  BY <1>0 DEF Taken
<1>2. QueueNumbered'
  BY <1>0, <1>1 DEF QueueNumbered
<1>3. Streams'
  <2>1. PICK base \in [Connections -> Nat] :
          /\ \A c \in Connections : Run(c, base[c]) /\ LoginFirst(c, base[c])
          /\ \A c, d \in Connections : c < d /\ d <= connects => Last(c, base[c]) <= base[d]
    BY DEF Streams
  <2>2. ASSUME NEW c \in Connections
        PROVE  Run(c, base[c])' /\ LoginFirst(c, base[c])' /\ Last(c, base[c])' = Last(c, base[c])
    BY <1>0, <1>1, <2>1 DEF Run, LoginFirst, Last
  <2> QED
    BY <1>0, <2>1, <2>2 DEF Streams
<1>4. RefusedKnown' /\ RefusedForCause'
  BY <1>0, <1>1 DEF RefusedKnown, RefusedForCause
<1> QED
  BY <1>2, <1>3, <1>4

(* A command of a browser or of the REST interface. *)
LEMMA SendStep ==
  ASSUME BridgeInv, NEW k \in Kinds, send(k),
         UNCHANGED <<tcpVars, serverVars, cli, greeting, connects, login>>
  PROVE  BridgeInv'
<1> USE DEF BridgeInv
<1>0. Extended(1) /\ QueueNumbered' /\ Taken' = Taken /\ Taken \in Nat
  BY SendExtends, ExtendedQueue
<1>a. /\ wire' = wire /\ handled' = handled /\ session' = session /\ login' = login
      /\ refused' = refused /\ connects' = connects /\ link' = link
      /\ connected' = connected /\ readers' = readers /\ writers' = writers
      /\ reconnects' = reconnects /\ cli' = cli /\ greeting' = greeting
  BY DEF tcpVars, serverVars
<1>b. sent \in Nat /\ sent' = sent + 1 /\ write_queue' \in Seq(Commands)
  BY <1>0 DEF BridgeType, Extended
<1>1. BridgeType' /\ OneConnection'
  BY <1>a, <1>b DEF BridgeType, OneConnection
<1>3. Streams'
  <2>1. PICK base \in [Connections -> Nat] :
          /\ \A c \in Connections : Run(c, base[c]) /\ LoginFirst(c, base[c])
          /\ \A c, d \in Connections : c < d /\ d <= connects => Last(c, base[c]) <= base[d]
    BY DEF Streams
  <2>2. ASSUME NEW c \in Connections
        PROVE  Run(c, base[c])' /\ LoginFirst(c, base[c])' /\ Last(c, base[c])' = Last(c, base[c])
    <3>1. login[c].no \in Nat /\ login[c].no <= sent
      BY <2>1 DEF LoginFirst, BridgeType
    <3>2. \A i \in 1 .. Len(write_queue') :
            write_queue'[i].no = login[c].no => write_queue'[i].kind = login[c].kind
      <4>1. \A i \in 1 .. Len(write_queue) :
              write_queue[i].no = login[c].no => write_queue[i].kind = login[c].kind
        BY <2>1 DEF LoginFirst
      <4> QED
        BY <1>0, <3>1, <4>1, ExtendedKinds
    <3>3. login[c].no <= sent'
      BY <1>b, <3>1
    <3>4. Run(c, base[c])' /\ Last(c, base[c])' = Last(c, base[c])
      BY <1>0, <1>a, <2>1 DEF Run, Last
    <3>5. LoginFirst(c, base[c])'
      BY <1>a, <2>1, <3>2, <3>3 DEF LoginFirst
    <3> QED
      BY <3>4, <3>5
  <2> QED
    BY <1>a, <2>1, <2>2 DEF Streams
<1>4. RefusedKnown' /\ RefusedForCause'
  BY <1>0, <1>a DEF RefusedKnown, RefusedForCause
<1> QED
  BY <1>0, <1>1, <1>3, <1>4

LEMMA ConnectStep ==
  ASSUME BridgeInv, connect
  PROVE  BridgeInv'
<1> USE DEF BridgeInv
<1>0. /\ reconnects > 0 /\ connects < MaxConnects /\ readers = 0 /\ ~greeting
      /\ link' = "open" /\ connected' = TRUE /\ greeting' = cli /\ readers' = readers + 1
      /\ writers' = writers + 1 /\ reconnects' = reconnects - 1
      /\ connects' = connects + 1 /\ cli' = cli
      /\ write_queue' = write_queue /\ sent' = sent /\ login' = login
      /\ wire' = wire /\ handled' = handled /\ session' = session /\ refused' = refused
  BY DEF connect, StartWriteLoop, webVars, serverVars
<1>a. connected = FALSE /\ reconnects = 1
  BY <1>0 DEF OneConnection, BridgeType
<1>b. /\ connects \in Nat /\ connects' \in 1 .. MaxConnects /\ MaxConnects \in Nat
      /\ \A c \in Connections : c \in Nat /\ c > 0
  BY <1>0, BridgeAssumption DEF BridgeType, Connections
<1>1. BridgeType'
  <2>1. /\ readers' \in Nat /\ reconnects' \in Nat /\ writers' \in Nat
        /\ connects' \in 0 .. MaxConnects
    BY <1>0, <1>a, <1>b DEF BridgeType
  <2>2. /\ cli' \in BOOLEAN /\ connected' \in BOOLEAN /\ greeting' \in BOOLEAN
        /\ link' \in {"none", "open", "eof", "lost"}
    BY <1>0 DEF BridgeType
  <2> QED
    BY <1>0, <2>1, <2>2 DEF BridgeType
<1>2. OneConnection'
  BY <1>0, <1>a DEF OneConnection, BridgeType
<1>3. QueueNumbered' /\ Taken' = Taken /\ Taken \in Nat
  BY <1>0 DEF QueueNumbered, Taken
<1>4. Streams'
  <2>1. PICK base \in [Connections -> Nat] :
          /\ \A c \in Connections : Run(c, base[c]) /\ LoginFirst(c, base[c])
          /\ \A c, d \in Connections : c < d /\ d <= connects => Last(c, base[c]) <= base[d]
    BY DEF Streams
  <2>2. PICK now \in Nat : now = Taken
    BY <1>3
  <2>3. PICK new \in [Connections -> Nat] :
          \A c \in Connections : new[c] = IF c = connects + 1 THEN now ELSE base[c]
    <3>1. [c \in Connections |-> IF c = connects + 1 THEN now ELSE base[c]]
            \in [Connections -> Nat]
      BY <2>1
    <3> QED
      BY <3>1
  <2>4. ASSUME NEW c \in Connections, c # connects + 1
        PROVE  Run(c, new[c])' /\ LoginFirst(c, new[c])' /\ Last(c, new[c])' = Last(c, base[c])
    <3>1. new[c] = base[c] /\ c # connects'
      BY <1>0, <2>3, <2>4
    <3>2. c <= connects' => c <= connects
      BY <1>0, <1>b, <2>4
    <3>3. c > connects' => c > connects
      BY <1>0, <1>b
    <3>4. Run(c, base[c]) /\ LoginFirst(c, base[c])
      BY <2>1
    <3> HIDE DEF BridgeInv
    <3>5. Run(c, new[c])' /\ Last(c, new[c])' = Last(c, base[c])
      BY <1>0, <1>3, <3>1, <3>2, <3>3, <3>4 DEF Run, Last
    <3>6. LoginFirst(c, new[c])'
      BY <1>0, <3>1, <3>4 DEF LoginFirst
    <3> QED
      BY <3>5, <3>6
  <2>5. ASSUME NEW c \in Connections, c = connects + 1
        PROVE  Run(c, new[c])' /\ LoginFirst(c, new[c])' /\ Last(c, new[c])' = now
    <3>1. /\ handled[c] = <<>> /\ wire[c] = <<>> /\ login[c] = NoLogin /\ session[c] = NoLogin
      BY <1>b, <2>1, <2>5 DEF Run
    <3>2. Len(<<>>) = 0 /\ \A i : ~(i \in 1 .. 0)
      OBVIOUS
    <3>3. NoLogin.no = 0 /\ NoLogin.kind \notin Accounts
      BY DEF NoLogin, Command, Accounts
    <3>4. new[c] = now /\ now = Taken' /\ now \in Nat
      BY <1>3, <2>2, <2>3, <2>5
    <3>5. LoginFirst(c, base[c])
      BY <2>1
    <3> HIDE DEF BridgeInv
    <3>6. /\ Len(handled'[c]) = 0 /\ Len(wire'[c]) = 0 /\ login'[c].no = 0
          /\ login'[c].kind \notin Accounts /\ session'[c] = NoLogin /\ session'[c].no = 0
      BY <1>0, <3>1, <3>2, <3>3
    <3>7. Last(c, new[c])' = now
      <4>1. Last(c, new[c])' = new[c] + Len(handled'[c]) + Len(wire'[c])
        BY DEF Last
      <4>2. \A x \in Nat : x + 0 + 0 = x
        OBVIOUS
      <4> QED
        BY <3>4, <3>6, <4>1, <4>2
    <3>8. ~(c > connects') /\ now <= Taken'
      BY <1>0, <1>b, <2>5, <3>4
    <3>9. Run(c, new[c])'
      BY <3>2, <3>4, <3>6, <3>7, <3>8 DEF Run
    <3>10. login'[c].no <= sent' /\ session'[c].no <= new[c] + Len(handled'[c])
      BY <1>0, <3>3, <3>4, <3>5, <3>6 DEF LoginFirst
    <3>11. LoginFirst(c, new[c])'
      BY <1>0, <3>2, <3>5, <3>6, <3>10 DEF LoginFirst
    <3> QED
      BY <3>7, <3>9, <3>11
  <2>6. ASSUME NEW c \in Connections, NEW d \in Connections, c < d, d <= connects'
        PROVE  Last(c, new[c])' <= new[d]
    <3>1. c # connects + 1 /\ c <= connects /\ Last(c, new[c])' = Last(c, base[c])
      BY <1>0, <1>b, <2>4, <2>6
    <3>2. CASE d = connects + 1
      <4>1. Last(c, base[c]) <= Taken
        BY <2>1, <3>1 DEF Run
      <4> QED
        BY <2>2, <2>3, <3>1, <3>2, <4>1
    <3>3. CASE d # connects + 1
      <4>1. d <= connects
        BY <1>0, <1>b, <2>6, <3>3
      <4> QED
        BY <2>1, <2>3, <2>6, <3>1, <3>3, <4>1
    <3> QED
      BY <3>2, <3>3
  <2>7. /\ \A c \in Connections : Run(c, new[c])' /\ LoginFirst(c, new[c])'
        /\ \A c, d \in Connections : c < d /\ d <= connects' => Last(c, new[c])' <= new[d]
    BY <2>4, <2>5, <2>6
  <2> QED
    BY <2>7 DEF Streams
<1>5. RefusedKnown' /\ RefusedForCause'
  BY <1>0, <1>3 DEF RefusedKnown, RefusedForCause
<1> QED
  BY <1>1, <1>2, <1>3, <1>4, <1>5

LEMMA OnConnectStep ==
  ASSUME BridgeInv, on_connect
  PROVE  BridgeInv'
<1> USE DEF BridgeInv
<1>0. PICK k \in Logins :
        /\ write_queue' = write_queue \o <<Command(k, sent + 1), Command("snapshot", sent + 2)>>
        /\ login' = [login EXCEPT ![connects] = Command(k, sent + 1)]
  BY BridgeAssumption DEF on_connect
<1>a. /\ wire' = wire /\ handled' = handled /\ session' = session
      /\ refused' = refused /\ connects' = connects /\ link' = link
      /\ connected' = connected /\ readers' = readers /\ writers' = writers
      /\ reconnects' = reconnects /\ cli' = cli /\ greeting' = FALSE /\ sent' = sent + 2
  BY DEF on_connect, tcpVars, serverVars, webVars
<1>b. Extended(2) /\ write_queue'[Len(write_queue) + 1].kind = k
  BY <1>0, <1>a, GreetExtends
<1>c. QueueNumbered' /\ Taken' = Taken /\ Taken \in Nat
  BY <1>b, ExtendedQueue
<1>d. sent \in Nat /\ Taken <= sent /\ Len(write_queue) \in Nat
  BY <1>c DEF BridgeType, Taken
<1>e. PICK g : g = Command(k, sent + 1)
  OBVIOUS
<1>f. /\ g \in [kind : Logins \cup {"none"}, no : Nat] /\ g.no = sent + 1 /\ g.kind = k
  BY <1>d, <1>e DEF Command
<1>g. \A c \in Connections : login'[c] = IF c = connects THEN g ELSE login[c]
  BY <1>0, <1>e DEF BridgeType
<1>1. BridgeType'
  <2>1. login' \in [Connections -> [kind : Logins \cup {"none"}, no : Nat]]
    BY <1>0, <1>e, <1>f DEF BridgeType
  <2>2. write_queue' \in Seq(Commands) /\ sent' \in Nat
    BY <1>a, <1>b, <1>d DEF Extended
  <2>3. greeting' \in BOOLEAN
    BY <1>a
  <2> QED
    BY <1>a, <2>1, <2>2, <2>3 DEF BridgeType
<1>2. OneConnection'
  BY <1>a DEF OneConnection
<1>4. Streams'
  <2>1. PICK base \in [Connections -> Nat] :
          /\ \A c \in Connections : Run(c, base[c]) /\ LoginFirst(c, base[c])
          /\ \A c, d \in Connections : c < d /\ d <= connects => Last(c, base[c]) <= base[d]
    BY DEF Streams
  <2>2. ASSUME NEW c \in Connections
        PROVE  Run(c, base[c])' /\ LoginFirst(c, base[c])' /\ Last(c, base[c])' = Last(c, base[c])
    <3>0. /\ Run(c, base[c]) /\ LoginFirst(c, base[c]) /\ c \in Nat /\ connects \in Nat
          /\ base[c] \in Nat /\ Len(handled[c]) \in Nat /\ Len(wire[c]) \in Nat
      BY <2>1, BridgeAssumption DEF Connections, BridgeType
    <3>1. CASE c # connects
      <4>1. login'[c] = login[c]
        BY <1>g, <3>1
      <4>2. login[c].no \in Nat /\ login[c].no <= sent
        BY <3>0 DEF LoginFirst, BridgeType
      <4>3. \A i \in 1 .. Len(write_queue') :
              write_queue'[i].no = login[c].no => write_queue'[i].kind = login[c].kind
        <5>1. \A i \in 1 .. Len(write_queue) :
                write_queue[i].no = login[c].no => write_queue[i].kind = login[c].kind
          BY <3>0 DEF LoginFirst
        <5> QED
          BY <1>b, <4>2, <5>1, ExtendedKinds
      <4>4. login[c].no <= sent'
        BY <1>a, <1>d, <4>2
      <4> HIDE DEF BridgeInv
      <4>5. Run(c, base[c])' /\ Last(c, base[c])' = Last(c, base[c])
        BY <1>a, <1>c, <3>0, <4>1 DEF Run, Last
      <4>6. LoginFirst(c, base[c])'
        BY <1>a, <3>0, <4>1, <4>3, <4>4 DEF LoginFirst
      <4> QED
        BY <4>5, <4>6
    <3>2. CASE c = connects
      <4>1. login'[c] = g /\ ~(c > connects)
        BY <1>g, <3>0, <3>2
      <4>2. Last(c, base[c]) <= Taken
        BY <3>0, <3>2 DEF Run
      <4>3. base[c] + Len(handled[c]) <= Taken /\ base[c] <= Taken
        BY <1>c, <3>0, <4>2 DEF Last
      <4>4. \A i \in 1 .. Len(write_queue') :
              write_queue'[i].no = g.no => write_queue'[i].kind = g.kind
        <5> SUFFICES ASSUME NEW i \in 1 .. Len(write_queue'), write_queue'[i].no = g.no
                     PROVE  write_queue'[i].kind = g.kind
          OBVIOUS
        <5>1. write_queue'[i].no = Taken + i
          BY <1>c DEF QueueNumbered
        <5>2. i = Len(write_queue) + 1
          BY <1>d, <1>f, <5>1 DEF Taken
        <5> QED
          BY <1>b, <1>f, <5>2
      <4>5. \A i \in 1 .. Len(wire[c]) : wire[c][i].no <= Taken
        BY <1>c, <3>0, <4>2 DEF Run, Last
      <4>6. \A i \in 1 .. Len(wire[c]) : wire[c][i].no # g.no
        BY <1>c, <1>d, <1>f, <4>5
      <4>7. g.no <= sent' /\ base[c] < g.no /\ ~(g.no <= base[c] + Len(handled[c]))
        BY <1>a, <1>c, <1>d, <1>f, <3>0, <4>3
      <4> HIDE DEF BridgeInv
      <4>8. Run(c, base[c])' /\ Last(c, base[c])' = Last(c, base[c])
        BY <1>a, <1>c, <3>0, <4>1 DEF Run, Last
      <4>9. LoginFirst(c, base[c])'
        BY <1>a, <3>0, <4>1, <4>4, <4>6, <4>7 DEF LoginFirst
      <4> QED
        BY <4>8, <4>9
    <3> QED
      BY <3>1, <3>2
  <2> QED
    BY <1>a, <2>1, <2>2 DEF Streams
<1>5. RefusedKnown'
  BY <1>a, <1>c DEF RefusedKnown
<1>6. RefusedForCause'
  <2> SUFFICES ASSUME NEW r \in refused, login'[r.conn].kind \in Accounts,
                      login'[r.conn].no < r.no
               PROVE  /\ r.under.kind = "viewer"
                      /\ login'[r.conn].no <= r.under.no /\ r.under.no < r.no
    BY <1>a DEF RefusedForCause
  <2>1. r.conn \in Connections /\ r.no \in Nat /\ r.no <= Taken
    BY DEF RefusedKnown
  <2>2. r.conn # connects
    BY <1>c, <1>d, <1>f, <1>g, <2>1
  <2>3. login'[r.conn] = login[r.conn]
    BY <1>g, <2>1, <2>2
  <2> QED
    BY <2>3 DEF RefusedForCause
<1> QED
  BY <1>1, <1>2, <1>c, <1>4, <1>5, <1>6

LEMMA HandleDisconnect ==
  ASSUME BridgeType, OneConnection, handle_disconnect
  PROVE  connected' = FALSE /\ reconnects' = 1
BY DEF BridgeType, OneConnection, handle_disconnect

LEMMA WriteLoopStep ==
  ASSUME BridgeInv, write_loop
  PROVE  BridgeInv'
<1> USE DEF BridgeInv
<1>0. /\ writers > 0 /\ write_queue # <<>> /\ write_queue' = Tail(write_queue)
      /\ link' = link /\ readers' = readers /\ session' = session /\ handled' = handled
      /\ refused' = refused /\ cli' = cli /\ greeting' = greeting /\ connects' = connects
      /\ sent' = sent /\ login' = login
      /\ link = "open" => wire' = [wire EXCEPT ![connects] = Append(@, Head(write_queue))]
      /\ link # "open" => wire' = wire
      /\ \/ /\ link # "lost" /\ UNCHANGED <<connected, reconnects>>
            /\ writers' = IF connected THEN writers ELSE writers - 1
         \/ link = "lost" /\ handle_disconnect /\ writers' = writers - 1
  BY DEF write_loop, webVars
<1>a. PICK m : m = Head(write_queue)
  OBVIOUS
<1>b. /\ write_queue \in Seq(Commands) /\ Len(write_queue) \in Nat /\ Len(write_queue) > 0
      /\ sent \in Nat /\ m = write_queue[1] /\ Taken \in Nat
  BY <1>0, <1>a DEF BridgeType, QueueNumbered
<1>c. /\ m \in Commands
      /\ write_queue' \in Seq(Commands) /\ Len(write_queue') = Len(write_queue) - 1
      /\ \A i \in 1 .. Len(write_queue) - 1 : write_queue'[i] = write_queue[i + 1]
  BY <1>0, <1>a, <1>b, HeadTailProperties
<1>d. Taken' = Taken + 1
  BY <1>0, <1>b, <1>c DEF Taken
<1>e. m.no = Taken + 1
  BY <1>b DEF QueueNumbered
<1>f. ASSUME NEW c \in Connections, c # connects \/ link # "open"
      PROVE  wire'[c] = wire[c]
  BY <1>0, <1>f DEF BridgeType
<1>g. ASSUME NEW c \in Connections, c = connects, link = "open"
      PROVE  /\ wire'[c] \in Seq(Commands) /\ Len(wire'[c]) = Len(wire[c]) + 1
             /\ \A i \in 1 .. Len(wire[c]) : wire'[c][i] = wire[c][i]
             /\ wire'[c][Len(wire[c]) + 1] = m
  <2>1. wire[c] \in Seq(Commands) /\ wire'[c] = Append(wire[c], m)
    BY <1>0, <1>a, <1>g DEF BridgeType
  <2> QED
    BY <1>c, <2>1, AppendProperties
<1>1. BridgeType'
  <2>1. wire' \in [Connections -> Seq(Commands)]
    <3>1. \A c \in Connections : wire'[c] \in Seq(Commands)
      BY <1>f, <1>g DEF BridgeType
    <3>2. wire' = [c \in Connections |-> wire'[c]]
      BY <1>0 DEF BridgeType
    <3> QED
      BY <3>1, <3>2
  <2>2. connected' \in BOOLEAN
    BY <1>0, HandleDisconnect DEF BridgeType
  <2>3. reconnects' \in Nat
    <3>1. CASE link = "lost"
      BY <1>0, <3>1, HandleDisconnect
    <3>2. CASE link # "lost"
      BY <1>0, <3>2 DEF BridgeType
    <3> QED
      BY <3>1, <3>2
  <2>4. writers' \in Nat
    <3>1. writers \in Nat /\ (writers' = writers \/ writers' = writers - 1)
      BY <1>0 DEF BridgeType
    <3> QED
      BY <1>0, <3>1
  <2> QED
    BY <1>0, <1>c, <2>1, <2>2, <2>3, <2>4 DEF BridgeType
<1>2. OneConnection'
  <2>1. CASE link = "lost"
    <3>1. connected' = FALSE /\ reconnects' = 1 /\ link' = "lost" /\ readers' = readers
      BY <1>0, <2>1, HandleDisconnect
    <3>2. readers \in Nat /\ readers <= 1
      <4>1. CASE connected
        BY <4>1 DEF BridgeType, OneConnection
      <4>2. CASE ~connected
        BY <4>2 DEF BridgeType, OneConnection
      <4> QED
        BY <4>1, <4>2
    <3> QED
      BY <3>1, <3>2 DEF OneConnection
  <2>2. CASE link # "lost"
    BY <1>0, <2>2 DEF BridgeType, OneConnection
  <2> QED
    BY <2>1, <2>2
<1>3. QueueNumbered'
  <2>1. ASSUME NEW i \in 1 .. Len(write_queue')
        PROVE  write_queue'[i].no = (Taken + 1) + i
    <3>1. i + 1 \in 1 .. Len(write_queue) /\ write_queue'[i] = write_queue[i + 1]
      BY <1>b, <1>c
    <3>2. write_queue[i + 1].no = Taken + (i + 1)
      BY <3>1 DEF QueueNumbered
    <3> QED
      BY <1>b, <3>1, <3>2
  <2> QED
    BY <1>b, <1>d, <2>1 DEF QueueNumbered
<1>4. Streams'
  <2>1. PICK base \in [Connections -> Nat] :
          /\ \A c \in Connections : Run(c, base[c]) /\ LoginFirst(c, base[c])
          /\ \A c, d \in Connections : c < d /\ d <= connects => Last(c, base[c]) <= base[d]
    BY DEF Streams
  <2>2. ASSUME NEW c \in Connections
        PROVE  \A i \in 1 .. Len(write_queue') :
                 write_queue'[i].no = login[c].no => write_queue'[i].kind = login[c].kind
    <3>1. \A i \in 1 .. Len(write_queue') :
            i + 1 \in 1 .. Len(write_queue) /\ write_queue'[i] = write_queue[i + 1]
      BY <1>b, <1>c
    <3> QED
      BY <2>1, <3>1 DEF LoginFirst
  <2>3. ASSUME NEW c \in Connections, c # connects \/ link # "open"
        PROVE  Run(c, base[c])' /\ LoginFirst(c, base[c])' /\ Last(c, base[c])' = Last(c, base[c])
    <3>1. Run(c, base[c]) /\ LoginFirst(c, base[c]) /\ wire'[c] = wire[c]
      BY <1>f, <2>1, <2>3
    <3>2. Last(c, base[c]) <= Taken => Last(c, base[c]) <= Taken'
      <4>1. Last(c, base[c]) \in Nat
        <5>1. base[c] \in Nat /\ Len(handled[c]) \in Nat /\ Len(wire[c]) \in Nat
          BY <2>1 DEF BridgeType
        <5> QED
          BY <5>1 DEF Last
      <4> QED
        BY <1>b, <1>d, <4>1
    <3> HIDE DEF BridgeInv
    <3>3. Last(c, base[c])' = Last(c, base[c])
      BY <1>0, <3>1 DEF Last
    <3>4. Run(c, base[c])'
      BY <1>0, <2>3, <3>1, <3>2, <3>3 DEF Run
    <3>5. LoginFirst(c, base[c])'
      BY <1>0, <2>2, <3>1 DEF LoginFirst
    <3> QED
      BY <3>3, <3>4, <3>5
  <2>4. ASSUME NEW c \in Connections, c = connects, link = "open"
        PROVE  Run(c, base[c])' /\ LoginFirst(c, base[c])'
    <3>1. /\ Run(c, base[c]) /\ LoginFirst(c, base[c]) /\ base[c] \in Nat
          /\ Len(handled[c]) \in Nat /\ Len(wire[c]) \in Nat /\ connects \in Nat
      BY <2>1 DEF BridgeType
    <3>2. /\ Len(wire'[c]) = Len(wire[c]) + 1
          /\ \A i \in 1 .. Len(wire[c]) : wire'[c][i] = wire[c][i]
          /\ wire'[c][Len(wire[c]) + 1] = m
      BY <1>g, <2>4
    <3>3. base[c] + Len(handled[c]) + Len(wire[c]) = Taken
      BY <2>4, <3>1 DEF Run, Last
    <3>4. Last(c, base[c])' = Taken'
      BY <1>0, <1>d, <3>1, <3>2, <3>3 DEF Last
    <3>5. \A i \in 1 .. Len(wire'[c]) : i \in 1 .. Len(wire[c]) \/ i = Len(wire[c]) + 1
      BY <3>1, <3>2
    <3>6. \A i \in 1 .. Len(wire'[c]) : wire'[c][i].no = base[c] + Len(handled[c]) + i
      <4>1. \A i \in 1 .. Len(wire[c]) : wire'[c][i].no = base[c] + Len(handled[c]) + i
        BY <3>1, <3>2 DEF Run
      <4>2. wire'[c][Len(wire[c]) + 1].no = base[c] + Len(handled[c]) + (Len(wire[c]) + 1)
        <5>1. wire'[c][Len(wire[c]) + 1].no = Taken + 1
          BY <1>e, <3>2
        <5> QED
          BY <1>b, <3>1, <3>3, <5>1
      <4> QED
        BY <3>5, <4>1, <4>2
    <3>7. m.no = login[c].no => m.kind = login[c].kind
      <4>1. 1 \in 1 .. Len(write_queue)
        BY <1>b
      <4> QED
        BY <1>b, <3>1, <4>1 DEF LoginFirst
    <3>8. \A i \in 1 .. Len(wire'[c]) :
            wire'[c][i].no = login[c].no => wire'[c][i].kind = login[c].kind
      BY <3>1, <3>2, <3>5, <3>7 DEF LoginFirst
    <3>9. ~(c > connects') /\ Taken' <= Taken'
      BY <1>0, <1>b, <1>d, <2>4, <3>1
    <3> HIDE DEF BridgeInv
    <3>10. Run(c, base[c])'
      BY <1>0, <3>1, <3>4, <3>6, <3>9 DEF Run
    <3>11. LoginFirst(c, base[c])'
      BY <1>0, <2>2, <3>1, <3>8 DEF LoginFirst
    <3> QED
      BY <3>10, <3>11
  <2>5. ASSUME NEW c \in Connections, NEW d \in Connections, c < d, d <= connects'
        PROVE  Last(c, base[c])' <= base[d]
    <3>1. c # connects /\ d <= connects
      BY <1>0, <2>5, BridgeAssumption DEF Connections, BridgeType
    <3> QED
      BY <2>1, <2>3, <2>5, <3>1
  <2> QED
    BY <2>1, <2>3, <2>4, <2>5 DEF Streams
<1>5. RefusedKnown'
  BY <1>0, <1>b, <1>d DEF RefusedKnown
<1>6. RefusedForCause'
  BY <1>0 DEF RefusedForCause
<1> QED
  BY <1>1, <1>2, <1>3, <1>4, <1>5, <1>6

(* Whichever way the read loop ends. *)
LEMMA ReadLoopStep ==
  ASSUME BridgeInv, read_loop
  PROVE  BridgeInv'
<1> USE DEF BridgeInv
<1>0. /\ readers > 0 /\ readers' = readers - 1 /\ handle_disconnect
      /\ link' = link /\ writers' = writers /\ cli' = cli /\ greeting' = greeting
      /\ write_queue' = write_queue /\ sent' = sent /\ login' = login /\ connects' = connects
      /\ wire' = wire /\ handled' = handled /\ session' = session /\ refused' = refused
  BY DEF read_loop, ReadFails, ReadInvalid, EndReadLoop, webVars, serverVars
<1>1. connected' = FALSE /\ reconnects' = 1
  BY <1>0, HandleDisconnect
<1>2. readers' = 0
  BY <1>0 DEF OneConnection, BridgeType
<1>3. BridgeType'
  <2>1. connected' \in BOOLEAN
    BY <1>1
  <2>2. readers' \in Nat /\ reconnects' \in Nat
    BY <1>1, <1>2
  <2> QED
    BY <1>0, <2>1, <2>2 DEF BridgeType
<1>4. OneConnection'
  BY <1>1, <1>2 DEF OneConnection
<1> QED
  BY <1>0, <1>3, <1>4, StillStep DEF StreamVars

LEMMA ResetStep ==
  ASSUME BridgeInv, Reset
  PROVE  BridgeInv'
<1> USE DEF BridgeInv
<1>0. /\ link' = "lost" /\ connected' = connected /\ readers' = readers
      /\ writers' = writers /\ reconnects' = reconnects /\ cli' = cli
      /\ greeting' = greeting /\ UNCHANGED StreamVars
      /\ write_queue' = write_queue /\ sent' = sent /\ login' = login /\ connects' = connects
      /\ wire' = wire /\ handled' = handled /\ session' = session /\ refused' = refused
  BY DEF Reset, webVars, serverVars, StreamVars
<1>1. BridgeType' /\ OneConnection'
  BY <1>0 DEF BridgeType, OneConnection
<1> QED
  BY <1>0, <1>1, StillStep

LEMMA ServerClosesStep ==
  ASSUME BridgeInv, ServerCloses
  PROVE  BridgeInv'
<1> USE DEF BridgeInv
<1>0. /\ link = "open" /\ link' = "eof" /\ connected' = connected /\ readers' = readers
      /\ writers' = writers /\ reconnects' = reconnects /\ cli' = cli
      /\ greeting' = greeting /\ write_queue' = write_queue /\ sent' = sent
      /\ login' = login /\ connects' = connects /\ handled' = handled
      /\ session' = session /\ refused' = refused
      /\ wire' = [wire EXCEPT ![connects] = <<>>]
  BY DEF ServerCloses, webVars
<1>a. Len(<<>>) = 0 /\ (\A i : ~(i \in 1 .. 0)) /\ <<>> \in Seq(Commands)
  OBVIOUS
<1>b. \A c \in Connections : wire'[c] = IF c = connects THEN <<>> ELSE wire[c]
  BY <1>0 DEF BridgeType
<1>c. Taken' = Taken /\ Taken \in Nat /\ QueueNumbered'
  BY <1>0 DEF Taken, QueueNumbered
<1>1. BridgeType'
  <2>1. wire' \in [Connections -> Seq(Commands)]
    BY <1>0, <1>a DEF BridgeType
  <2>2. link' \in {"none", "open", "eof", "lost"}
    BY <1>0
  <2> QED
    BY <1>0, <2>1, <2>2 DEF BridgeType
<1>2. OneConnection'
  BY <1>0 DEF OneConnection
<1>3. Streams'
  <2>1. PICK base \in [Connections -> Nat] :
          /\ \A c \in Connections : Run(c, base[c]) /\ LoginFirst(c, base[c])
          /\ \A c, d \in Connections : c < d /\ d <= connects => Last(c, base[c]) <= base[d]
    BY DEF Streams
  <2>2. ASSUME NEW c \in Connections
        PROVE  Run(c, base[c])' /\ LoginFirst(c, base[c])' /\ Last(c, base[c])' <= Last(c, base[c])
    <3>1. /\ Run(c, base[c]) /\ LoginFirst(c, base[c]) /\ base[c] \in Nat
          /\ Len(handled[c]) \in Nat /\ Len(wire[c]) \in Nat
      BY <2>1 DEF BridgeType
    <3>2. wire'[c] = wire[c] \/ wire'[c] = <<>>
      BY <1>b
    <3>3. Last(c, base[c]) \in Nat /\ Last(c, base[c])' \in Nat
          /\ Last(c, base[c])' <= Last(c, base[c])
      BY <1>0, <1>a, <3>1, <3>2 DEF Last
    <3> HIDE DEF BridgeInv
    <3>4. Run(c, base[c])'
      BY <1>0, <1>a, <1>c, <3>1, <3>2, <3>3 DEF Run
    <3>5. LoginFirst(c, base[c])'
      BY <1>0, <1>a, <3>1, <3>2 DEF LoginFirst
    <3> QED
      BY <3>3, <3>4, <3>5
  <2>3. ASSUME NEW c \in Connections, NEW d \in Connections, c < d, d <= connects'
        PROVE  Last(c, base[c])' <= base[d]
    <3>1. wire'[c] = wire[c]
      BY <1>0, <1>b, <2>3, BridgeAssumption DEF Connections, BridgeType
    <3>2. Last(c, base[c])' = Last(c, base[c])
      BY <1>0, <3>1 DEF Last
    <3> QED
      BY <1>0, <2>1, <2>3, <3>2
  <2> QED
    BY <2>1, <2>2, <2>3 DEF Streams
<1>4. RefusedKnown' /\ RefusedForCause'
  BY <1>0, <1>c DEF RefusedKnown, RefusedForCause
<1> QED
  BY <1>1, <1>2, <1>c, <1>3, <1>4

(* The command that the server takes is the next of the run; if the login   *)
(* of the connection has been sent before it, it has been handled.          *)
LEMMA ServerHandlesStep ==
  ASSUME BridgeInv, NEW e \in Connections, ServerHandles(e)
  PROVE  BridgeInv'
<1> USE DEF BridgeInv
<1>0. /\ wire[e] # <<>> /\ wire' = [wire EXCEPT ![e] = Tail(@)]
      /\ session' = [session EXCEPT ![e] = Authenticated(@, Head(wire[e]))]
      /\ handled' = [handled EXCEPT ![e] = Append(@, Head(wire[e]).no)]
      /\ refused' = IF Refuses(session[e], Head(wire[e]))
                    THEN {[no |-> Head(wire[e]).no, conn |-> e, under |-> session[e]]} ELSE {}
      /\ connected' = connected /\ link' = link /\ readers' = readers
      /\ writers' = writers /\ reconnects' = reconnects /\ cli' = cli
      /\ greeting' = greeting /\ write_queue' = write_queue /\ sent' = sent
      /\ login' = login /\ connects' = connects
  BY DEF ServerHandles, webVars, tcpVars
<1>a. PICK m : m = Head(wire[e])
  OBVIOUS
<1>b. /\ wire[e] \in Seq(Commands) /\ Len(wire[e]) \in Nat /\ Len(wire[e]) > 0
      /\ m = wire[e][1] /\ 1 \in 1 .. Len(wire[e])
      /\ handled[e] \in Seq(Nat) /\ Len(handled[e]) \in Nat
      /\ session[e] \in [kind : Accounts \cup {"none"}, no : Nat]
      /\ login[e] \in [kind : Logins \cup {"none"}, no : Nat]
  BY <1>0, <1>a DEF BridgeType
<1>c. m \in Commands /\ m.no \in Nat /\ m.kind \in Kinds
  <2>1. m \in Commands
    BY <1>b, ElementOfSeq
  <2> QED
    BY <2>1 DEF Commands
<1>d. /\ Tail(wire[e]) \in Seq(Commands) /\ Len(Tail(wire[e])) = Len(wire[e]) - 1
      /\ \A i \in 1 .. Len(wire[e]) - 1 : Tail(wire[e])[i] = wire[e][i + 1]
  BY <1>0, <1>b, HeadTailProperties
<1>e. /\ Append(handled[e], m.no) \in Seq(Nat)
      /\ Len(Append(handled[e], m.no)) = Len(handled[e]) + 1
      /\ \A i \in 1 .. Len(handled[e]) : Append(handled[e], m.no)[i] = handled[e][i]
      /\ Append(handled[e], m.no)[Len(handled[e]) + 1] = m.no
  BY <1>b, <1>c, AppendProperties
<1>f. PICK s : s = Authenticated(session[e], m)
  OBVIOUS
<1>g. s = IF m.kind \in Accounts THEN m ELSE session[e]
  BY <1>f DEF Authenticated
<1>h. s \in [kind : Accounts \cup {"none"}, no : Nat]
  BY <1>b, <1>c, <1>g DEF Commands
<1>i. /\ wire'[e] = Tail(wire[e]) /\ handled'[e] = Append(handled[e], m.no) /\ session'[e] = s
      /\ \A c \in Connections : c # e => /\ wire'[c] = wire[c] /\ handled'[c] = handled[c]
                                         /\ session'[c] = session[c]
  BY <1>0, <1>a, <1>f DEF BridgeType
<1>j. Taken' = Taken /\ Taken \in Nat /\ QueueNumbered'
  BY <1>0 DEF Taken, QueueNumbered
<1>1. BridgeType'
  <2>1. wire' \in [Connections -> Seq(Commands)]
    BY <1>0, <1>d DEF BridgeType
  <2>2. handled' \in [Connections -> Seq(Nat)]
    BY <1>0, <1>a, <1>e DEF BridgeType
  <2>3. session' \in [Connections -> [kind : Accounts \cup {"none"}, no : Nat]]
    BY <1>0, <1>a, <1>f, <1>h DEF BridgeType
  <2> QED
    BY <1>0, <2>1, <2>2, <2>3 DEF BridgeType
<1>2. OneConnection'
  BY <1>0 DEF OneConnection
<1>3. PICK base \in [Connections -> Nat] :
        /\ \A c \in Connections : Run(c, base[c]) /\ LoginFirst(c, base[c])
        /\ \A c, d \in Connections : c < d /\ d <= connects => Last(c, base[c]) <= base[d]
  BY DEF Streams
<1>4. /\ Run(e, base[e]) /\ LoginFirst(e, base[e]) /\ base[e] \in Nat
      /\ m.no = base[e] + Len(handled[e]) + 1
  BY <1>3, <1>b DEF Run
<1>5. e <= connects /\ connects \in Nat /\ e \in Nat /\ ~(e > connects)
  BY <1>0, <1>4, BridgeAssumption DEF Run, Connections, BridgeType
<1>6. ASSUME NEW c \in Connections, c # e
      PROVE  Run(c, base[c])' /\ LoginFirst(c, base[c])' /\ Last(c, base[c])' = Last(c, base[c])
  <2>1. /\ Run(c, base[c]) /\ LoginFirst(c, base[c])
        /\ wire'[c] = wire[c] /\ handled'[c] = handled[c] /\ session'[c] = session[c]
    BY <1>3, <1>6, <1>i
  <2> HIDE DEF BridgeInv
  <2> QED
    BY <1>0, <1>j, <2>1 DEF Run, LoginFirst, Last
<1>7. Last(e, base[e])' = Last(e, base[e])
  BY <1>4, <1>b, <1>d, <1>e, <1>i DEF Last
<1>8. Run(e, base[e])'
  <2>1. \A i \in 1 .. Len(handled'[e]) : handled'[e][i] = base[e] + i
    <3>1. \A i \in 1 .. Len(handled'[e]) : i \in 1 .. Len(handled[e]) \/ i = Len(handled[e]) + 1
      BY <1>b, <1>e, <1>i
    <3>2. \A i \in 1 .. Len(handled[e]) : handled'[e][i] = base[e] + i
      BY <1>4, <1>e, <1>i DEF Run
    <3>3. handled'[e][Len(handled[e]) + 1] = base[e] + (Len(handled[e]) + 1)
      BY <1>4, <1>b, <1>e, <1>i
    <3> QED
      BY <3>1, <3>2, <3>3
  <2>2. \A i \in 1 .. Len(wire'[e]) : wire'[e][i].no = base[e] + Len(handled'[e]) + i
    <3> SUFFICES ASSUME NEW i \in 1 .. Len(wire'[e])
                 PROVE  wire'[e][i].no = base[e] + Len(handled'[e]) + i
      OBVIOUS
    <3>1. i + 1 \in 1 .. Len(wire[e]) /\ wire'[e][i] = wire[e][i + 1]
      BY <1>b, <1>d, <1>i
    <3>2. wire[e][i + 1].no = base[e] + Len(handled[e]) + (i + 1)
      BY <1>4, <3>1 DEF Run
    <3>3. Len(handled'[e]) = Len(handled[e]) + 1
      BY <1>e, <1>i
    <3>4. i \in Nat
      BY <1>b, <1>d, <1>i
    <3>5. \A x, y, z \in Nat : x + y + (z + 1) = x + (y + 1) + z
      OBVIOUS
    <3>6. base[e] + Len(handled[e]) + (i + 1) = base[e] + (Len(handled[e]) + 1) + i
      BY <1>4, <1>b, <3>4, <3>5
    <3> QED
      BY <3>1, <3>2, <3>3, <3>6
  <2> HIDE DEF BridgeInv
  <2> QED
    BY <1>0, <1>4, <1>5, <1>7, <1>j, <2>1, <2>2 DEF Run
<1>9. login[e].kind \in Accounts /\ login[e].no = m.no => m.kind = login[e].kind
  BY <1>4, <1>b DEF LoginFirst
<1>10. LoginFirst(e, base[e])'
  <2>1. \A i \in 1 .. Len(wire'[e]) :
          wire'[e][i].no = login[e].no => wire'[e][i].kind = login[e].kind
    <3>1. \A i \in 1 .. Len(wire'[e]) :
            i + 1 \in 1 .. Len(wire[e]) /\ wire'[e][i] = wire[e][i + 1]
      BY <1>b, <1>d, <1>i
    <3> QED
      BY <1>4, <3>1 DEF LoginFirst
  <2>2. Len(handled'[e]) = Len(handled[e]) + 1 /\ session'[e] = s
    BY <1>e, <1>i
  <2>3. s.no <= base[e] + Len(handled'[e])
    <3>1. session[e].no \in Nat /\ session[e].no <= base[e] + Len(handled[e])
      BY <1>4, <1>b DEF LoginFirst
    <3> QED
      BY <1>4, <1>b, <1>c, <1>g, <2>2, <3>1
  <2>4. s.kind \in Accounts \/ s = NoLogin
    BY <1>4, <1>g DEF LoginFirst
  <2>5. ASSUME login[e].kind \in Accounts, login[e].no <= base[e] + Len(handled'[e])
        PROVE  s.kind \in Accounts /\ login[e].no <= s.no
    <3>0. login[e].no \in Nat /\ session[e].no \in Nat
      BY <1>b
    <3>1. CASE m.kind \in Accounts
      BY <1>4, <1>b, <1>c, <1>g, <2>2, <2>5, <3>0, <3>1
    <3>2. CASE m.kind \notin Accounts
      <4>1. login[e].no # m.no
        BY <1>9, <2>5, <3>2
      <4>2. login[e].no <= base[e] + Len(handled[e])
        <5>1. login[e].no <= base[e] + (Len(handled[e]) + 1)
          BY <2>2, <2>5
        <5>2. login[e].no # base[e] + Len(handled[e]) + 1
          BY <1>4, <4>1
        <5>3. base[e] \in Nat /\ Len(handled[e]) \in Nat
          BY <1>4, <1>b
        <5> QED
          BY <3>0, <5>1, <5>2, <5>3
      <4> QED
        BY <1>4, <1>g, <2>5, <3>2, <4>2 DEF LoginFirst
    <3> QED
      BY <3>1, <3>2
  <2> HIDE DEF BridgeInv
  <2> QED
    BY <1>0, <1>4, <2>1, <2>2, <2>3, <2>4, <2>5 DEF LoginFirst
<1>11. Streams'
  <2>1. \A c \in Connections : Run(c, base[c])' /\ LoginFirst(c, base[c])'
    BY <1>6, <1>8, <1>10
  <2>2. \A c, d \in Connections : c < d /\ d <= connects' => Last(c, base[c])' <= base[d]
    BY <1>0, <1>3, <1>6, <1>7
  <2> QED
    BY <2>1, <2>2 DEF Streams
<1>12. m.no <= Taken
  <2>1. Last(e, base[e]) <= Taken
    BY <1>4, <1>5 DEF Run
  <2> QED
    BY <1>4, <1>b, <1>c, <1>j, <2>1 DEF Last
<1>13. \A r \in refused' :
         Refuses(session[e], m) /\ r = [no |-> m.no, conn |-> e, under |-> session[e]]
  BY <1>0, <1>a
<1>14. RefusedKnown'
  BY <1>13, <1>12, <1>c, <1>j DEF RefusedKnown
<1>15. RefusedForCause'
  <2> SUFFICES ASSUME NEW r \in refused', login[e].kind \in Accounts, login[e].no < m.no
               PROVE  /\ session[e].kind = "viewer"
                      /\ login[e].no <= session[e].no /\ session[e].no < m.no
    BY <1>0, <1>13 DEF RefusedForCause
  <2>0. login[e].no \in Nat /\ session[e].no \in Nat
    BY <1>b
  <2>1. login[e].no <= base[e] + Len(handled[e])
    BY <1>4, <1>b, <2>0
  <2>2. session[e].kind \in Accounts /\ login[e].no <= session[e].no
    BY <1>4, <2>1 DEF LoginFirst
  <2>3. session[e].no <= base[e] + Len(handled[e])
    BY <1>4 DEF LoginFirst
  <2>4. session[e].no < m.no
    BY <1>4, <1>b, <2>0, <2>3
  <2>5. session[e] # NoLogin
    BY <2>2 DEF NoLogin, Command, Accounts
  <2>6. session[e].kind = "viewer"
    BY <1>13, <2>5 DEF Refuses
  <2> QED
    BY <2>2, <2>4, <2>6
<1> QED
  BY <1>1, <1>2, <1>j, <1>11, <1>14, <1>15

----------------------------------------------------------------------------
(* The invariant of the bridge (tcp_client.py, main.py): where a command    *)
(* and the login of a connection can be.                                    *)
THEOREM BridgeInvariant == BSpec => []BridgeInv
<1>1. BInit => BridgeInv
  BY BridgeInit
<1>2. BridgeInv /\ [BNext]_bvars => BridgeInv'
  <2> SUFFICES ASSUME BridgeInv, [BNext]_bvars PROVE BridgeInv'
    OBVIOUS
  <2>1. CASE \E b \in Browsers : \E k \in Asked : handle_ws_command(b, k)
    BY <2>1, SendStep, BridgeAssumption DEF handle_ws_command, webVars
  <2>2. CASE submit_order
    <3>1. "submit" \in Kinds
      BY DEF Kinds
    <3> QED
      BY <2>2, <3>1, SendStep DEF submit_order, webVars
  <2>3. CASE \/ \E b \in Browsers : ws_open(b) \/ ws_close(b)
             \/ ConnectFails
             \/ UNCHANGED bvars
    <3>1. /\ link' = link /\ readers' = readers
          /\ writers' = writers /\ reconnects' = reconnects /\ cli' = cli
          /\ greeting' = greeting /\ UNCHANGED StreamVars
      BY <2>3 DEF ws_open, ws_close, ConnectFails, bvars, tcpVars, webVars, serverVars,
                  StreamVars
    <3>2. connected' = connected
      <4>1. CASE ConnectFails
        <5>1. reconnects > 0 /\ connected' = FALSE
          BY <4>1 DEF ConnectFails
        <5>2. ~connected
          BY <5>1 DEF BridgeInv, BridgeType, OneConnection
        <5>3. connected \in BOOLEAN
          BY DEF BridgeInv, BridgeType
        <5> QED
          BY <5>1, <5>2, <5>3
      <4>2. CASE ~ConnectFails
        BY <2>3, <4>2 DEF ws_open, ws_close, bvars, tcpVars
      <4> QED
        BY <4>1, <4>2
    <3>3. BridgeType' /\ OneConnection'
      BY <3>1, <3>2 DEF BridgeInv, BridgeType, OneConnection, StreamVars
    <3> QED
      BY <3>1, <3>3, StillStep
  <2> QED
    BY <2>1, <2>2, <2>3, ConnectStep, OnConnectStep, WriteLoopStep, ReadLoopStep,
       ServerClosesStep, ResetStep, ServerHandlesStep DEF BNext
<1> QED
  BY <1>1, <1>2, PTL DEF BSpec

(* However the read loop and several write loops report the same disconnect, *)
(* and whether or not the connection is still open when they do, the bridge *)
(* is connected with one read loop and a write loop, or exactly one task    *)
(* will try to connect (_handle_disconnect, _reconnect).                    *)
THEOREM AlwaysOneConnection == BSpec => []OneConnection
<1>1. BridgeInv => OneConnection
  BY DEF BridgeInv
<1> QED
  BY <1>1, BridgeInvariant, PTL

(* The server handles the commands of a connection in the order they were   *)
(* sent, those of a later connection were sent later, and none is handled   *)
(* twice, over any number of reconnections and of write loops left behind   *)
(* by them (_write_loop).                                                   *)
THEOREM CommandsInOrder == BSpec => []InOrder
<1>1. BridgeInv => InOrder
  <2> SUFFICES ASSUME BridgeInv, NEW c \in Connections, NEW d \in Connections,
                      NEW i \in 1 .. Len(handled[c]), NEW j \in 1 .. Len(handled[d]),
                      c < d \/ (c = d /\ i < j)
               PROVE  handled[c][i] < handled[d][j]
    BY DEF InOrder
  <2>1. PICK base \in [Connections -> Nat] :
          /\ \A x \in Connections : Run(x, base[x]) /\ LoginFirst(x, base[x])
          /\ \A x, y \in Connections : x < y /\ y <= connects => Last(x, base[x]) <= base[y]
    BY DEF BridgeInv, Streams
  <2>2. /\ base[c] \in Nat /\ base[d] \in Nat /\ Len(handled[c]) \in Nat
        /\ Len(handled[d]) \in Nat /\ Len(wire[c]) \in Nat
        /\ c \in Nat /\ d \in Nat /\ connects \in Nat
    <3>1. base[c] \in Nat /\ base[d] \in Nat
      BY <2>1
    <3>2. handled[c] \in Seq(Nat) /\ handled[d] \in Seq(Nat) /\ wire[c] \in Seq(Commands)
      BY DEF BridgeInv, BridgeType
    <3>3. Len(handled[c]) \in Nat /\ Len(handled[d]) \in Nat /\ Len(wire[c]) \in Nat
      BY <3>2
    <3>4. MaxConnects \in Nat /\ connects \in 0 .. MaxConnects
      BY BridgeAssumption DEF BridgeInv, BridgeType
    <3>5. c \in Nat /\ d \in Nat /\ connects \in Nat
      BY <3>4 DEF Connections
    <3> QED
      BY <3>1, <3>3, <3>5
  <2>3. handled[c][i] = base[c] + i /\ handled[d][j] = base[d] + j
    BY <2>1 DEF Run
  <2>4. CASE c = d
    BY <2>2, <2>3, <2>4
  <2>5. CASE c < d
    <3>1. d <= connects
      <4>1. d > connects => handled[d] = <<>>
        BY <2>1 DEF Run
      <4>2. Len(<<>>) = 0
        OBVIOUS
      <4>3. Len(handled[d]) # 0
        BY <2>2
      <4> QED
        BY <2>2, <4>1, <4>2, <4>3
    <3>2. base[c] + Len(handled[c]) + Len(wire[c]) <= base[d]
      BY <2>1, <2>5, <3>1 DEF Last
    <3> QED
      BY <2>2, <2>3, <3>2
  <2> QED
    BY <2>4, <2>5
<1> QED
  BY <1>1, BridgeInvariant, PTL

(* When on_connect has logged a connection in, what is sent later and goes  *)
(* out on it is refused only under a login, sent in between or by           *)
(* on_connect itself, to an account that may only look: the queue never     *)
(* lets a command overtake the login (on_connect, requireAuth).             *)
THEOREM RefusalsForCause == BSpec => []RefusedForCause
<1>1. BridgeInv => RefusedForCause
  BY DEF BridgeInv
<1> QED
  BY <1>1, BridgeInvariant, PTL
=============================================================================
