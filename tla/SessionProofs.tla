--------------------------- MODULE SessionProofs ---------------------------
(***************************************************************************)
(* Proofs about Session, for every number of messages and frames: the peer *)
(* gets the messages in order, the handler of a write pops the message it  *)
(* wrote, and a closed connection is reported once.                        *)
(*                                                                         *)
(* The properties are not inductive: they follow from the numbering of the *)
(* queue (QueueNumbered, WireNumbered) and from how writing_ keeps a       *)
(* second write from starting (OneWriter).  close resets writing_ while a  *)
(* write is under way, so several may be under way on a closed socket;     *)
(* what saves the queue is that all but one of them have failed (OneAlive).*)
(***************************************************************************)
EXTENDS Session, SequenceTheorems, TLAPS

Results == {"busy", "ok", "err"}

SessionType ==
    /\ write_messages \in Seq(Nat)
    /\ writing \in BOOLEAN /\ is_open \in BOOLEAN
    /\ flight \in Seq([msg : Nat, res : Results])
    /\ starting \in SUBSET {IoThread}
    /\ io \in {"idle", "handling", "closing", "next"}
    /\ callback_set \in BOOLEAN /\ removed \in Nat
    /\ sent \in Nat /\ wire \in Seq(Nat)

\* The queue holds the last messages given to sendMessage, in their order.
QueueNumbered ==
    /\ Len(write_messages) <= sent
    /\ \A i \in 1 .. Len(write_messages) :
           write_messages[i] = sent - Len(write_messages) + i

\* The write has not failed: its message is, or may get, on the wire.
Alive(i) == flight[i].res # "err"

\* At most one write has not failed, and it is the write of the queue's front;
\* on a closed socket none is still under way.
OneAlive ==
    /\ \A i, j \in 1 .. Len(flight) : Alive(i) /\ Alive(j) => i = j
    /\ \A i \in 1 .. Len(flight) : Alive(i) =>
           write_messages # <<>> /\ flight[i].msg = write_messages[1]
    /\ \A i \in 1 .. Len(flight) : flight[i].res = "busy" => is_open

\* While the socket is open one write is under way or about to start, and only
\* with writing_ set, until close resets it.
OneWriter ==
    /\ starting # {} => io \in {"idle", "handling"}
    /\ is_open /\ flight # <<>> => starting = {} /\ io # "next" /\ Len(flight) = 1
    /\ is_open /\ flight # <<>> /\ ~writing => io = "closing"
    /\ is_open /\ (starting # {} \/ io = "next") =>
           writing /\ write_messages # <<>>

\* The wire holds what has left the queue, and the front if its write is done.
WireNumbered ==
    /\ \A i \in 1 .. Len(wire) : wire[i] = i
    /\ (\A i \in 1 .. Len(flight) : flight[i].res # "ok") =>
           Len(wire) = sent - Len(write_messages)
    /\ (\E i \in 1 .. Len(flight) : flight[i].res = "ok") =>
           Len(wire) = sent - Len(write_messages) + 1

\* The callback is there as long as the socket is open, and runs at its closing.
Reported ==
    /\ callback_set = is_open
    /\ removed = IF is_open THEN 0 ELSE 1

SessionInv ==
    /\ SessionType
    /\ QueueNumbered
    /\ OneAlive
    /\ OneWriter
    /\ WireNumbered
    /\ Reported

----------------------------------------------------------------------------
(* Operations on sequences.                                                *)

LEMMA TailFacts ==
    ASSUME NEW S, NEW q \in Seq(S), q # <<>>
    PROVE  /\ Tail(q) \in Seq(S)
           /\ Len(Tail(q)) = Len(q) - 1
           /\ \A i \in 1 .. Len(q) - 1 : Tail(q)[i] = q[i + 1]
           /\ Tail(q) # <<>> <=> Len(q) > 1
<1>1. Len(q) \in Nat /\ Len(q) > 0
  OBVIOUS
<1>2. Tail(q) \in Seq(S) /\ Len(Tail(q)) = Len(q) - 1
  BY <1>1
<1>3. \A i \in 1 .. Len(q) - 1 : Tail(q)[i] = q[i + 1]
  BY <1>1
<1>4. Tail(q) # <<>> <=> Len(q) > 1
  <2>1. Tail(q) = <<>> <=> Len(Tail(q)) = 0
    BY <1>2, EmptySeq
  <2> QED
    BY <1>1, <1>2, <2>1
<1> QED
  BY <1>2, <1>3, <1>4

\* A write's result changes, its message and the other writes do not.
LEMMA ResultFacts ==
    ASSUME flight \in Seq([msg : Nat, res : Results]),
           NEW k \in 1 .. Len(flight), NEW r \in Results,
           flight' = [flight EXCEPT ![k].res = r]
    PROVE  /\ flight' \in Seq([msg : Nat, res : Results])
           /\ Len(flight') = Len(flight)
           /\ \A i \in 1 .. Len(flight) : flight'[i].msg = flight[i].msg
           /\ \A i \in 1 .. Len(flight) : i # k => flight'[i] = flight[i]
           /\ flight'[k].res = r
<1> DEFINE R == [msg : Nat, res : Results]
<1> DEFINE n == Len(flight)
<1>0. n \in Nat /\ DOMAIN flight = 1 .. n
  OBVIOUS
<1>1. flight[k] \in R /\ \A i \in 1 .. n : flight[i] \in R
  <2> HIDE DEF R
  <2> QED
    BY ElementOfSeq DEF R
<1>2. flight' = [i \in 1 .. n |-> IF i = k THEN [flight[k] EXCEPT !.res = r]
                                  ELSE flight[i]]
  BY <1>0
<1>3. [flight[k] EXCEPT !.res = r] \in R
  BY <1>1
<1>4. [flight[k] EXCEPT !.res = r].msg = flight[k].msg /\ [flight[k] EXCEPT !.res = r].res = r
  BY <1>1
<1>5. flight' \in [1 .. n -> R]
  BY <1>1, <1>2, <1>3
<1>6. flight' \in Seq(R) /\ Len(flight') = n
  BY <1>0, <1>5
<1> QED
  BY <1>2, <1>4, <1>6

\* Without(i) takes one write out and keeps the others, in their order.
LEMMA WithoutFacts ==
    ASSUME NEW S, flight \in Seq(S), NEW i \in 1 .. Len(flight)
    PROVE  /\ Without(i) \in Seq(S)
           /\ Len(Without(i)) = Len(flight) - 1
           /\ \A j \in 1 .. Len(flight) - 1 :
                  Without(i)[j] = flight[IF j < i THEN j ELSE j + 1]
           /\ Len(flight) = 1 => Without(i) = <<>>
<1> DEFINE n == Len(flight) - 1
<1>1. n \in Nat
  OBVIOUS
<1>2. Without(i) \in [1 .. n -> S]
  BY DEF Without
<1>3. Without(i) \in Seq(S) /\ Len(Without(i)) = n
  BY <1>1, <1>2
<1>4. \A j \in 1 .. n : Without(i)[j] = flight[IF j < i THEN j ELSE j + 1]
  BY DEF Without
<1> QED
  BY <1>3, <1>4

----------------------------------------------------------------------------
(* Every step keeps SessionInv.                                            *)

LEMMA SessionInit == SInit => SessionInv
<1> SUFFICES ASSUME SInit PROVE SessionInv
  OBVIOUS
<1>0. Len(<<>>) = 0 /\ \A S : <<>> \in Seq(S)
  OBVIOUS
<1>1. SessionType
  BY <1>0 DEF SInit, SessionType
<1>2. QueueNumbered /\ OneAlive /\ WireNumbered
  <2>1. Len(write_messages) = 0 /\ Len(flight) = 0 /\ Len(wire) = 0 /\ sent = 0
    BY <1>0 DEF SInit
  <2>2. \A i : ~(i \in 1 .. 0)
    OBVIOUS
  <2> QED
    BY <2>1, <2>2 DEF QueueNumbered, OneAlive, WireNumbered
<1>3. OneWriter /\ Reported
  BY DEF SInit, OneWriter, Reported
<1> QED
  BY <1>1, <1>2, <1>3 DEF SessionInv

LEMMA SendStep ==
    ASSUME SessionInv, sendMessage(IoThread)
    PROVE  SessionInv'
<1> USE DEF sendMessage, SessionInv
<1>0. sent + 1 \in Nat /\ write_messages \in Seq(Nat)
  BY DEF SessionType
<1>a. write_messages' = Append(write_messages, sent + 1)
  OBVIOUS
<1>b. /\ write_messages' \in Seq(Nat)
      /\ Len(write_messages') = Len(write_messages) + 1
      /\ \A i \in 1 .. Len(write_messages) : write_messages'[i] = write_messages[i]
      /\ write_messages'[Len(write_messages) + 1] = sent + 1
      /\ write_messages' # <<>>
  BY <1>0, <1>a, AppendProperties
<1>1. SessionType'
  BY <1>b DEF SessionType
<1>2. QueueNumbered'
  <2> DEFINE n == Len(write_messages)
  <2>1. n \in Nat /\ sent \in Nat /\ n <= sent
    BY DEF SessionType, QueueNumbered
  <2>2. \A i \in 1 .. n : write_messages'[i] = sent - n + i
    BY <1>b DEF QueueNumbered
  <2>3. \A i \in 1 .. n + 1 : write_messages'[i] = (sent + 1) - (n + 1) + i
    BY <1>b, <2>1, <2>2
  <2> QED
    BY <1>b, <2>1, <2>3 DEF QueueNumbered
<1>3. OneAlive'
  BY <1>0, <1>b DEF OneAlive, Alive
<1>4. OneWriter'
  BY <1>b DEF OneWriter, MaySend, SessionType
<1>5. WireNumbered'
  BY <1>0, <1>b DEF WireNumbered, SessionType
<1>6. Reported'
  BY DEF Reported
<1> QED
  BY <1>1, <1>2, <1>3, <1>4, <1>5, <1>6

\* doWriteNext starts a write only when none that has not failed is under way.
LEMMA StartStep ==
    ASSUME SessionInv, StartWrite,
           UNCHANGED <<write_messages, sent, wire, is_open, callback_set, removed>>,
           starting' = {}, io' \in {"idle", "handling"},
           starting # {} \/ io = "next"
    PROVE  SessionInv'
<1> USE DEF SessionInv
<1>1. CASE write_messages = <<>>
  <2>1. flight' = flight /\ writing' = FALSE /\ ~is_open
    BY <1>1 DEF StartWrite, OneWriter
  <2>2. SessionType'
    BY <2>1 DEF SessionType
  <2>3. QueueNumbered' /\ WireNumbered' /\ Reported'
    BY <2>1 DEF QueueNumbered, WireNumbered, Reported
  <2>4. OneAlive'
    BY <2>1 DEF OneAlive, Alive
  <2>5. OneWriter'
    BY <2>1 DEF OneWriter
  <2> QED
    BY <2>2, <2>3, <2>4, <2>5
<1>2. CASE write_messages # <<>>
  <2> DEFINE w == [msg |-> Head(write_messages), res |-> Started]
  <2>1. flight' = Append(flight, w) /\ writing' = writing
    BY <1>2 DEF StartWrite, SessionType
  <2>2. /\ w \in [msg : Nat, res : Results]
        /\ w.res = IF is_open THEN "busy" ELSE "err"
        /\ w.msg = write_messages[1]
    BY <1>2 DEF SessionType, Started, Results
  <2> HIDE DEF w
  <2>3. /\ flight' \in Seq([msg : Nat, res : Results])
        /\ Len(flight') = Len(flight) + 1
        /\ \A i \in 1 .. Len(flight) : flight'[i] = flight[i]
        /\ flight'[Len(flight) + 1] = w
        /\ Len(flight) \in Nat
    BY <2>1, <2>2, AppendProperties DEF SessionType
  <2>4. is_open => flight = <<>>
    BY DEF OneWriter
  <2>5. SessionType'
    BY <2>1, <2>3 DEF SessionType
  <2>6. QueueNumbered' /\ Reported'
    BY DEF QueueNumbered, Reported
  <2>7. OneAlive'
    <3>1. CASE is_open
      <4>1. Len(flight') = 1 /\ flight'[1] = w
        BY <2>3, <2>4, <3>1
      <4> QED
        BY <4>1, <1>2, <2>2, <3>1 DEF OneAlive, Alive
    <3>2. CASE ~is_open
      <4>1. w.res = "err"
        BY <2>2, <3>2
      <4>2. \A i \in 1 .. Len(flight') : Alive(i)' =>
                i \in 1 .. Len(flight) /\ Alive(i) /\ flight'[i] = flight[i]
        BY <4>1, <2>3 DEF Alive
      <4>3. \A i \in 1 .. Len(flight') : flight'[i].res = "busy" => Alive(i)'
        BY DEF Alive
      <4> QED
        BY <4>2, <4>3 DEF OneAlive
    <3> QED
      BY <3>1, <3>2 DEF SessionType
  <2>8. OneWriter'
    BY <2>1, <2>3, <2>4, <1>2 DEF OneWriter, SessionType
  <2>9. WireNumbered'
    <3>1. \A i \in 1 .. Len(flight') : flight'[i].res = "ok" =>
              i \in 1 .. Len(flight) /\ flight[i].res = "ok"
      BY <2>2, <2>3
    <3>2. \A i \in 1 .. Len(flight) : i \in 1 .. Len(flight') /\ flight'[i] = flight[i]
      BY <2>3
    <3> QED
      BY <3>1, <3>2 DEF WireNumbered
  <2> QED
    BY <2>5, <2>6, <2>7, <2>8, <2>9
<1> QED
  BY <1>1, <1>2

LEMMA TransmitStep ==
    ASSUME SessionInv, NEW k \in DOMAIN flight, Transmit(k)
    PROVE  SessionInv'
<1> USE DEF SessionInv, Transmit
<1>0. k \in 1 .. Len(flight)
  BY DEF SessionType
<1>1. /\ Len(flight') = Len(flight)
      /\ flight' \in Seq([msg : Nat, res : Results])
      /\ \A i \in 1 .. Len(flight) : flight'[i].msg = flight[i].msg
      /\ \A i \in 1 .. Len(flight) : i # k => flight'[i] = flight[i]
      /\ flight'[k].res = "ok"
  <2>1. flight' = [flight EXCEPT ![k].res = "ok"] /\ "ok" \in Results
    BY DEF Results
  <2> QED
    BY <1>0, <2>1, ResultFacts DEF SessionType
<1>2. \A i \in 1 .. Len(flight) : i # k => flight[i].res = "err"
  BY <1>0 DEF OneAlive, Alive
<1>3. write_messages # <<>> /\ flight[k].msg = write_messages[1]
  BY <1>0 DEF OneAlive, Alive
<1>4. Len(wire) = sent - Len(write_messages)
  BY <1>0, <1>2 DEF WireNumbered
<1>5. flight[k].msg = Len(wire) + 1 /\ Len(wire) \in Nat
  <2>1. Len(write_messages) \in Nat /\ Len(write_messages) > 0 /\ Len(wire) \in Nat
    BY <1>3 DEF SessionType
  <2>2. write_messages[1] = sent - Len(write_messages) + 1
    BY <2>1 DEF QueueNumbered
  <2> QED
    BY <1>3, <1>4, <2>1, <2>2
<1>6. /\ wire' \in Seq(Nat)
      /\ Len(wire') = Len(wire) + 1
      /\ \A i \in 1 .. Len(wire) : wire'[i] = wire[i]
      /\ wire'[Len(wire) + 1] = Len(wire) + 1
  <2>1. Len(wire) + 1 \in Nat /\ wire' = Append(wire, Len(wire) + 1)
    BY <1>5
  <2> QED
    BY <2>1, AppendProperties DEF SessionType
<1>7. SessionType'
  BY <1>1, <1>6 DEF SessionType
<1>8. QueueNumbered' /\ Reported'
  BY DEF QueueNumbered, Reported
<1>9. OneAlive'
  BY <1>0, <1>1, <1>2, <1>3 DEF OneAlive, Alive
<1>10. OneWriter'
  BY <1>0, <1>1 DEF OneWriter, SessionType
<1>11. WireNumbered'
  BY <1>0, <1>1, <1>4, <1>5, <1>6 DEF WireNumbered
<1> QED
  BY <1>7, <1>8, <1>9, <1>10, <1>11

LEMMA WriteFailsStep ==
    ASSUME SessionInv, NEW k \in DOMAIN flight, WriteFails(k)
    PROVE  SessionInv'
<1> USE DEF SessionInv, WriteFails
<1>0. k \in 1 .. Len(flight)
  BY DEF SessionType
<1>1. /\ Len(flight') = Len(flight)
      /\ flight' \in Seq([msg : Nat, res : Results])
      /\ \A i \in 1 .. Len(flight) : i # k => flight'[i] = flight[i]
      /\ flight'[k].res = "err"
  <2>1. flight' = [flight EXCEPT ![k].res = "err"] /\ "err" \in Results
    BY DEF Results
  <2> QED
    BY <1>0, <2>1, ResultFacts DEF SessionType
<1>2. SessionType'
  BY <1>1 DEF SessionType
<1>3. QueueNumbered' /\ Reported'
  BY DEF QueueNumbered, Reported
<1>4. OneAlive'
  BY <1>0, <1>1 DEF OneAlive, Alive
<1>5. OneWriter'
  BY <1>0, <1>1 DEF OneWriter, SessionType
<1>6. \A i \in 1 .. Len(flight) : flight'[i].res = "ok" <=> flight[i].res = "ok"
  BY <1>0, <1>1
<1>7. WireNumbered'
  BY <1>1, <1>6 DEF WireNumbered
<1> QED
  BY <1>2, <1>3, <1>4, <1>5, <1>7

\* The writes that are left are numbered anew, each once.
LEMMA WithoutSource ==
    ASSUME NEW S, flight \in Seq(S), NEW k \in 1 .. Len(flight),
           flight' = Without(k)
    PROVE  /\ flight' \in Seq(S)
           /\ Len(flight') = Len(flight) - 1
           /\ \A j \in 1 .. Len(flight') : \E i \in 1 .. Len(flight) :
                  i # k /\ flight'[j] = flight[i] /\ i = IF j < k THEN j ELSE j + 1
           /\ \A i \in 1 .. Len(flight) : i # k =>
                  \E j \in 1 .. Len(flight') : flight'[j] = flight[i]
           /\ Len(flight) = 1 => flight' = <<>>
<1> DEFINE n == Len(flight) - 1
<1>1. Len(flight) \in Nat /\ n \in Nat /\ k \in 1 .. n + 1
  OBVIOUS
<1>2. /\ flight' \in Seq(S) /\ Len(flight') = n
      /\ \A j \in 1 .. n : flight'[j] = flight[IF j < k THEN j ELSE j + 1]
      /\ Len(flight) = 1 => flight' = <<>>
  BY WithoutFacts
<1>3. ASSUME NEW j \in 1 .. n
      PROVE  \E i \in 1 .. Len(flight) :
                 i # k /\ flight'[j] = flight[i] /\ i = IF j < k THEN j ELSE j + 1
  <2> DEFINE i == IF j < k THEN j ELSE j + 1
  <2>1. i \in 1 .. Len(flight) /\ i # k
    BY <1>1
  <2>2. flight'[j] = flight[i]
    BY <1>2
  <2> HIDE DEF i
  <2> QED
    BY <2>1, <2>2 DEF i
<1>4. ASSUME NEW i \in 1 .. Len(flight), i # k
      PROVE  \E j \in 1 .. n : flight'[j] = flight[i]
  <2> DEFINE j == IF i < k THEN i ELSE i - 1
  <2>1. j \in 1 .. n /\ (IF j < k THEN j ELSE j + 1) = i
    BY <1>1, <1>4
  <2>2. flight'[j] = flight[i]
    BY <1>2, <2>1
  <2> QED
    BY <2>1, <2>2
<1> QED
  BY <1>2, <1>3, <1>4

LEMMA WriteDoneStep ==
    ASSUME SessionInv, NEW k \in DOMAIN flight, WriteDone(k)
    PROVE  SessionInv'
<1> USE DEF SessionInv, WriteDone
<1>0. k \in 1 .. Len(flight) /\ flight[k].res = "ok"
  BY DEF SessionType
<1>1. /\ flight' \in Seq([msg : Nat, res : Results])
      /\ Len(flight') = Len(flight) - 1
      /\ \A j \in 1 .. Len(flight') : \E i \in 1 .. Len(flight) :
             i # k /\ flight'[j] = flight[i] /\ i = IF j < k THEN j ELSE j + 1
      /\ Len(flight) = 1 => flight' = <<>>
  BY <1>0, WithoutSource DEF SessionType
<1>2. \A i \in 1 .. Len(flight) : i # k => flight[i].res = "err"
  BY <1>0 DEF OneAlive, Alive
<1>3. \A j \in 1 .. Len(flight') : flight'[j].res = "err"
  BY <1>1, <1>2
<1>4. write_messages # <<>>
  BY <1>0 DEF OneAlive, Alive
<1>5. /\ write_messages' \in Seq(Nat)
      /\ Len(write_messages') = Len(write_messages) - 1
      /\ \A i \in 1 .. Len(write_messages) - 1 : write_messages'[i] = write_messages[i + 1]
  BY <1>4, TailFacts DEF SessionType
<1>6. SessionType'
  BY <1>1, <1>5 DEF SessionType
<1>7. QueueNumbered'
  <2> DEFINE n == Len(write_messages)
  <2>1. n \in Nat /\ n <= sent /\ sent \in Nat
    BY DEF QueueNumbered, SessionType
  <2>2. \A i \in 1 .. n : write_messages[i] = sent - n + i
    BY DEF QueueNumbered
  <2>3. \A i \in 1 .. n - 1 : write_messages'[i] = sent - (n - 1) + i
    BY <1>5, <2>1, <2>2
  <2> QED
    BY <1>5, <2>1, <2>3 DEF QueueNumbered
<1>8. OneAlive'
  BY <1>3 DEF OneAlive, Alive
<1>9. OneWriter'
  <2>1. starting' = {}
    BY DEF IoIdle, SessionType
  <2>2. is_open => flight' = <<>>
    BY <1>0, <1>1 DEF OneWriter
  <2>3. io' = "next" => write_messages' # <<>>
    OBVIOUS
  <2>4. is_open => writing
    BY <1>0 DEF OneWriter, IoIdle
  <2> QED
    BY <2>1, <2>2, <2>3, <2>4 DEF OneWriter
<1>10. WireNumbered'
  <2>1. Len(wire) = sent - Len(write_messages) + 1
    BY <1>0 DEF WireNumbered
  <2>2. Len(wire) = sent - (Len(write_messages) - 1)
    BY <2>1 DEF SessionType
  <2> QED
    BY <1>3, <1>5, <2>2 DEF WireNumbered
<1>11. Reported'
  BY DEF Reported
<1> QED
  BY <1>6, <1>7, <1>8, <1>9, <1>10, <1>11

LEMMA WriteErrorStep ==
    ASSUME SessionInv, NEW k \in DOMAIN flight, WriteError(k)
    PROVE  SessionInv'
<1> USE DEF SessionInv, WriteError, BeginClose
<1>0. k \in 1 .. Len(flight) /\ flight[k].res = "err"
  BY DEF SessionType
<1>1. /\ flight' \in Seq([msg : Nat, res : Results])
      /\ Len(flight') = Len(flight) - 1
      /\ \A j \in 1 .. Len(flight') : \E i \in 1 .. Len(flight) :
             i # k /\ flight'[j] = flight[i] /\ i = IF j < k THEN j ELSE j + 1
      /\ \A i \in 1 .. Len(flight) : i # k =>
             \E j \in 1 .. Len(flight') : flight'[j] = flight[i]
      /\ Len(flight) = 1 => flight' = <<>>
  BY <1>0, WithoutSource DEF SessionType
<1>2. SessionType'
  BY <1>1 DEF SessionType
<1>3. QueueNumbered' /\ Reported'
  BY DEF QueueNumbered, Reported
<1>4. OneAlive'
  <2>1. ASSUME NEW i \in 1 .. Len(flight'), NEW j \in 1 .. Len(flight'),
               Alive(i)', Alive(j)'
        PROVE  i = j
    <3>1. PICK a \in 1 .. Len(flight) :
              flight'[i] = flight[a] /\ a = IF i < k THEN i ELSE i + 1
      BY <1>1
    <3>2. PICK b \in 1 .. Len(flight) :
              flight'[j] = flight[b] /\ b = IF j < k THEN j ELSE j + 1
      BY <1>1
    <3>3. a = b
      BY <2>1, <3>1, <3>2 DEF OneAlive, Alive
    <3>4. i \in Int /\ j \in Int /\ k \in Int
      BY <1>0, <1>1 DEF SessionType
    <3> QED
      BY <3>1, <3>2, <3>3, <3>4
  <2>2. ASSUME NEW i \in 1 .. Len(flight'), Alive(i)'
        PROVE  write_messages # <<>> /\ flight'[i].msg = write_messages[1]
    <3>1. PICK a \in 1 .. Len(flight) : flight'[i] = flight[a]
      BY <1>1
    <3>2. Alive(a)
      BY <2>2, <3>1 DEF Alive
    <3> QED
      BY <3>1, <3>2 DEF OneAlive
  <2>3. ASSUME NEW i \in 1 .. Len(flight'), flight'[i].res = "busy"
        PROVE  is_open
    BY <1>1, <2>3 DEF OneAlive
  <2> QED
    BY <2>1, <2>2, <2>3 DEF OneAlive, Alive
<1>5. OneWriter'
  <2>1. starting = {}
    BY DEF IoIdle, SessionType
  <2>2. is_open => flight' = <<>>
    BY <1>0, <1>1 DEF OneWriter
  <2> QED
    BY <2>1, <2>2 DEF OneWriter
<1>6. WireNumbered'
  <2>1. (\E i \in 1 .. Len(flight) : flight[i].res = "ok")
          <=> (\E j \in 1 .. Len(flight') : flight'[j].res = "ok")
    <3>1. ASSUME NEW i \in 1 .. Len(flight), flight[i].res = "ok"
          PROVE  \E j \in 1 .. Len(flight') : flight'[j].res = "ok"
      <4>1. i # k
        BY <1>0, <3>1
      <4>2. PICK j \in 1 .. Len(flight') : flight'[j] = flight[i]
        BY <1>1, <4>1
      <4> QED
        BY <4>2, <3>1
    <3>2. ASSUME NEW j \in 1 .. Len(flight'), flight'[j].res = "ok"
          PROVE  \E i \in 1 .. Len(flight) : flight[i].res = "ok"
      <4>1. PICK i \in 1 .. Len(flight) : flight'[j] = flight[i]
        BY <1>1
      <4> QED
        BY <4>1, <3>2
    <3> QED
      BY <3>1, <3>2
  <2> QED
    BY <2>1 DEF WireNumbered
<1> QED
  BY <1>2, <1>3, <1>4, <1>5, <1>6

\* The first half of close changes only io and writing_.
LEMMA BeginCloseStep ==
    ASSUME SessionInv, IoIdle, BeginClose,
           UNCHANGED <<write_messages, flight, starting, sent, wire, is_open,
                       callback_set, removed>>
    PROVE  SessionInv'
<1> USE DEF SessionInv, BeginClose
<1>1. SessionType'
  BY DEF SessionType
<1>2. QueueNumbered' /\ WireNumbered' /\ Reported'
  BY DEF QueueNumbered, WireNumbered, Reported
<1>3. OneAlive'
  BY DEF OneAlive, Alive
<1>4. OneWriter'
  BY DEF OneWriter, IoIdle, SessionType
<1> QED
  BY <1>1, <1>2, <1>3, <1>4

LEMMA CloseStep ==
    ASSUME SessionInv, close
    PROVE  SessionInv'
<1> USE DEF SessionInv, close
<1> DEFINE R == [msg : Nat, res : Results]
<1> DEFINE n == Len(flight)
<1>0. n \in Nat /\ DOMAIN flight = 1 .. n
  BY DEF SessionType
<1>1. \A i \in 1 .. n : flight[i] \in R
  <2> HIDE DEF R
  <2> QED
    BY ElementOfSeq DEF R, SessionType
<1>2. \A i \in 1 .. n : [flight[i] EXCEPT !.res = "err"] \in R
  BY <1>1 DEF Results
<1>3. flight' \in [1 .. n -> R]
  BY <1>0, <1>1, <1>2
<1>4. flight' \in Seq(R) /\ Len(flight') = n
  BY <1>0, <1>3
<1>5. \A i \in 1 .. n : flight'[i].res = IF flight[i].res = "busy" THEN "err" ELSE flight[i].res
  BY <1>0, <1>1
<1>6. \A i \in 1 .. n : flight'[i].res # "err" => flight'[i] = flight[i]
  BY <1>0, <1>1
<1>a. /\ is_open' = FALSE /\ callback_set' = FALSE /\ io' = "idle"
      /\ removed' = IF callback_set THEN removed + 1 ELSE removed
      /\ UNCHANGED <<write_messages, writing, starting, sent, wire>>
  OBVIOUS
<1> HIDE DEF close
<1>7. SessionType'
  <2>1. removed' \in Nat
    BY <1>a DEF SessionType
  <2> QED
    BY <1>a, <1>4, <2>1 DEF SessionType
<1>8. QueueNumbered'
  BY <1>a DEF QueueNumbered
<1>9. OneAlive'
  BY <1>a, <1>4, <1>5, <1>6 DEF OneAlive, Alive
<1>10. OneWriter'
  BY <1>a DEF OneWriter
<1>11. WireNumbered'
  <2>1. \A i \in 1 .. n : flight'[i].res = "ok" <=> flight[i].res = "ok"
    BY <1>5
  <2> QED
    BY <1>a, <1>4, <2>1 DEF WireNumbered
<1>12. Reported'
  <2>1. removed' = 1
    BY <1>a DEF Reported, SessionType
  <2> QED
    BY <1>a, <2>1 DEF Reported
<1> QED
  BY <1>7, <1>8, <1>9, <1>10, <1>11, <1>12

\* Handlers of reads move io between idle and handling.
LEMMA ReadStep ==
    ASSUME SessionInv,
           UNCHANGED <<writeVars, is_open, callback_set, removed>>,
           \/ UNCHANGED io
           \/ io \in {"idle", "handling"} /\ io' \in {"idle", "handling"}
    PROVE  SessionInv'
<1> USE DEF SessionInv, writeVars
<1>1. SessionType'
  BY DEF SessionType
<1>2. QueueNumbered' /\ WireNumbered' /\ Reported'
  BY DEF QueueNumbered, WireNumbered, Reported
<1>3. OneAlive'
  BY DEF OneAlive, Alive
<1>4. OneWriter'
  BY DEF OneWriter
<1> QED
  BY <1>1, <1>2, <1>3, <1>4

\* The invariant of Session: numbering of queue and wire, one write that has not
\* failed, and the callback that runs at the closing of the socket (session.cpp,
\* sendMessage, doWriteNext, doRead and close).
THEOREM SessionInvariant == SSpec => []SessionInv
<1>1. SInit => SessionInv
  BY SessionInit
<1>2. SessionInv /\ [SNext]_svars => SessionInv'
  <2> SUFFICES ASSUME SessionInv, [SNext]_svars PROVE SessionInv'
    OBVIOUS
  <2>1. CASE \E t \in Senders : sendMessage(t)
    BY <2>1, SendStep DEF Senders
  <2>2. CASE \E i \in DOMAIN flight : Transmit(i)
    BY <2>2, TransmitStep
  <2>3. CASE \E i \in DOMAIN flight : WriteFails(i)
    BY <2>3, WriteFailsStep
  <2>4. CASE \E t \in Senders : doWriteNext(t)
    <3>1. doWriteNext(IoThread)
      BY <2>4 DEF Senders
    <3>2. starting' = {} /\ starting # {} /\ io' = io /\ io \in {"idle", "handling"}
      BY <3>1 DEF doWriteNext, SessionInv, SessionType, OneWriter
    <3> QED
      BY <3>1, <3>2, StartStep DEF doWriteNext
  <2>5. CASE \E i \in DOMAIN flight : WriteDone(i)
    BY <2>5, WriteDoneStep
  <2>6. CASE \E i \in DOMAIN flight : WriteError(i)
    BY <2>6, WriteErrorStep
  <2>7. CASE WriteNext
    <3>1. starting' = {}
      BY <2>7 DEF WriteNext, SessionInv, SessionType, OneWriter
    <3> QED
      BY <2>7, <3>1, StartStep DEF WriteNext
  <2>8. CASE close
    BY <2>8, CloseStep
  <2>9. CASE BadLength \/ ReadError
    BY <2>9, BeginCloseStep DEF BadLength, ReadError
  <2>10. CASE HeaderDone \/ ContentDone \/ doRead
    BY <2>10, ReadStep DEF HeaderDone, ContentDone, doRead, IoIdle
  <2>11. CASE Arrive \/ PeerGone
    BY <2>11, ReadStep DEF Arrive, PeerGone
  <2>12. CASE UNCHANGED svars
    BY <2>12, ReadStep DEF svars
  <2> QED
    BY <2>1, <2>2, <2>3, <2>4, <2>5, <2>6, <2>7, <2>8, <2>9, <2>10, <2>11, <2>12
       DEF SNext, Complete
<1> QED
  BY <1>1, <1>2, PTL DEF SSpec

\* The peer gets message after message from the first on, in the order of the
\* calls of sendMessage: however reads, failures and closing interleave, no
\* message is written twice and none is passed over (doWriteNext and close).
THEOREM PeerGetsInOrder == SSpec => []WireInOrder
<1>1. SessionInv => WireInOrder
  BY DEF SessionInv, SessionType, WireNumbered, WireInOrder
<1> QED
  BY <1>1, SessionInvariant, PTL

\* pop_front in the handler of a write is always called on a queue whose front
\* is the message of that write, also when close has reset writing_ and another
\* write was started meanwhile (doWriteNext).
THEOREM HandlersPopTheirs == SSpec => []PopsItsMessage
<1>1. SessionInv => PopsItsMessage
  BY DEF SessionInv, SessionType, OneAlive, Alive, PopsItsMessage
<1> QED
  BY <1>1, SessionInvariant, PTL

\* The disconnect callback runs exactly once for a closed connection, whatever
\* number of failed reads and writes call close.
THEOREM ClosingReportedOnce == SSpec => []RemovedOnce
<1>1. SessionInv => RemovedOnce
  BY DEF SessionInv, SessionType, Reported, RemovedOnce
<1> QED
  BY <1>1, SessionInvariant, PTL
=============================================================================
