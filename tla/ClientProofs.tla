---------------------------- MODULE ClientProofs ----------------------------
(***************************************************************************)
(* Proofs about Client, for every number of messages and connections: the  *)
(* server gets the messages in order, and std::thread ends the process     *)
(* only after a handler has taken a connection down.                       *)
(*                                                                         *)
(* SentInOrder is not inductive: which number the next write carries       *)
(* follows from the numbering of posts and write_queue (QueuesNumbered)    *)
(* and from writing_ (OneWrite); that none is missed follows from the life *)
(* of the io thread and of io_context_, which is never restarted           *)
(* (Threads, Gap).                                                         *)
(***************************************************************************)
EXTENDS Client, Integers, SequenceTheorems, TLAPS

WriteResults == {"none", "pending", "ok", "error"}

ClientType ==
  /\ connected \in BOOLEAN /\ running \in BOOLEAN /\ open \in BOOLEAN /\ net \in BOOLEAN
  /\ thread \in {"none", "running", "finished"} /\ stopped \in BOOLEAN
  /\ app \in {"idle", "connecting", "stopping", "joining"}
  /\ posts \in Seq(Nat) /\ write_queue \in Seq(Nat) /\ writing \in BOOLEAN
  /\ write_op \in [of : Nat, result : WriteResults]
  /\ gone \in {"no", "destroyed", "terminated"}
  /\ sent \in Nat /\ wire \in Seq(Nat) /\ lost \in BOOLEAN

(* The messages that have left write_queue for good. *)
Popped == sent - Len(posts) - Len(write_queue)

(* write_queue and then posts hold the last messages sent, in their order. *)
QueuesNumbered ==
  /\ Popped \in Nat
  /\ \A i \in 1 .. Len(posts) : posts[i] = sent - Len(posts) + i
  /\ \A i \in 1 .. Len(write_queue) : write_queue[i] = Popped + i

(* A write is under way or completed for the front of the queue only.  It   *)
(* takes an open socket, and a context that is not being stopped.           *)
OneWrite ==
  /\ writing = (write_queue # <<>>)
  /\ write_op.result = "none" => write_op = NoWrite
  /\ write_op.result # "none" => write_queue # <<>> /\ write_op.of = write_queue[1]
  /\ write_op.result # "none" => thread # "none" \/ stopped
  /\ write_op.result = "pending" => open /\ ~stopped

(* The threads: what holds between connect, disconnect and the handlers.    *)
Threads ==
  /\ app = "connecting" => ~connected
  /\ app = "stopping" => ~open
  /\ app = "joining" => stopped
  /\ thread # "none" /\ ~stopped /\ app # "stopping" => running
  /\ thread # "none" /\ app \notin {"stopping", "joining"} => connected \/ lost

(* The messages given to the network, whether or not they reached the peer. *)
Given == IF write_op.result = "ok" THEN Popped + 1 ELSE Popped

(* The wire is increasing, and without gaps while no connection was lost.   *)
WireOrdered ==
  /\ \A i \in 1 .. Len(wire) : wire[i] <= Given
  /\ \A i \in 1 .. Len(wire) : i > 1 => wire[i - 1] < wire[i]
  /\ ~lost => \A i \in 1 .. Len(wire) : wire[i] = i

(* If a message has gone into the void, then so will all that follow, until *)
(* a connection is lost.                                                    *)
Gap == ~lost /\ Len(wire) # Given /\ ~stopped /\ app # "stopping" =>
         ~net /\ connected

ClientInv ==
  /\ ClientType
  /\ QueuesNumbered
  /\ OneWrite
  /\ Threads
  /\ WireOrdered
  /\ Gap
  /\ TerminatedOnlyAfterLoss

----------------------------------------------------------------------------
(* Steps that leave the queues alone.                                       *)

LEMMA EndedFacts ==
  ASSUME NEW op \in [of : Nat, result : WriteResults], NEW r \in WriteResults
  PROVE  /\ Ended(op, r) \in [of : Nat, result : WriteResults]
         /\ Ended(op, r).of = op.of
         /\ Ended(op, r).result = r
BY DEF Ended

LEMMA AbortedFacts ==
  ASSUME NEW op \in [of : Nat, result : WriteResults]
  PROVE  /\ Aborted(op) \in [of : Nat, result : WriteResults]
         /\ Aborted(op).of = op.of
         /\ Aborted(op).result = IF op.result = "pending" THEN "error" ELSE op.result
         /\ op.result # "pending" => Aborted(op) = op
<1>1. "error" \in WriteResults
  BY DEF WriteResults
<1> QED
  BY <1>1, EndedFacts DEF Aborted

(* The write under way is left alone or fails. *)
WriteKept ==
  /\ write_op' \in [of : Nat, result : WriteResults]
  /\ \/ write_op' = write_op
     \/ /\ write_op'.of = write_op.of
        /\ write_op.result = "pending" /\ write_op'.result = "error"

LEMMA AbortKeeps ==
  ASSUME ClientType, write_op' = Aborted(write_op)
  PROVE  WriteKept /\ write_op'.result # "pending"
<1>1. write_op \in [of : Nat, result : WriteResults]
  BY DEF ClientType
<1> QED
  BY <1>1, AbortedFacts DEF WriteKept

LEMMA FailKeeps ==
  ASSUME ClientType, write_op.result = "pending", write_op' = Ended(write_op, "error")
  PROVE  WriteKept
<1>1. write_op \in [of : Nat, result : WriteResults] /\ "error" \in WriteResults
  BY DEF ClientType, WriteResults
<1> QED
  BY <1>1, EndedFacts DEF WriteKept

LEMMA QuietQueues ==
  ASSUME ClientInv, WriteKept, lost => lost',
         UNCHANGED <<posts, write_queue, writing, sent, wire>>
  PROVE  /\ QueuesNumbered' /\ WireOrdered' /\ Given' = Given
         /\ write_op'.result = "none" <=> write_op.result = "none"
         /\ writing' = (write_queue' # <<>>)
         /\ write_op'.result = "none" => write_op' = NoWrite
         /\ write_op'.result # "none" =>
                write_queue' # <<>> /\ write_op'.of = write_queue'[1]
         /\ write_op'.result = "pending" => write_op.result = "pending"
<1> USE DEF ClientInv
<1>1. QueuesNumbered'
  BY DEF QueuesNumbered, Popped
<1>2. Given' = Given
  BY DEF Given, Popped, WriteKept
<1>3. WireOrdered'
  BY <1>2 DEF WireOrdered, ClientType
<1>4. write_op'.result = "none" <=> write_op.result = "none"
  BY DEF WriteKept
<1>5. writing' = (write_queue' # <<>>)
  BY DEF OneWrite
<1>6. write_op'.result = "none" => write_op' = NoWrite
  BY DEF WriteKept, OneWrite
<1>7. write_op'.result # "none" => write_queue' # <<>> /\ write_op'.of = write_queue'[1]
  BY DEF WriteKept, OneWrite
<1>8. write_op'.result = "pending" => write_op.result = "pending"
  BY DEF WriteKept
<1> QED
  BY <1>1, <1>2, <1>3, <1>4, <1>5, <1>6, <1>7, <1>8

LEMMA ClientInit == CInit => ClientInv
<1> SUFFICES ASSUME CInit PROVE ClientInv
  OBVIOUS
<1>0. Len(<<>>) = 0 /\ \A S : <<>> \in Seq(S)
  OBVIOUS
<1>1. ClientType
  BY <1>0 DEF CInit, ClientType, NoWrite, WriteResults
<1>2. Len(posts) = 0 /\ Len(write_queue) = 0 /\ Len(wire) = 0 /\ sent = 0
  BY <1>0 DEF CInit
<1>3. Popped = 0
  BY <1>2 DEF Popped
<1>4. \A i : ~(i \in 1 .. 0)
  OBVIOUS
<1>5. QueuesNumbered /\ WireOrdered
  BY <1>2, <1>3, <1>4 DEF QueuesNumbered, WireOrdered
<1>6. OneWrite
  BY DEF CInit, OneWrite, NoWrite
<1>7. Threads /\ TerminatedOnlyAfterLoss
  BY DEF CInit, Threads, TerminatedOnlyAfterLoss
<1>8. Gap
  BY <1>2, <1>3 DEF CInit, Gap, Given, NoWrite
<1> QED
  BY <1>1, <1>5, <1>6, <1>7, <1>8 DEF ClientInv

----------------------------------------------------------------------------
(* The application's thread.                                                *)

LEMMA ConnectStep ==
  ASSUME ClientInv, connect \/ connectFails
  PROVE  ClientInv'
<1> USE DEF ClientInv
<1>0. /\ WriteKept /\ write_op'.result # "pending"
      /\ AppCalls /\ ~connected /\ open' = TRUE /\ net' \in BOOLEAN
      /\ app' \in {"idle", "connecting"}
      /\ UNCHANGED <<connected, running, thread, stopped, posts, write_queue, writing,
                     life, sent, wire, lost>>
  BY AbortKeeps DEF connect, connectFails, AppCalls, threads, history
<1>q. /\ QueuesNumbered' /\ WireOrdered' /\ Given' = Given
      /\ write_op'.result = "none" <=> write_op.result = "none"
      /\ writing' = (write_queue' # <<>>)
      /\ write_op'.result = "none" => write_op' = NoWrite
      /\ write_op'.result # "none" =>
             write_queue' # <<>> /\ write_op'.of = write_queue'[1]
      /\ write_op'.result = "pending" => write_op.result = "pending"
  BY <1>0, QuietQueues
<1>1. ClientType'
  BY <1>0 DEF ClientType, WriteKept, life
<1>2. OneWrite'
  BY <1>0, <1>q DEF OneWrite
<1>3. Threads'
  BY <1>0 DEF Threads, AppCalls
<1>4. Gap'
  BY <1>0, <1>q DEF Gap, AppCalls
<1>5. TerminatedOnlyAfterLoss'
  BY <1>0 DEF TerminatedOnlyAfterLoss, life
<1> QED
  BY <1>1, <1>2, <1>3, <1>4, <1>5, <1>q

LEMMA ConnectedStep ==
  ASSUME ClientInv, Connected
  PROVE  ClientInv'
<1> USE DEF ClientInv
<1>0. /\ app = "connecting" /\ app' = "idle" /\ connected' = TRUE /\ running' = TRUE
      /\ thread = "none" => thread' = "running" /\ gone' = gone
      /\ thread # "none" => thread' = thread /\ gone' = "terminated"
      /\ UNCHANGED <<open, net, stopped, queues, history>>
  BY DEF Connected
<1>a. WriteKept
  BY <1>0 DEF WriteKept, ClientType, queues
<1>q. /\ QueuesNumbered' /\ WireOrdered' /\ Given' = Given
  BY <1>0, <1>a, QuietQueues DEF queues, history
<1>1. ClientType'
  BY <1>0 DEF ClientType, queues, history
<1>2. OneWrite'
  BY <1>0 DEF OneWrite, queues
<1>3. Threads'
  BY <1>0 DEF Threads
<1>4. Gap'
  BY <1>0, <1>q DEF Gap, Threads, queues, history
<1>5. TerminatedOnlyAfterLoss'
  BY <1>0 DEF TerminatedOnlyAfterLoss, Threads, history
<1> QED
  BY <1>1, <1>2, <1>3, <1>4, <1>5, <1>q

LEMMA DisconnectStep ==
  ASSUME ClientInv, disconnect
  PROVE  ClientInv'
<1> USE DEF ClientInv
<1>0. /\ WriteKept /\ write_op'.result # "pending"
      /\ app = "idle" /\ app' = "stopping" /\ running' = FALSE /\ open' = FALSE /\ net' = FALSE
      /\ UNCHANGED <<connected, thread, stopped, posts, write_queue, writing, life, history>>
  BY AbortKeeps DEF disconnect, AppCalls
<1>q. /\ QueuesNumbered' /\ WireOrdered' /\ Given' = Given
      /\ write_op'.result = "none" <=> write_op.result = "none"
      /\ writing' = (write_queue' # <<>>)
      /\ write_op'.result = "none" => write_op' = NoWrite
      /\ write_op'.result # "none" =>
             write_queue' # <<>> /\ write_op'.of = write_queue'[1]
  BY <1>0, QuietQueues DEF history
<1>1. ClientType'
  BY <1>0 DEF ClientType, WriteKept, life, history
<1>2. OneWrite'
  BY <1>0, <1>q DEF OneWrite
<1>3. Threads'
  BY <1>0 DEF Threads
<1>4. Gap'
  BY <1>0 DEF Gap
<1>5. TerminatedOnlyAfterLoss'
  BY <1>0 DEF TerminatedOnlyAfterLoss, life, history
<1> QED
  BY <1>1, <1>2, <1>3, <1>4, <1>5, <1>q

LEMMA WriteStep ==
  ASSUME ClientInv, write
  PROVE  ClientInv'
<1> USE DEF ClientInv
<1>0. /\ sent \in Nat /\ sent + 1 \in Nat /\ posts \in Seq(Nat)
      /\ write_queue \in Seq(Nat)
      /\ Len(posts) \in Nat /\ Len(write_queue) \in Nat
  BY DEF ClientType
<1>a. /\ sent' = sent + 1 /\ posts' = Append(posts, sent + 1)
      /\ UNCHANGED <<flags, threads, write_queue, writing, write_op, life, wire, lost>>
  BY DEF write
<1>b. /\ posts' \in Seq(Nat) /\ Len(posts') = Len(posts) + 1
      /\ \A i \in 1 .. Len(posts) : posts'[i] = posts[i]
      /\ posts'[Len(posts) + 1] = sent + 1
  BY <1>0, <1>a, AppendProperties
<1>c. Popped' = Popped /\ Popped \in Nat
  BY <1>0, <1>a, <1>b DEF Popped, QueuesNumbered
<1>d. Given' = Given
  BY <1>a, <1>c DEF Given
<1>1. ClientType'
  BY <1>0, <1>a, <1>b DEF ClientType, flags, threads, life
<1>2. QueuesNumbered'
  <2>1. ASSUME NEW i \in 1 .. Len(posts) + 1
        PROVE  posts'[i] = (sent + 1) - (Len(posts) + 1) + i
    <3>1. CASE i \in 1 .. Len(posts)
      <4>1. posts'[i] = sent - Len(posts) + i
        BY <1>b, <3>1 DEF QueuesNumbered
      <4> QED
        BY <1>0, <4>1
    <3>2. CASE i = Len(posts) + 1
      BY <1>0, <1>b, <3>2
    <3> QED
      BY <1>0, <3>1, <3>2
  <2> QED
    BY <1>a, <1>b, <1>c, <2>1 DEF QueuesNumbered
<1>3. OneWrite'
  BY <1>a DEF OneWrite, flags, threads
<1>4. Threads'
  BY <1>a DEF Threads, flags, threads
<1>5. WireOrdered'
  BY <1>a, <1>d DEF WireOrdered
<1>6. Gap'
  BY <1>a, <1>d DEF Gap, flags, threads
<1>7. TerminatedOnlyAfterLoss'
  BY <1>a DEF TerminatedOnlyAfterLoss, life
<1> QED
  BY <1>1, <1>2, <1>3, <1>4, <1>5, <1>6, <1>7

(* Steps of the application's thread that move only the threads, and the    *)
(* end of the client.                                                       *)
LEMMA ThreadStep ==
  ASSUME ClientInv,
         \/ ClosedMeanwhile \/ StopContext \/ JoinThread \/ Drop \/ Destroy \/ RunReturns
         \/ HeaderDone \/ ContentDone \/ Arrives \/ EndOfStream \/ UNCHANGED cvars
  PROVE  ClientInv'
<1> USE DEF ClientInv
<1>0. UNCHANGED <<running, open, net, queues, history>>
  BY DEF ClosedMeanwhile, StopContext, JoinThread, Drop, Destroy, RunReturns, HeaderDone,
         ContentDone, Arrives, EndOfStream, cvars, flags
<1>a. WriteKept
  BY <1>0 DEF WriteKept, ClientType, queues
<1>q. /\ QueuesNumbered' /\ WireOrdered' /\ Given' = Given
  BY <1>0, <1>a, QuietQueues DEF queues, history
<1>1. CASE ClosedMeanwhile
  <2>0. /\ app = "connecting" /\ app' = "idle"
        /\ UNCHANGED <<connected, thread, stopped, gone>>
    BY <1>1 DEF ClosedMeanwhile, flags, life
  <2> QED
    BY <1>0, <1>q, <2>0 DEF ClientType, OneWrite, Threads, Gap, TerminatedOnlyAfterLoss,
       queues, history
<1>2. CASE StopContext
  <2>0. /\ app = "stopping" /\ app' = "joining" /\ stopped' = TRUE
        /\ UNCHANGED <<connected, thread, gone>>
    BY <1>2 DEF StopContext, flags, life
  <2> QED
    BY <1>0, <1>q, <2>0 DEF ClientType, OneWrite, Threads, Gap, TerminatedOnlyAfterLoss,
       queues, history
<1>3. CASE JoinThread
  <2>0. /\ app = "joining" /\ app' = "idle" /\ thread' = "none" /\ connected' = FALSE
        /\ UNCHANGED <<stopped, gone>>
    BY <1>3 DEF JoinThread, life
  <2> QED
    BY <1>0, <1>q, <2>0 DEF ClientType, OneWrite, Threads, Gap, TerminatedOnlyAfterLoss,
       queues, history
<1>4. CASE Destroy
  <2>0. /\ app = "idle" /\ gone' = IF connected \/ thread = "none" THEN "destroyed" ELSE "terminated"
        /\ UNCHANGED <<connected, thread, stopped, app>>
    BY <1>4 DEF Destroy, flags, threads
  <2>1. gone' = "terminated" => lost
    BY <2>0 DEF Threads
  <2> QED
    BY <1>0, <1>q, <2>0, <2>1 DEF ClientType, OneWrite, Threads, Gap, TerminatedOnlyAfterLoss,
       queues, history
<1>5. CASE RunReturns
  <2>0. /\ thread = "running" /\ thread' = "finished"
        /\ UNCHANGED <<connected, stopped, app, gone>>
    BY <1>5 DEF RunReturns, flags, life
  <2> QED
    BY <1>0, <1>q, <2>0 DEF ClientType, OneWrite, Threads, Gap, TerminatedOnlyAfterLoss,
       queues, history
<1>6. CASE \/ Drop \/ HeaderDone \/ ContentDone \/ Arrives \/ EndOfStream \/ UNCHANGED cvars
  <2>0. UNCHANGED <<connected, stopped, app, thread, gone>>
    BY <1>6 DEF Drop, HeaderDone, ContentDone, Arrives, EndOfStream, cvars, flags, threads, life
  <2> QED
    BY <1>0, <1>q, <2>0 DEF ClientType, OneWrite, Threads, Gap, TerminatedOnlyAfterLoss,
       queues, history
<1> QED
  BY <1>1, <1>2, <1>3, <1>4, <1>5, <1>6

----------------------------------------------------------------------------
(* The io thread and the network.                                           *)

LEMMA PostedWriteStep ==
  ASSUME ClientInv, PostedWrite
  PROVE  ClientInv'
<1> USE DEF ClientInv
<1>0. /\ posts \in Seq(Nat) /\ posts # <<>> /\ write_queue \in Seq(Nat)
      /\ sent \in Nat /\ Len(posts) \in Nat /\ Len(write_queue) \in Nat
      /\ Head(posts) = posts[1] /\ Len(posts) > 0
  BY DEF ClientType, PostedWrite
<1>a. /\ posts' = Tail(posts) /\ write_queue' = Append(write_queue, Head(posts))
      /\ writing' = TRUE
      /\ writing => write_op' = write_op
      /\ ~writing => write_op' = [of |-> Head(write_queue'),
                                  result |-> IF open THEN "pending" ELSE "error"]
      /\ thread = "running" /\ ~stopped
      /\ UNCHANGED <<flags, threads, life, history>>
  BY DEF PostedWrite, doWriteNext, IoRuns
<1>b. /\ posts' \in Seq(Nat) /\ Len(posts') = Len(posts) - 1
      /\ \A i \in 1 .. Len(posts) - 1 : posts'[i] = posts[i + 1]
  BY <1>0, <1>a, HeadTailProperties
<1>c. posts[1] \in Nat /\ posts[1] = Popped + Len(write_queue) + 1 /\ Popped \in Nat
  BY <1>0 DEF QueuesNumbered, Popped
<1>d. /\ write_queue' \in Seq(Nat) /\ Len(write_queue') = Len(write_queue) + 1
      /\ write_queue' # <<>>
      /\ \A i \in 1 .. Len(write_queue) : write_queue'[i] = write_queue[i]
      /\ write_queue'[Len(write_queue) + 1] = posts[1]
  BY <1>0, <1>a, <1>c, AppendProperties
<1>e. Popped' = Popped
  BY <1>0, <1>a, <1>b, <1>d DEF Popped, history
<1>f. writing <=> write_queue # <<>>
  BY DEF OneWrite, ClientType
<1>g. write_queue # <<>> => write_queue'[1] = write_queue[1]
  BY <1>0, <1>d
<1>h. Head(write_queue') = write_queue'[1] /\ write_queue'[1] \in Nat
  BY <1>0, <1>d
<1>i. /\ write_op' \in [of : Nat, result : WriteResults]
      /\ write_op'.result # "none" => write_op'.of = write_queue'[1]
      /\ write_op'.result = "none" => write_op' = NoWrite
      /\ write_op'.result = "pending" => open
      /\ write_op'.result = "ok" <=> write_op.result = "ok"
  <2>1. CASE writing
    BY <1>a, <1>f, <1>g, <2>1 DEF ClientType, OneWrite
  <2>2. CASE ~writing
    <3>1. /\ write_op'.of = write_queue'[1]
          /\ write_op'.result = IF open THEN "pending" ELSE "error"
          /\ write_op' \in [of : Nat, result : WriteResults]
      BY <1>a, <1>h, <2>2 DEF WriteResults
    <3>2. write_op.result # "ok"
      BY <1>f, <2>2 DEF OneWrite
    <3> QED
      BY <3>1, <3>2
  <2> QED
    BY <2>1, <2>2 DEF ClientType
<1>j. Given' = Given
  BY <1>e, <1>i DEF Given
<1>1. ClientType'
  BY <1>a, <1>b, <1>d, <1>i DEF ClientType, flags, threads, life, history
<1>2. QueuesNumbered'
  <2>1. \A i \in 1 .. Len(posts) - 1 : posts'[i] = sent - (Len(posts) - 1) + i
    <3>1. \A i \in 1 .. Len(posts) : posts[i] = sent - Len(posts) + i
      BY DEF QueuesNumbered
    <3> QED
      BY <1>0, <1>b, <3>1
  <2>2. ASSUME NEW i \in 1 .. Len(write_queue) + 1
        PROVE  write_queue'[i] = Popped + i
    <3>1. CASE i \in 1 .. Len(write_queue)
      BY <1>d, <3>1 DEF QueuesNumbered
    <3>2. CASE i = Len(write_queue) + 1
      BY <1>0, <1>c, <1>d, <3>2
    <3> QED
      BY <1>0, <3>1, <3>2
  <2> QED
    BY <1>a, <1>b, <1>c, <1>d, <1>e, <2>1, <2>2 DEF QueuesNumbered, history
<1>3. OneWrite'
  BY <1>a, <1>d, <1>i DEF OneWrite, flags, threads
<1>4. Threads'
  BY <1>a DEF Threads, flags, threads, history
<1>5. WireOrdered'
  BY <1>a, <1>j DEF WireOrdered, history
<1>6. Gap'
  BY <1>a, <1>j DEF Gap, flags, threads, history
<1>7. TerminatedOnlyAfterLoss'
  BY <1>a DEF TerminatedOnlyAfterLoss, life, history
<1> QED
  BY <1>1, <1>2, <1>3, <1>4, <1>5, <1>6, <1>7

LEMMA WriteDoneStep ==
  ASSUME ClientInv, WriteDone
  PROVE  ClientInv'
<1> USE DEF ClientInv
<1>0. /\ write_queue \in Seq(Nat) /\ write_queue # <<>> /\ write_op.result = "ok"
      /\ sent \in Nat /\ Len(posts) \in Nat /\ Len(write_queue) \in Nat
      /\ Popped \in Nat
  BY DEF ClientType, WriteDone, OneWrite, QueuesNumbered
<1>a. /\ write_queue' = Tail(write_queue) /\ writing' = (write_queue' # <<>>)
      /\ write_queue' # <<>> =>
             write_op' = [of |-> Head(write_queue'),
                          result |-> IF open THEN "pending" ELSE "error"]
      /\ write_queue' = <<>> => write_op' = NoWrite
      /\ thread = "running" /\ ~stopped
      /\ UNCHANGED <<posts, flags, threads, life, history>>
  BY DEF WriteDone, doWriteNext, IoRuns
<1>b. /\ write_queue' \in Seq(Nat) /\ Len(write_queue') = Len(write_queue) - 1
      /\ \A i \in 1 .. Len(write_queue) - 1 : write_queue'[i] = write_queue[i + 1]
  BY <1>0, <1>a, HeadTailProperties
<1>c. Popped' = Popped + 1
  BY <1>0, <1>a, <1>b DEF Popped, history
<1>d. /\ write_op' \in [of : Nat, result : WriteResults]
      /\ write_op'.result # "none" => write_queue' # <<>> /\ write_op'.of = write_queue'[1]
      /\ write_op'.result = "none" => write_op' = NoWrite
      /\ write_op'.result = "pending" => open
      /\ write_op'.result # "ok"
  <2>1. CASE write_queue' # <<>>
    <3>1. Head(write_queue') = write_queue'[1] /\ write_queue'[1] \in Nat
      BY <1>b, <2>1
    <3>2. /\ write_op'.of = write_queue'[1]
          /\ write_op'.result = IF open THEN "pending" ELSE "error"
          /\ write_op' \in [of : Nat, result : WriteResults]
      BY <1>a, <2>1, <3>1 DEF WriteResults
    <3> QED
      BY <2>1, <3>2
  <2>2. CASE write_queue' = <<>>
    BY <1>a, <2>2 DEF NoWrite, WriteResults
  <2> QED
    BY <2>1, <2>2
<1>e. Given' = Given
  BY <1>0, <1>c, <1>d DEF Given
<1>1. ClientType'
  BY <1>a, <1>b, <1>d DEF ClientType, flags, threads, life, history
<1>2. QueuesNumbered'
  <2>1. \A i \in 1 .. Len(write_queue) : write_queue[i] = Popped + i
    BY DEF QueuesNumbered
  <2>2. \A i \in 1 .. Len(write_queue) - 1 : write_queue'[i] = (Popped + 1) + i
    BY <1>0, <1>b, <2>1
  <2> QED
    BY <1>0, <1>a, <1>b, <1>c, <2>2 DEF QueuesNumbered, history
<1>3. OneWrite'
  BY <1>a, <1>d DEF OneWrite, flags, threads
<1>4. Threads'
  BY <1>a DEF Threads, flags, threads, history
<1>5. WireOrdered'
  BY <1>a, <1>e DEF WireOrdered, history
<1>6. Gap'
  BY <1>a, <1>e DEF Gap, flags, threads, history
<1>7. TerminatedOnlyAfterLoss'
  BY <1>a DEF TerminatedOnlyAfterLoss, life, history
<1> QED
  BY <1>1, <1>2, <1>3, <1>4, <1>5, <1>6, <1>7

(* A handler that clears connected_ runs while the connection is in use, or *)
(* while disconnect is on its way to stopping the context.                  *)
LEMMA LossIsRecorded ==
  ASSUME ClientInv, IoRuns, LosesConnection
  PROVE  connected' = FALSE /\ (lost => lost') /\ lost' \in BOOLEAN
         /\ (lost' \/ app = "stopping")
BY DEF ClientInv, ClientType, Threads, IoRuns, LosesConnection

LEMMA WriteErrorStep ==
  ASSUME ClientInv, WriteError
  PROVE  ClientInv'
<1> USE DEF ClientInv
<1>0. /\ connected' = FALSE /\ (lost => lost') /\ lost' \in BOOLEAN
      /\ lost' \/ app = "stopping"
  BY LossIsRecorded DEF WriteError
<1>a. /\ write_op.result = "error" /\ write_op' = NoWrite
      /\ UNCHANGED <<running, open, net, threads, posts, write_queue, writing,
                     life, sent, wire>>
  BY DEF WriteError
<1>b. Popped' = Popped /\ Given' = Given /\ Given = Popped
  BY <1>a DEF Popped, Given, NoWrite
<1>1. ClientType'
  BY <1>0, <1>a DEF ClientType, NoWrite, WriteResults, threads, life
<1>2. QueuesNumbered'
  BY <1>a, <1>b DEF QueuesNumbered
<1>3. OneWrite'
  BY <1>a DEF OneWrite, NoWrite
<1>4. Threads'
  BY <1>0, <1>a DEF Threads, threads
<1>5. WireOrdered'
  BY <1>0, <1>a, <1>b DEF WireOrdered, ClientType
<1>6. Gap'
  BY <1>0, <1>a DEF Gap, threads
<1>7. TerminatedOnlyAfterLoss'
  BY <1>0, <1>a DEF TerminatedOnlyAfterLoss, life
<1> QED
  BY <1>1, <1>2, <1>3, <1>4, <1>5, <1>6, <1>7

LEMMA ReadErrorStep ==
  ASSUME ClientInv, ReadError
  PROVE  ClientInv'
<1> USE DEF ClientInv
<1>0. /\ connected' = FALSE /\ (lost => lost') /\ lost' \in BOOLEAN
      /\ lost' \/ app = "stopping"
  BY LossIsRecorded DEF ReadError
<1>a. /\ WriteKept /\ write_op'.result # "pending"
      /\ open' = FALSE /\ net' = FALSE
      /\ UNCHANGED <<running, threads, posts, write_queue, writing, life, sent, wire>>
  BY AbortKeeps DEF ReadError
<1>q. /\ QueuesNumbered' /\ WireOrdered' /\ Given' = Given
      /\ write_op'.result = "none" <=> write_op.result = "none"
      /\ writing' = (write_queue' # <<>>)
      /\ write_op'.result = "none" => write_op' = NoWrite
      /\ write_op'.result # "none" =>
             write_queue' # <<>> /\ write_op'.of = write_queue'[1]
  BY <1>0, <1>a, QuietQueues
<1>1. ClientType'
  BY <1>0, <1>a DEF ClientType, WriteKept, threads, life
<1>2. OneWrite'
  BY <1>a, <1>q DEF OneWrite, threads
<1>3. Threads'
  BY <1>0, <1>a DEF Threads, threads
<1>4. Gap'
  BY <1>0, <1>a DEF Gap, threads
<1>5. TerminatedOnlyAfterLoss'
  BY <1>0, <1>a DEF TerminatedOnlyAfterLoss, life
<1> QED
  BY <1>1, <1>2, <1>3, <1>4, <1>5, <1>q

LEMMA TransmitStep ==
  ASSUME ClientInv, Transmit
  PROVE  ClientInv'
<1> USE DEF ClientInv
<1>0. /\ write_op.result = "pending" /\ write_op' = Ended(write_op, "ok")
      /\ net => wire' = Append(wire, write_op.of)
      /\ ~net => wire' = wire
      /\ UNCHANGED <<flags, threads, posts, write_queue, writing, life, sent, lost>>
  BY DEF Transmit
<1>a. /\ write_op' \in [of : Nat, result : WriteResults]
      /\ write_op'.of = write_op.of /\ write_op'.result = "ok"
  <2>1. write_op \in [of : Nat, result : WriteResults] /\ "ok" \in WriteResults
    BY DEF ClientType, WriteResults
  <2> QED
    BY <1>0, <2>1, EndedFacts
<1>b. /\ Popped \in Nat /\ Popped' = Popped /\ Given = Popped /\ Given' = Popped + 1
  BY <1>0, <1>a DEF Popped, Given, QueuesNumbered
<1>c. write_op.of = Popped + 1
  <2>1. write_queue # <<>> /\ write_op.of = write_queue[1]
    BY <1>0 DEF OneWrite
  <2>2. 1 \in 1 .. Len(write_queue)
    BY <2>1 DEF ClientType
  <2> QED
    BY <2>1, <2>2 DEF QueuesNumbered
<1>d. ~lost /\ app # "stopping" => connected
  BY <1>0 DEF OneWrite, Threads
<1>e. ~stopped /\ app # "stopping"
  BY <1>0 DEF OneWrite, Threads
<1>f. wire \in Seq(Nat) /\ Len(wire) \in Nat
  BY DEF ClientType
<1>1. OneWrite'
  BY <1>0, <1>a DEF OneWrite, flags, threads
<1>2. QueuesNumbered'
  BY <1>0, <1>b DEF QueuesNumbered
<1>3. Threads'
  BY <1>0 DEF Threads, flags, threads
<1>4. TerminatedOnlyAfterLoss'
  BY <1>0 DEF TerminatedOnlyAfterLoss, life
<1>5. CASE net
  <2>1. /\ wire' \in Seq(Nat) /\ Len(wire') = Len(wire) + 1
        /\ \A i \in 1 .. Len(wire) : wire'[i] = wire[i]
        /\ wire'[Len(wire) + 1] = Popped + 1
    <3>1. wire' = Append(wire, Popped + 1) /\ Popped + 1 \in Nat
      BY <1>0, <1>b, <1>c, <1>5
    <3> QED
      BY <1>f, <3>1, AppendProperties
  <2>2. ClientType'
    BY <1>0, <1>a, <2>1 DEF ClientType, flags, threads, life
  <2>3. ~lost => Len(wire) = Popped
    BY <1>b, <1>e, <1>5 DEF Gap
  <2>4. WireOrdered'
    <3>1. \A i \in 1 .. Len(wire) : wire[i] \in Nat /\ wire[i] <= Popped
      BY <1>b, <1>f DEF WireOrdered
    <3>2. \A i \in 1 .. Len(wire') : wire'[i] <= Popped + 1
      BY <1>b, <1>f, <2>1, <3>1
    <3>3. ASSUME NEW i \in 1 .. Len(wire'), i > 1
          PROVE  wire'[i - 1] < wire'[i]
      <4>1. CASE i = Len(wire) + 1
        <5>1. i - 1 \in 1 .. Len(wire) /\ wire'[i - 1] = wire[i - 1]
          BY <1>f, <2>1, <3>3, <4>1
        <5> QED
          BY <1>b, <2>1, <3>1, <4>1, <5>1
      <4>2. CASE i # Len(wire) + 1
        <5>1. i \in 1 .. Len(wire) /\ i - 1 \in 1 .. Len(wire)
          BY <1>f, <2>1, <3>3, <4>2
        <5> QED
          BY <2>1, <3>3, <5>1 DEF WireOrdered
      <4> QED
        BY <4>1, <4>2
    <3>4. ~lost => \A i \in 1 .. Len(wire') : wire'[i] = i
      BY <1>f, <2>1, <2>3 DEF WireOrdered
    <3> QED
      BY <1>0, <1>b, <3>2, <3>3, <3>4 DEF WireOrdered
  <2>5. Gap'
    <3>1. ~lost' => Len(wire') = Given'
      BY <1>0, <1>b, <2>1, <2>3
    <3> QED
      BY <3>1 DEF Gap
  <2> QED
    BY <1>1, <1>2, <1>3, <1>4, <2>2, <2>4, <2>5
<1>6. CASE ~net
  <2>1. ClientType'
    BY <1>0, <1>a, <1>6 DEF ClientType, flags, threads, life
  <2>2. WireOrdered'
    <3>1. \A i \in 1 .. Len(wire) : wire[i] \in Nat /\ wire[i] <= Popped + 1
      BY <1>b, <1>f DEF WireOrdered
    <3> QED
      BY <1>0, <1>b, <1>6, <3>1 DEF WireOrdered
  <2>3. Gap'
    BY <1>0, <1>d, <1>6 DEF Gap, flags, threads
  <2> QED
    BY <1>1, <1>2, <1>3, <1>4, <2>1, <2>2, <2>3
<1> QED
  BY <1>5, <1>6

LEMMA NetworkStep ==
  ASSUME ClientInv, WriteFails \/ PeerGone
  PROVE  ClientInv'
<1> USE DEF ClientInv
<1>0. /\ WriteKept /\ net' \in BOOLEAN /\ (net' => net)
      /\ UNCHANGED <<connected, running, open, threads, posts, write_queue, writing, life, history>>
  <2>1. CASE WriteFails
    BY <2>1, FailKeeps DEF WriteFails, flags, ClientType
  <2>2. CASE PeerGone
    BY <2>2 DEF PeerGone, WriteKept, queues, ClientType
  <2> QED
    BY <2>1, <2>2
<1>q. /\ QueuesNumbered' /\ WireOrdered' /\ Given' = Given
      /\ write_op'.result = "none" <=> write_op.result = "none"
      /\ writing' = (write_queue' # <<>>)
      /\ write_op'.result = "none" => write_op' = NoWrite
      /\ write_op'.result # "none" =>
             write_queue' # <<>> /\ write_op'.of = write_queue'[1]
      /\ write_op'.result = "pending" => write_op.result = "pending"
  BY <1>0, QuietQueues DEF history
<1>1. ClientType'
  BY <1>0 DEF ClientType, WriteKept, threads, life, history
<1>2. OneWrite'
  BY <1>0, <1>q DEF OneWrite, threads
<1>3. Threads'
  BY <1>0 DEF Threads, threads, history
<1>4. Gap'
  BY <1>0, <1>q DEF Gap, threads, history
<1>5. TerminatedOnlyAfterLoss'
  BY <1>0 DEF TerminatedOnlyAfterLoss, life, history
<1> QED
  BY <1>1, <1>2, <1>3, <1>4, <1>5, <1>q

----------------------------------------------------------------------------
(* The invariant of the client (client.cpp): numbering of the queues and of *)
(* the wire, and the lives of io_thread_ and io_context_ over any number of *)
(* connects and disconnects.                                                *)
THEOREM ClientInvariant == CSpec => []ClientInv
<1>1. CInit => ClientInv
  BY ClientInit
<1>2. ClientInv /\ [CNext]_cvars => ClientInv'
  BY ConnectStep, ConnectedStep, DisconnectStep, WriteStep, ThreadStep, PostedWriteStep,
     WriteDoneStep, WriteErrorStep, ReadErrorStep, TransmitStep, NetworkStep
     DEF CNext, Handler
<1> QED
  BY <1>1, <1>2, PTL DEF CSpec

(* Messages reach the server in the order of the calls and none twice, and  *)
(* none is missed while no handler has taken a connection down: over posts, *)
(* write_queue_, failed writes, disconnects and later connects.             *)
THEOREM MessagesInOrder == CSpec => []SentInOrder
<1>1. ClientInv => SentInOrder
  <2> SUFFICES ASSUME ClientInv, NEW i \in 1 .. Len(wire)
               PROVE  /\ i > 1 => wire[i - 1] < wire[i]
                      /\ wire[i] <= sent
                      /\ lost \/ wire[i] = i
    BY DEF SentInOrder
  <2>1. wire[i] \in Nat /\ wire[i] <= Given
    BY DEF ClientInv, ClientType, WireOrdered
  <2>2. Popped \in Nat /\ Popped <= sent
    BY DEF ClientInv, ClientType, QueuesNumbered, Popped
  <2>3. write_op.result = "ok" => Popped + 1 <= sent
    <3>1. write_op.result = "ok" => write_queue # <<>>
      BY DEF ClientInv, OneWrite
    <3>2. write_queue # <<>> => Len(write_queue) > 0
      BY DEF ClientInv, ClientType
    <3> QED
      BY <3>1, <3>2 DEF ClientInv, ClientType, Popped
  <2>4. wire[i] <= sent
    BY <2>1, <2>2, <2>3 DEF Given, ClientInv, ClientType
  <2> QED
    BY <2>4 DEF ClientInv, WireOrdered, ClientType
<1> QED
  BY <1>1, ClientInvariant, PTL

(* Disconnecting and connecting again, or dropping the client at any moment, *)
(* never makes std::thread end the process: it happens only after a handler *)
(* has taken a connection down (connect, disconnect, ~Client).              *)
THEOREM TerminatesOnlyAfterLoss == CSpec => []TerminatedOnlyAfterLoss
<1>1. ClientInv => TerminatedOnlyAfterLoss
  BY DEF ClientInv
<1> QED
  BY <1>1, ClientInvariant, PTL
=============================================================================
