------------------------------- MODULE Server -------------------------------
(***************************************************************************)
(* The listeners (src/server.rs).  Over UDP a main loop hands packets to a *)
(* pool of workers through a bounded queue; in standard mode the workers   *)
(* reply themselves, in batch mode (Linux, batch_io) they return the       *)
(* replies to the main loop, which sends them in batches                   *)
(* (server/batch_sender.rs).  A TCP, DoT, DoQ or DoH connection has tasks  *)
(* of its own.                                                             *)
(*                                                                         *)
(* What a handler makes of a query is left open: a reply, none, or, in a   *)
(* build that unwinds, a panic.                                            *)
(***************************************************************************)
EXTENDS Naturals, Sequences, SequencesExt

CONSTANTS
    Queries,
    Workers,
    QueueSize,     \* of the task queue, 4096 in the code
    ResponseSize,  \* of the response channel, 4096 in the code
    BatchSize,     \* TX_BATCH_SIZE, 64 in the code
    BindAttempts,  \* 6 in the code, in standard mode
    Free, Dead     \* states of a worker

VARIABLES
    mode,       \* "standard" and "batch" over UDP, or the protocol of a connection
    binding,    \* attempts to bind that are left
    running,    \* the main loop; for a connection, that it is open
    fate,       \* [Queries -> where the query is, or how it ended]
    tasks,      \* the task queue
    worker,     \* [Workers -> the query it handles, or Free, or Dead]
    responses,  \* the response channel of batch mode
    batch,      \* BatchSender's queue
    timer       \* flush_timer is set

poolVars == <<tasks, worker>>
sendVars == <<responses, batch, timer>>
mainVars == <<mode, binding, running>>
serverVars == <<mainVars, fate, poolVars, sendVars>>

Connections == {"tcp", "dot", "doq", "doh"}
UnderWay == {"queued", "reading", "handled", "replied", "responding", "batched"}
Ended == {"sent", "silent", "dropped", "lost"}

\* Type invariant.
ServerTypeOK ==
    /\ mode \in {"standard", "batch"} \cup Connections
    /\ binding \in 0 .. BindAttempts
    /\ running \in BOOLEAN /\ timer \in BOOLEAN
    /\ fate \in [Queries -> {"new"} \cup UnderWay \cup Ended]
    /\ tasks \in Seq(Queries) /\ Len(tasks) <= QueueSize
    /\ worker \in [Workers -> Queries \cup {Free, Dead}]
    /\ responses \in Seq(Queries) /\ Len(responses) <= ResponseSize
    /\ batch \in Seq(Queries) /\ Len(batch) < BatchSize

\* Only standard mode tries again.
Attempts == IF mode = "standard" THEN BindAttempts ELSE 1

Init ==
    /\ mode \in {"standard", "batch"} \cup Connections
    /\ binding = Attempts
    /\ running = FALSE
    /\ fate = [q \in Queries |-> "new"]
    /\ tasks = <<>>
    /\ worker = [w \in Workers |-> Free]
    /\ responses = <<>> /\ batch = <<>> /\ timer = FALSE

Becomes(q, end) == fate' = [fate EXCEPT ![q] = end]
AllBecome(queries, end) ==
    fate' = [q \in Queries |-> IF q \in queries THEN end ELSE fate[q]]

-----------------------------------------------------------------------------
(* The main loop of either mode.                                           *)

\* create_udp_socket, or the bind of another listener.
Bind ==
    /\ binding > 0
    /\ binding' = 0 /\ running' = TRUE
    /\ UNCHANGED <<mode, fate, poolVars, sendVars>>

BindFails ==
    /\ binding > 0
    /\ binding' = binding - 1
    /\ UNCHANGED <<mode, running, fate, poolVars, sendVars>>

Alive == {w \in Workers : worker[w] # Dead}

\* try_send: a packet that finds the queue full is dropped.  run keeps a receiver of its
\* own, so that the queue stays open, and fills, when no worker is left.
Dispatch(q) ==
    \/ /\ Len(tasks) < QueueSize
       /\ Becomes(q, "queued")
       /\ tasks' = Append(tasks, q)
    \/ /\ Len(tasks) = QueueSize
       /\ Becomes(q, "dropped")
       /\ UNCHANGED tasks

\* A packet of a wrong size is ignored.
Receive(q) ==
    /\ mode = "standard" /\ running
    /\ fate[q] = "new"
    /\ Dispatch(q) \/ (Becomes(q, "silent") /\ UNCHANGED tasks)
    /\ UNCHANGED <<mainVars, worker, sendVars>>

\* Branch D, for one packet of those that recvmmsg brings; workers run meanwhile.
ReceiveBatch(q) ==
    /\ mode = "batch" /\ running
    /\ fate[q] = "new"
    /\ Dispatch(q) \/ (Becomes(q, "silent") /\ UNCHANGED tasks)
    /\ UNCHANGED <<mainVars, worker, sendVars>>

-----------------------------------------------------------------------------
(* The workers.                                                            *)

Take(w) ==
    /\ worker[w] = Free /\ tasks # <<>>
    /\ worker' = [worker EXCEPT ![w] = Head(tasks)]
    /\ Becomes(Head(tasks), "handled")
    /\ tasks' = Tail(tasks)
    /\ UNCHANGED <<mainVars, sendVars>>

\* The handler returns without a reply: no entry point, an error, or nothing to say.  Or
\* there is one, which the worker sends in standard mode.
Handle(w) ==
    /\ worker[w] \in Queries /\ fate[worker[w]] = "handled"
    /\ \/ Becomes(worker[w], "silent") /\ worker' = [worker EXCEPT ![w] = Free]
       \/ /\ mode = "standard"
          /\ \E end \in {"sent", "lost"} : Becomes(worker[w], end)
          /\ worker' = [worker EXCEPT ![w] = Free]
       \/ mode = "batch" /\ Becomes(worker[w], "replied") /\ UNCHANGED worker
    /\ UNCHANGED <<mainVars, tasks, sendVars>>

\* The task of a worker whose handler panics ends.
Panic(w) ==
    /\ worker[w] \in Queries /\ fate[worker[w]] = "handled"
    /\ Becomes(worker[w], "lost")
    /\ worker' = [worker EXCEPT ![w] = Dead]
    /\ UNCHANGED <<mainVars, tasks, sendVars>>

\* Mutant of Respond: a worker waits although the main loop has gone.
RespondWaiting(w) ==
    /\ worker[w] \in Queries /\ fate[worker[w]] = "replied"
    /\ running /\ Len(responses) < ResponseSize
    /\ responses' = Append(responses, worker[w])
    /\ Becomes(worker[w], "responding")
    /\ worker' = [worker EXCEPT ![w] = Free]
    /\ UNCHANGED <<mainVars, tasks, batch, timer>>

\* resp_sender.send: waits for room, and fails once the main loop has gone.
Respond(w) ==
    /\ worker[w] \in Queries /\ fate[worker[w]] = "replied"
    /\ \/ /\ running /\ Len(responses) < ResponseSize
          /\ responses' = Append(responses, worker[w])
          /\ Becomes(worker[w], "responding")
       \/ ~running /\ Becomes(worker[w], "lost") /\ UNCHANGED responses
    /\ worker' = [worker EXCEPT ![w] = Free]
    /\ UNCHANGED <<mainVars, tasks, batch, timer>>

-----------------------------------------------------------------------------
(* The main loop of batch mode.                                            *)

\* Mutant of Flush: what sendmmsg did not send stays for the next batch.
FlushKeeping(queue) ==
    \E n \in 0 .. Len(queue) :
        /\ AllBecome(ToSet(SubSeq(queue, 1, n)), "sent")
        /\ batch' = SubSeq(queue, n + 1, Len(queue))

\* BatchSender::flush: sendmmsg sends a first part, or nothing; the queue is cleared.
Flush(queue) ==
    \E n \in 0 .. Len(queue) :
        /\ fate' = [q \in Queries |->
              IF q \in ToSet(SubSeq(queue, 1, n)) THEN "sent"
              ELSE IF q \in ToSet(queue) THEN "lost"
              ELSE fate[q]]
        /\ batch' = <<>>

\* Mutant of Collect: the batch is sent one reply late.
CollectLate ==
    /\ running /\ responses # <<>>
    /\ LET queue == Append(batch, Head(responses)) IN
          \/ Len(queue) > BatchSize /\ Flush(queue) /\ timer' = FALSE
          \/ /\ Len(queue) <= BatchSize
             /\ batch' = queue /\ timer' = TRUE
             /\ Becomes(Head(responses), "batched")
    /\ responses' = Tail(responses)
    /\ UNCHANGED <<mainVars, poolVars>>

\* Branch C: a reply is pushed, and the batch sent if that fills it.
Collect ==
    /\ running /\ responses # <<>>
    /\ LET queue == Append(batch, Head(responses)) IN
          \/ Len(queue) >= BatchSize /\ Flush(queue) /\ timer' = FALSE
          \/ /\ Len(queue) < BatchSize
             /\ batch' = queue /\ timer' = TRUE
             /\ Becomes(Head(responses), "batched")
    /\ responses' = Tail(responses)
    /\ UNCHANGED <<mainVars, poolVars>>

\* Branch B.
Fire ==
    /\ running /\ timer
    /\ Flush(batch)
    /\ timer' = FALSE
    /\ UNCHANGED <<mainVars, poolVars, responses>>

\* Branch A, in either loop.  What the main loop owns goes with it; workers go on.
Stop ==
    /\ mode \notin Connections /\ running
    /\ running' = FALSE
    /\ AllBecome(ToSet(responses) \cup ToSet(batch), "lost")
    /\ responses' = <<>> /\ batch' = <<>> /\ timer' = FALSE
    /\ UNCHANGED <<mode, binding, poolVars>>

-----------------------------------------------------------------------------
(* A connection.                                                           *)

Busy == \E q \in Queries : fate[q] \in {"reading", "handled"}

\* On TCP there is one query to a connection, on DoT one after the other; on DoQ and DoH
\* each has a task of its own.
NextOnTcp == mode = "tcp" /\ \A q \in Queries : fate[q] = "new"
NextOnDot == mode = "dot" /\ ~Busy
NextOnDoq == mode = "doq"
NextOnDoh == mode = "doh"

Accept(q) ==
    /\ running
    /\ fate[q] = "new"
    /\ NextOnTcp \/ NextOnDot \/ NextOnDoq \/ NextOnDoh
    /\ Becomes(q, "reading")
    /\ UNCHANGED <<mainVars, poolVars, sendVars>>

\* The message is read, or the read fails or times out, which ends the connection where
\* it is read in turn.
Read(q) ==
    /\ fate[q] = "reading"
    /\ \/ Becomes(q, "handled") /\ UNCHANGED running
       \/ Becomes(q, "lost") /\ running' = (running /\ mode \notin {"tcp", "dot"})
    /\ UNCHANGED <<mode, binding, poolVars, sendVars>>

\* DoH has an error status for no reply; the others keep silent.
NoResponse == IF mode = "doh" THEN "sent" ELSE "silent"

\* A write that fails ends the connection like a read.
Answer(q) ==
    /\ mode \in Connections
    /\ fate[q] = "handled"
    /\ \/ /\ \E end \in {"sent", NoResponse} : Becomes(q, end)
          /\ running' = (running /\ mode # "tcp")
       \/ Becomes(q, "lost") /\ running' = (running /\ mode \notin {"tcp", "dot"})
    /\ UNCHANGED <<mode, binding, poolVars, sendVars>>

-----------------------------------------------------------------------------
Next ==
    \/ Bind \/ BindFails
    \/ \E q \in Queries :
          Receive(q) \/ ReceiveBatch(q) \/ Accept(q) \/ Read(q) \/ Answer(q)
    \/ \E w \in Workers : Take(w) \/ Handle(w) \/ Panic(w) \/ Respond(w)
    \/ Collect \/ Fire \/ Stop

\* Workers and the main loop go on, handlers return (they have timeouts), the timer
\* fires, and an answer is not held up for ever.  That a message is ever read is up to
\* the client, except on DoT, which has a timeout.
Progress ==
    /\ \A w \in Workers :
          WF_serverVars(Take(w)) /\ WF_serverVars(Handle(w)) /\ WF_serverVars(Respond(w))
    /\ WF_serverVars(Collect) /\ WF_serverVars(Fire)
    /\ \A q \in Queries :
          WF_serverVars(Answer(q)) /\ WF_serverVars(mode = "dot" /\ Read(q))

Spec == Init /\ [][Next]_serverVars /\ Progress

-----------------------------------------------------------------------------
(* A reply in the batch is sent within FLUSH_DELAY: whatever order replies,*)
(* timer and partial sends come in, there is a timer while there is a batch*)
(* (server.rs:428-439, 419-424; batch_sender.rs:101), or the replies would *)
(* wait for those of other queries.                                        *)
NoReplyStranded == batch # <<>> => timer

(* A packet that was queued and a query that was read come to an end       *)
(* (server.rs:276, 379, 722, 804), with full channels, a main loop that    *)
(* stops and workers that die, unless no worker is left.                   *)
QueriesSettle ==
    \A q \in Queries :
        fate[q] \in UnderWay \ {"reading"} ~> (fate[q] \in Ended \/ Alive = {})
=============================================================================
