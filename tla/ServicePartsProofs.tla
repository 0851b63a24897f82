------------------------- MODULE ServicePartsProofs -------------------------
(***************************************************************************)
(* Proofs about MCService's six components, for any workers, queries,      *)
(* queues, pools, names, configurations and programs, and any bounds:      *)
(*   - Server: a reply that waits in the batch has a timer;                *)
(*   - Transport: its types, from the invariant of TransportProofs;        *)
(*   - KernelCache: the age of what the kernel answers with;               *)
(*   - Registry: what is wired is closed;                                  *)
(*   - Resolver: no two calls under way look up the same, and each step     *)
(*     brings the lookup closer to its end;                                *)
(*   - Pipeline: what a plugin may find in a context, and what the caches  *)
(*     keep;                                                               *)
(*   - all of them side by side, as Service.cfg checks them.               *)
(* Each part has its inductive invariant, a lemma for each group of its    *)
(* actions, and the lemma that the invariant holds throughout.             *)
(***************************************************************************)
EXTENDS MCService, SequenceTheorems, FiniteSetTheorems, Integers, TLAPS

-----------------------------------------------------------------------------
(* Server: a batch has a timer, and no queue is longer than it may be.     *)

\* The inductive invariant.
ServerInv == Listener!ServerTypeOK /\ NoReplyStranded

\* What a query becomes.
Fates == {"new"} \cup Listener!UnderWay \cup Listener!Ended

\* No packet has come.
LEMMA ServerInit == ASSUME Listener!Init PROVE ServerInv
<1> USE ServerAssumption DEF Listener!Init
<1>1. <<>> \in Seq(Queries) /\ Len(<<>>) = 0
  OBVIOUS
<1>2. binding \in 0 .. BindAttempts
  BY DEF Listener!Attempts
<1>3. fate \in [Queries -> Fates]
  BY DEF Fates
<1>4. worker \in [Workers -> Queries \cup {Free, Dead}]
  OBVIOUS
<1>5. running \in BOOLEAN /\ timer \in BOOLEAN
  OBVIOUS
<1>6. /\ mode \in {"standard", "batch"} \cup Listener!Connections
      /\ tasks = <<>> /\ responses = <<>> /\ batch = <<>>
  OBVIOUS
<1> HIDE DEF Listener!Init
<1> QED
  BY <1>1, <1>2, <1>3, <1>4, <1>5, <1>6
     DEF ServerInv, Listener!ServerTypeOK, NoReplyStranded, Listener!NoReplyStranded, Fates

\* A query becomes one of its fates.
LEMMA BecomesFate ==
    ASSUME fate \in [Queries -> Fates], NEW q \in Queries, NEW end \in Fates,
           Listener!Becomes(q, end)
    PROVE  fate' \in [Queries -> Fates]
  BY DEF Listener!Becomes

\* The socket, the packets and a connection.
LEMMA ServerReceives ==
    ASSUME ServerInv,
           \/ Listener!Bind \/ Listener!BindFails
           \/ \E q \in Queries :
                 \/ Listener!Receive(q) \/ Listener!ReceiveBatch(q) \/ Listener!Accept(q)
                 \/ Listener!Read(q) \/ Listener!Answer(q)
    PROVE  ServerInv'
<1> USE ServerAssumption
<1>1. /\ binding \in 0 .. BindAttempts /\ running \in BOOLEAN
      /\ fate \in [Queries -> Fates] /\ tasks \in Seq(Queries) /\ Len(tasks) <= QueueSize
  BY DEF ServerInv, Listener!ServerTypeOK, Fates
<1>2. UNCHANGED <<mode, worker, responses, batch, timer>>
  BY DEF Listener!Bind, Listener!BindFails, Listener!Receive, Listener!ReceiveBatch,
         Listener!Accept, Listener!Read, Listener!Answer, Listener!mainVars,
         Listener!poolVars, Listener!sendVars
<1>3. binding' \in 0 .. BindAttempts
  BY <1>1
     DEF Listener!Bind, Listener!BindFails, Listener!Receive, Listener!ReceiveBatch,
         Listener!Accept, Listener!Read, Listener!Answer, Listener!mainVars
<1>4. running' \in BOOLEAN
  BY <1>1
     DEF Listener!Bind, Listener!BindFails, Listener!Receive, Listener!ReceiveBatch,
         Listener!Accept, Listener!Read, Listener!Answer, Listener!mainVars
<1>5. tasks' \in Seq(Queries) /\ Len(tasks') <= QueueSize
  <2>1. \/ tasks' = tasks
        \/ \E q \in Queries : tasks' = Append(tasks, q) /\ Len(tasks) < QueueSize
    BY DEF Listener!Bind, Listener!BindFails, Listener!Receive, Listener!ReceiveBatch,
           Listener!Accept, Listener!Read, Listener!Answer, Listener!poolVars,
           Listener!Dispatch
  <2> QED
    BY <1>1, <2>1
<1>6. fate' \in [Queries -> Fates]
  <2>1. \/ fate' = fate
        \/ \E q \in Queries, end \in Fates : Listener!Becomes(q, end)
    BY DEF Fates, Listener!UnderWay, Listener!Ended, Listener!Dispatch,
           Listener!NoResponse, Listener!Bind, Listener!BindFails, Listener!Receive,
           Listener!ReceiveBatch, Listener!Accept, Listener!Read, Listener!Answer
  <2> QED
    BY <1>1, <2>1, BecomesFate
<1> QED
  BY <1>2, <1>3, <1>4, <1>5, <1>6
     DEF ServerInv, Listener!ServerTypeOK, NoReplyStranded, Listener!NoReplyStranded, Fates

\* A worker takes a query, handles it and hands its reply over.
LEMMA ServerWorks ==
    ASSUME ServerInv, NEW w \in Workers,
           Listener!Take(w) \/ Listener!Handle(w) \/ Listener!Panic(w) \/ Listener!Respond(w)
    PROVE  ServerInv'
<1> USE ServerAssumption
<1>1. /\ fate \in [Queries -> Fates]
      /\ tasks \in Seq(Queries) /\ Len(tasks) <= QueueSize
      /\ responses \in Seq(Queries) /\ Len(responses) <= ResponseSize
      /\ worker \in [Workers -> Queries \cup {Free, Dead}]
  BY DEF ServerInv, Listener!ServerTypeOK, Fates
<1>2. UNCHANGED <<mode, binding, running, batch, timer>>
  BY DEF Listener!Take, Listener!Handle, Listener!Panic, Listener!Respond,
         Listener!mainVars, Listener!sendVars
<1>3. tasks' \in Seq(Queries) /\ Len(tasks') <= QueueSize
  <2>1. tasks' = tasks \/ (tasks # <<>> /\ tasks' = Tail(tasks))
    BY DEF Listener!Take, Listener!Handle, Listener!Panic, Listener!Respond
  <2> QED
    BY <1>1, <2>1
<1>4. responses' \in Seq(Queries) /\ Len(responses') <= ResponseSize
  <2>1. \/ responses' = responses
        \/ /\ worker[w] \in Queries /\ Len(responses) < ResponseSize
           /\ responses' = Append(responses, worker[w])
    BY DEF Listener!Take, Listener!Handle, Listener!Panic, Listener!Respond,
           Listener!sendVars
  <2> QED
    BY <1>1, <2>1
<1>5. worker' \in [Workers -> Queries \cup {Free, Dead}]
  <2>1. Listener!Take(w) => Head(tasks) \in Queries
    BY <1>1 DEF Listener!Take
  <2> QED
    BY <1>1, <2>1 DEF Listener!Take, Listener!Handle, Listener!Panic, Listener!Respond
<1>6. fate' \in [Queries -> Fates]
  <2>1. Listener!Take(w) => Head(tasks) \in Queries
    BY <1>1 DEF Listener!Take
  <2>2. \E q \in Queries, end \in Fates : Listener!Becomes(q, end)
    BY <2>1 DEF Fates, Listener!UnderWay, Listener!Ended, Listener!Take,
                Listener!Handle, Listener!Panic, Listener!Respond
  <2> QED
    BY <1>1, <2>2, BecomesFate
<1> QED
  BY <1>2, <1>3, <1>4, <1>5, <1>6
     DEF ServerInv, Listener!ServerTypeOK, NoReplyStranded, Listener!NoReplyStranded, Fates

\* The main loop of batch mode, and its end.
LEMMA ServerSends ==
    ASSUME ServerInv, Listener!Collect \/ Listener!Fire \/ Listener!Stop PROVE ServerInv'
<1> USE ServerAssumption
<1>1. /\ fate \in [Queries -> Fates]
      /\ responses \in Seq(Queries) /\ Len(responses) <= ResponseSize
      /\ batch \in Seq(Queries) /\ Len(batch) < BatchSize
      /\ running \in BOOLEAN
  BY DEF ServerInv, Listener!ServerTypeOK, Fates
<1>2. UNCHANGED <<mode, binding, tasks, worker>> /\ running' \in BOOLEAN
  BY <1>1
     DEF Listener!Collect, Listener!Fire, Listener!Stop, Listener!mainVars,
         Listener!poolVars
<1>3. <<>> \in Seq(Queries) /\ Len(<<>>) = 0 /\ 0 < BatchSize /\ 0 <= ResponseSize
  OBVIOUS
<1>4. responses' \in Seq(Queries) /\ Len(responses') <= ResponseSize
  <2>1. \/ responses' = responses \/ responses' = <<>>
        \/ responses # <<>> /\ responses' = Tail(responses)
    BY DEF Listener!Collect, Listener!Fire, Listener!Stop
  <2>2. CASE responses' = <<>>
    BY <1>3, <2>2
  <2>3. CASE responses # <<>> /\ responses' = Tail(responses)
    <3>1. responses' \in Seq(Queries) /\ Len(responses') = Len(responses) - 1
      BY <1>1, <2>3
    <3>2. Len(responses) \in Nat
      BY <1>1
    <3> QED
      BY <1>1, <3>1, <3>2
  <2> QED
    BY <1>1, <2>1, <2>2, <2>3
<1>5. /\ batch' \in Seq(Queries) /\ Len(batch') < BatchSize
      /\ timer' \in BOOLEAN /\ (batch' # <<>> => timer')
  <2>1. \/ batch' = <<>> /\ timer' = FALSE
        \/ /\ responses # <<>> /\ Len(Append(batch, Head(responses))) < BatchSize
           /\ batch' = Append(batch, Head(responses)) /\ timer' = TRUE
    BY DEF Listener!Collect, Listener!Fire, Listener!Stop, Listener!Flush
  <2>2. CASE batch' = <<>> /\ timer' = FALSE
    <3>1. batch' \in Seq(Queries) /\ Len(batch') < BatchSize
      BY <1>3, <2>2
    <3>2. timer' \in BOOLEAN
      BY <2>2
    <3> QED
      BY <2>2, <3>1, <3>2
  <2>3. CASE /\ responses # <<>> /\ Len(Append(batch, Head(responses))) < BatchSize
             /\ batch' = Append(batch, Head(responses)) /\ timer' = TRUE
    <3>1. Append(batch, Head(responses)) \in Seq(Queries)
      BY <1>1, <2>3
    <3>2. timer' \in BOOLEAN
      BY <2>3
    <3> QED
      BY <2>3, <3>1, <3>2
  <2> QED
    BY <2>1, <2>2, <2>3
<1>6. fate' \in [Queries -> Fates]
  <2>1. ASSUME NEW queue, Listener!Flush(queue) PROVE fate' \in [Queries -> Fates]
    BY <1>1, <2>1 DEF Listener!Flush, Fates, Listener!Ended
  <2>2. CASE Listener!Collect
    <3>1. Head(responses) \in Queries /\ "batched" \in Fates
      BY <1>1, <2>2 DEF Listener!Collect, Fates, Listener!UnderWay
    <3> QED
      BY <1>1, <2>1, <2>2, <3>1, BecomesFate DEF Listener!Collect
  <2>3. CASE Listener!Fire
    BY <2>1, <2>3 DEF Listener!Fire
  <2>4. CASE Listener!Stop
    BY <1>1, <2>4 DEF Listener!Stop, Listener!AllBecome, Fates, Listener!Ended
  <2> QED
    BY <2>2, <2>3, <2>4
<1> QED
  BY <1>2, <1>4, <1>5, <1>6
     DEF ServerInv, Listener!ServerTypeOK, NoReplyStranded, Listener!NoReplyStranded, Fates

\* The invariant of the server holds throughout.
LEMMA ServerHolds ==
    Listener!Init /\ [][Listener!Next]_(Listener!serverVars) => []ServerInv
<1>1. ServerInv /\ [Listener!Next]_(Listener!serverVars) => ServerInv'
  <2> SUFFICES ASSUME ServerInv, [Listener!Next]_(Listener!serverVars) PROVE ServerInv'
    OBVIOUS
  <2>1. CASE UNCHANGED Listener!serverVars
    BY <2>1
       DEF Listener!serverVars, Listener!mainVars, Listener!poolVars, Listener!sendVars,
           ServerInv, Listener!ServerTypeOK, NoReplyStranded, Listener!NoReplyStranded
  <2> QED
    BY <2>1, ServerReceives, ServerWorks, ServerSends DEF Listener!Next
<1> QED
  BY <1>1, ServerInit, PTL

\* For every number of workers and queries and every size of the queues, a reply in the
\* batch has a timer that will send it (server.rs:428-439, batch_sender.rs:101).
THEOREM BatchesHaveTimers == Listener!Spec => []NoReplyStranded
<1>1. ServerInv => NoReplyStranded
  BY DEF ServerInv
<1> QED
  BY <1>1, ServerHolds, PTL DEF Listener!Spec

-----------------------------------------------------------------------------
(* Transport: the argument is made in TransportProofs, of the module by    *)
(* itself; here it is brought to the instance.                             *)

UpstreamLaws == INSTANCE TransportProofs

\* The instance starts like the module of the proofs.
LEMMA SameInit == Upstream!Init <=> UpstreamLaws!Init
  BY Zenon DEF Upstream!Init, UpstreamLaws!Init, Upstream!Conduits, UpstreamLaws!Conduits

\* It has the same steps.
LEMMA SameStep ==
    [Upstream!Next]_(Upstream!transportVars)
        <=> [UpstreamLaws!Next]_(UpstreamLaws!transportVars)
  BY Zenon DEF Upstream!ToSet, UpstreamLaws!ToSet, Upstream!Front, UpstreamLaws!Front,
       Upstream!Last, UpstreamLaws!Last, Upstream!transportVars,
       UpstreamLaws!transportVars, Upstream!Conduits, UpstreamLaws!Conduits,
       Upstream!Datagrams, UpstreamLaws!Datagrams, Upstream!Awaiting,
       UpstreamLaws!Awaiting, Upstream!Goes, UpstreamLaws!Goes, Upstream!Sent,
       UpstreamLaws!Sent, Upstream!InUse, UpstreamLaws!InUse, Upstream!Closed,
       UpstreamLaws!Closed, Upstream!Locked, UpstreamLaws!Locked, Upstream!BeginUdp,
       UpstreamLaws!BeginUdp, Upstream!BeginTcp, UpstreamLaws!BeginTcp,
       Upstream!BeginDot, UpstreamLaws!BeginDot, Upstream!BeginDoq,
       UpstreamLaws!BeginDoq, Upstream!BeginTunnel, UpstreamLaws!BeginTunnel,
       Upstream!Begin, UpstreamLaws!Begin, Upstream!Open, UpstreamLaws!Open,
       Upstream!Associate, UpstreamLaws!Associate, Upstream!AskTunnel,
       UpstreamLaws!AskTunnel, Upstream!Retry, UpstreamLaws!Retry, Upstream!Take,
       UpstreamLaws!Take, Upstream!Truncated, UpstreamLaws!Truncated, Upstream!Return,
       UpstreamLaws!Return, Upstream!GiveUp, UpstreamLaws!GiveUp, Upstream!Lose,
       UpstreamLaws!Lose, Upstream!Next, UpstreamLaws!Next

\* And the same types.
LEMMA SameTypes == Upstream!TransportTypeOK <=> UpstreamLaws!TransportTypeOK
  BY Zenon
     DEF Upstream!TransportTypeOK, UpstreamLaws!TransportTypeOK, Upstream!Conduits,
         UpstreamLaws!Conduits, Upstream!Awaiting, UpstreamLaws!Awaiting,
         Upstream!IsInjective, UpstreamLaws!IsInjective, Upstream!Over, UpstreamLaws!Over

\* The types of the transport hold throughout.
LEMMA TransportHolds ==
    Upstream!Init /\ [][Upstream!Next]_(Upstream!transportVars)
        => []Upstream!TransportTypeOK
<1>1. UpstreamLaws!ConduitsDiffer
  BY ConduitsAreDifferent
     DEF Upstream!ConduitsDiffer, UpstreamLaws!ConduitsDiffer, Upstream!Conduits,
         UpstreamLaws!Conduits
<1>2. UpstreamLaws!Spec => []UpstreamLaws!TransportTypeOK
  BY <1>1, TransportAssumption, UpstreamLaws!TransportIsTyped
<1> QED
  BY <1>2, SameInit, SameStep, SameTypes, PTL DEF UpstreamLaws!Spec

-----------------------------------------------------------------------------
(* KernelCache: how late an answer can come into the kernel.               *)

\* An entry of the kernel ends no later than its own TTL, the grace and the time that a
\* write may wait after it was fetched.
Kept ==
    /\ DOMAIN kernel = Names
    /\ \A n \in Names : kernel[n] # None =>
          kernel[n].expires <= kernel[n].fetched + kernel[n].ttl + Grace + Lag

\* What a write hands over: the whole TTL at the time of the fetch, or what was left of it
\* when the warm-up began.
Waiting ==
    \A w \in pending :
        /\ w.since <= now /\ now <= w.since + Lag
        /\ IF w.by = "warm"
           THEN warm # None /\ w.left + warm.since <= w.fetched + w.ttl
           ELSE w.left = w.ttl /\ w.since = w.fetched

\* A warm-up under way began no longer ago than a write may wait.
WarmsUp == warm # None => warm.since <= now /\ now <= warm.since + Lag

\* The inductive invariant.
KernelInv == Xdp!KernelCacheTypeOK /\ Kept /\ Waiting /\ WarmsUp

\* TTLs and times are numbers.
LEMMA KernelNumbers == Ttls \subseteq Nat /\ Xdp!Times \subseteq Nat
  BY KernelAssumption DEF Xdp!Times

\* The kernel's cache is empty.
LEMMA KernelInit == ASSUME Xdp!Init PROVE KernelInv
<1> USE KernelAssumption DEF Xdp!Init, Xdp!Times
<1>1. now \in 0 .. EndOfTime /\ now \in Nat
  OBVIOUS
<1>2. user \in [Names -> Xdp!Entries \cup {None}]
  BY DEF Xdp!Entries
<1>3. ring \in Seq(Names) /\ Len(ring) = 0
  OBVIOUS
<1>4. warm \in [since : 0 .. EndOfTime, left : SUBSET Names]
  BY <1>1
<1>5. warm.since = now
  OBVIOUS
<1> QED
  BY <1>1, <1>2, <1>3, <1>4, <1>5
     DEF KernelInv, Kept, Waiting, WarmsUp, Xdp!KernelCacheTypeOK

\* What is fetched now.
LEMMA FetchedNow ==
    ASSUME Xdp!KernelCacheTypeOK, NEW ttl \in Ttls
    PROVE  /\ Xdp!Fetched(ttl) \in Xdp!Entries
           /\ \A by \in {"sync", "refresh"}, n \in Names, ok \in BOOLEAN :
                 LET w == Xdp!Write(by, n, Xdp!Fetched(ttl), ttl, ok) IN
                 /\ w \in Xdp!Writes
                 /\ w.by # "warm" /\ w.left = w.ttl /\ w.since = w.fetched /\ w.since = now
  BY KernelAssumption
     DEF Xdp!KernelCacheTypeOK, Xdp!Fetched, Xdp!Entries, Xdp!Write, Xdp!Writes, Xdp!Times

\* An answer or a refresh comes in.
LEMMA KernelFetch ==
    ASSUME KernelInv, NEW n \in Names,
           Xdp!OnResponse(n) \/ Xdp!OnPrefetch(n) \/ Xdp!Refreshed(n) \/ Xdp!RefreshFails(n)
    PROVE  KernelInv'
<1> USE KernelAssumption
<1>1. Xdp!KernelCacheTypeOK /\ now \in Nat /\ Lag \in Nat
  BY DEF KernelInv, Xdp!KernelCacheTypeOK, Xdp!Times
<1>2. user' \in [Names -> Xdp!Entries \cup {None}]
  BY <1>1, FetchedNow
     DEF Xdp!KernelCacheTypeOK, Xdp!OnResponse, Xdp!OnPrefetch, Xdp!Refreshed,
         Xdp!RefreshFails
<1>3. \A w \in pending' : w \in pending \/
         (w \in Xdp!Writes /\ w.by # "warm" /\ w.left = w.ttl /\ w.since = w.fetched
            /\ w.since = now)
  BY <1>1, FetchedNow
     DEF Xdp!OnResponse, Xdp!OnPrefetch, Xdp!Refreshed, Xdp!RefreshFails
<1>4. UNCHANGED <<now, kernel, reverse, ring, dedup, warm>> /\ refreshing' \subseteq refreshing
  BY DEF Xdp!OnResponse, Xdp!OnPrefetch, Xdp!Refreshed, Xdp!RefreshFails
<1>5. Xdp!KernelCacheTypeOK'
  BY <1>1, <1>2, <1>3, <1>4 DEF Xdp!KernelCacheTypeOK
<1>6. Waiting'
  BY <1>1, <1>3, <1>4 DEF KernelInv, Waiting
<1> QED
  BY <1>4, <1>5, <1>6 DEF KernelInv, Kept, WarmsUp

\* The warm-up visits an entry, or ends.
LEMMA KernelWarm ==
    ASSUME KernelInv, Xdp!WarmEnd \/ \E n \in Names : Xdp!WarmVisit(n)
    PROVE  KernelInv'
<1> USE KernelAssumption
<1>1. /\ Xdp!KernelCacheTypeOK /\ now \in Nat
      /\ warm # None /\ warm \in [since : Xdp!Times, left : SUBSET Names]
  BY DEF KernelInv, Xdp!KernelCacheTypeOK, Xdp!Times, Xdp!WarmEnd, Xdp!WarmVisit
<1>2. CASE Xdp!WarmEnd
  BY <1>1, <1>2 DEF KernelInv, Xdp!KernelCacheTypeOK, Kept, Waiting, WarmsUp, Xdp!WarmEnd
<1>3. ASSUME NEW n \in Names, Xdp!WarmVisit(n) PROVE KernelInv'
  <2>1. warm' = [warm EXCEPT !.left = @ \ {n}]
        /\ UNCHANGED <<now, user, kernel, reverse, ring, dedup, refreshing>>
    BY <1>3 DEF Xdp!WarmVisit
  <2>2. warm' \in [since : Xdp!Times, left : SUBSET Names] /\ warm'.since = warm.since
    BY <1>1, <2>1
  <2> DEFINE remains == Xdp!Left(user[n], warm.since)
  <2>3. PICK ok \in BOOLEAN :
          pending' = IF user[n] # None /\ remains > 0
                     THEN pending \cup {Xdp!Write("warm", n, user[n], remains, ok)}
                     ELSE pending
    BY <1>3 DEF Xdp!WarmVisit
  <2> DEFINE w == Xdp!Write("warm", n, user[n], remains, ok)
  <2>4. ASSUME user[n] # None, remains > 0
        PROVE  /\ w \in Xdp!Writes /\ w.by = "warm" /\ w.since = now
               /\ w.left + warm.since <= w.fetched + w.ttl
    <3>1. /\ user[n] \in Xdp!Entries
          /\ user[n].fetched \in Nat /\ user[n].ttl \in Nat /\ warm.since \in Nat
      <4>1. user[n] \in Xdp!Entries
        BY <1>1, <2>4 DEF Xdp!KernelCacheTypeOK
      <4>2. warm.since \in Nat
        BY <1>1 DEF Xdp!Times
      <4> QED
        BY <4>1, <4>2, KernelNumbers DEF Xdp!Entries
    <3>2. remains \in Nat /\ remains + warm.since <= user[n].fetched + user[n].ttl
      BY <2>4, <3>1 DEF Xdp!Left
    <3> HIDE DEF remains
    <3> QED
      BY <1>1, <3>1, <3>2 DEF Xdp!Write, Xdp!Writes, Xdp!KernelCacheTypeOK, Xdp!Entries
  <2> HIDE DEF remains, w
  <2>5. \A v \in pending' : v \in pending \/
           (v \in Xdp!Writes /\ v.by = "warm" /\ v.since = now
              /\ v.left + warm.since <= v.fetched + v.ttl)
    BY <2>3, <2>4 DEF w
  <2>6. warm' # None
    <3>1. warm' \in [since : Nat, left : SUBSET Names]
      BY <2>2, KernelNumbers
    <3> QED
      BY <3>1, NoneIsNoWarmUp
  <2>7. Waiting'
    BY <1>1, <2>1, <2>2, <2>5, <2>6 DEF KernelInv, Waiting
  <2>8. Xdp!KernelCacheTypeOK'
    BY <1>1, <2>1, <2>2, <2>5 DEF Xdp!KernelCacheTypeOK
  <2> QED
    BY <1>1, <2>1, <2>2, <2>7, <2>8 DEF KernelInv, Kept, WarmsUp
<1> QED
  BY <1>2, <1>3

\* A write gets the mutex.
LEMMA KernelWrite ==
    ASSUME KernelInv, NEW w \in pending, Xdp!UpdateCache(w) PROVE KernelInv'
<1> USE KernelAssumption
<1>1. /\ Xdp!KernelCacheTypeOK /\ now \in Xdp!Times /\ now \in Nat
      /\ w \in Xdp!Writes /\ w.name \in Names
  BY DEF KernelInv, Xdp!KernelCacheTypeOK, Xdp!Times, Xdp!Writes
<1> DEFINE entry == [fetched |-> w.fetched, ttl |-> w.ttl, expires |-> now + w.left + Grace,
                     event |-> now, ok |-> w.ok]
<1>2. /\ kernel' = [kernel EXCEPT ![w.name] = entry]
      /\ pending' \subseteq pending /\ reverse' \subseteq Names
      /\ UNCHANGED <<now, user, ring, dedup, refreshing, warm>>
  BY <1>1 DEF Xdp!UpdateCache, Xdp!KernelCacheTypeOK
<1>3. entry \in [fetched : Xdp!Times, ttl : Ttls, expires : Nat, event : Xdp!Times,
                 ok : BOOLEAN]
  BY <1>1 DEF Xdp!Writes
<1>4. entry.expires <= entry.fetched + entry.ttl + Grace + Lag
  <2>1. w.left \in Nat /\ w.since \in Nat /\ w.fetched \in Nat /\ w.ttl \in Nat
    BY <1>1, KernelNumbers DEF Xdp!Writes
  <2>2. CASE w.by = "warm"
    <3>1. /\ w.left + warm.since <= w.fetched + w.ttl /\ now <= warm.since + Lag
          /\ warm.since \in Nat
      BY <1>1, <2>2 DEF KernelInv, Waiting, WarmsUp, Xdp!KernelCacheTypeOK, Xdp!Times
    <3> QED
      BY <1>1, <2>1, <3>1
  <2>3. CASE w.by # "warm"
    BY <1>1, <2>1, <2>3 DEF KernelInv, Waiting
  <2> QED
    BY <2>2, <2>3
<1> HIDE DEF entry
<1>5. /\ DOMAIN kernel' = Names
      /\ \A n \in Names : kernel'[n] = kernel[n] \/ kernel'[n] = entry
  BY <1>2 DEF KernelInv, Kept
<1> QED
  BY <1>1, <1>2, <1>3, <1>4, <1>5
     DEF KernelInv, Xdp!KernelCacheTypeOK, Kept, Waiting, WarmsUp

\* The program in the kernel, a poll, and what ends by itself or with time.
LEMMA KernelRest ==
    ASSUME KernelInv,
           \/ \E n \in Names : \/ Xdp!Hit(n) \/ Xdp!UserForgets(n)
                               \/ Xdp!ReverseForgets(n) \/ Xdp!KernelForgets(n)
           \/ Xdp!Poll \/ Xdp!Tick
    PROVE  KernelInv'
<1> USE KernelAssumption
<1>1. /\ Xdp!KernelCacheTypeOK /\ now \in Xdp!Times /\ now \in Nat
      /\ ring \in Seq(Names) /\ Len(ring) <= RingSize
  BY DEF KernelInv, Xdp!KernelCacheTypeOK, Xdp!Times
<1>2. ASSUME NEW n \in Names, Xdp!Hit(n) PROVE KernelInv'
  <2>1. kernel[n] # None
    BY <1>2 DEF Xdp!Hit, Xdp!Served
  <2> DEFINE entry == [kernel[n] EXCEPT !.event = now]
  <2>2. kernel' = [kernel EXCEPT ![n] = entry]
        /\ UNCHANGED <<now, user, reverse, dedup, refreshing, pending, warm>>
    BY <1>2 DEF Xdp!Hit
  <2>3. ring' \in Seq(Names) /\ Len(ring') <= RingSize
    BY <1>1, <1>2 DEF Xdp!Hit
  <2>4. kernel[n] \in [fetched : Xdp!Times, ttl : Ttls, expires : Nat, event : Xdp!Times,
                       ok : BOOLEAN]
    BY <1>1, <2>1 DEF Xdp!KernelCacheTypeOK
  <2>5. /\ entry \in [fetched : Xdp!Times, ttl : Ttls, expires : Nat, event : Xdp!Times,
                      ok : BOOLEAN]
        /\ entry.expires <= entry.fetched + entry.ttl + Grace + Lag
    BY <1>1, <2>1, <2>4 DEF KernelInv, Kept
  <2> HIDE DEF entry
  <2>6. /\ DOMAIN kernel' = Names
        /\ \A m \in Names : kernel'[m] = kernel[m] \/ kernel'[m] = entry
    BY <2>2 DEF KernelInv, Kept
  <2> QED
    BY <1>1, <2>2, <2>3, <2>5, <2>6
       DEF KernelInv, Xdp!KernelCacheTypeOK, Kept, Waiting, WarmsUp
<1>3. ASSUME NEW n \in Names,
             Xdp!UserForgets(n) \/ Xdp!ReverseForgets(n) \/ Xdp!KernelForgets(n)
      PROVE  KernelInv'
  <2>1. /\ UNCHANGED <<now, ring, dedup, refreshing, pending, warm>>
        /\ reverse' \subseteq reverse
        /\ user' \in [Names -> Xdp!Entries \cup {None}]
        /\ kernel' = kernel \/ kernel' = [kernel EXCEPT ![n] = None]
    BY <1>1, <1>3
       DEF Xdp!KernelCacheTypeOK, Xdp!UserForgets, Xdp!ReverseForgets, Xdp!KernelForgets
  <2>2. /\ DOMAIN kernel' = Names
        /\ \A m \in Names : kernel'[m] = kernel[m] \/ kernel'[m] = None
    BY <2>1 DEF KernelInv, Kept
  <2> QED
    BY <1>1, <2>1, <2>2 DEF KernelInv, Xdp!KernelCacheTypeOK, Kept, Waiting, WarmsUp
<1>4. CASE Xdp!Poll
  <2>1. /\ UNCHANGED <<now, user, kernel, reverse, pending, warm>>
        /\ dedup' \in [Names -> Xdp!Times \cup {None}]
        /\ refreshing' \subseteq Names
        /\ ring' = SubSeq(ring, EventsPerPoll + 2, Len(ring))
    BY <1>1, <1>4 DEF Xdp!KernelCacheTypeOK, Xdp!Poll
  <2>2. ring' \in Seq(Names) /\ Len(ring') <= RingSize
    BY <1>1, <2>1
  <2> QED
    BY <1>1, <2>1, <2>2 DEF KernelInv, Xdp!KernelCacheTypeOK, Kept, Waiting, WarmsUp
<1>5. CASE Xdp!Tick
  <2>1. /\ now' = now + 1 /\ now < EndOfTime
        /\ UNCHANGED <<user, kernel, reverse, ring, dedup, refreshing, pending, warm>>
        /\ \A w \in pending : now < w.since + Lag
        /\ warm # None => now < warm.since + Lag
    BY <1>5 DEF Xdp!Tick
  <2>2. now' \in Xdp!Times
    BY <1>1, <2>1 DEF Xdp!Times
  <2>3. \A w \in pending : w.since \in Nat
    BY <1>1, KernelNumbers DEF Xdp!KernelCacheTypeOK, Xdp!Writes
  <2>4. warm # None => warm.since \in Nat
    BY <1>1, KernelNumbers DEF Xdp!KernelCacheTypeOK
  <2>5. Waiting' /\ WarmsUp'
    BY <1>1, <2>1, <2>3, <2>4 DEF KernelInv, Waiting, WarmsUp
  <2> QED
    BY <1>1, <2>1, <2>2, <2>5 DEF KernelInv, Xdp!KernelCacheTypeOK, Kept
<1> QED
  BY <1>2, <1>3, <1>4, <1>5

\* The invariant of the kernel's cache holds throughout.
LEMMA KernelHolds == Xdp!Spec => []KernelInv
<1>1. KernelInv /\ [Xdp!Next]_(Xdp!kernelVars) => KernelInv'
  <2> SUFFICES ASSUME KernelInv, [Xdp!Next]_(Xdp!kernelVars) PROVE KernelInv'
    OBVIOUS
  <2>1. CASE UNCHANGED Xdp!kernelVars
    BY <2>1
       DEF Xdp!kernelVars, KernelInv, Xdp!KernelCacheTypeOK, Kept, Waiting, WarmsUp
  <2> QED
    BY <2>1, KernelFetch, KernelWarm, KernelWrite, KernelRest DEF Xdp!Next
<1> QED
  BY <1>1, KernelInit, PTL DEF Xdp!Spec

\* However the writers overtake each other, and however long a write waits for the mutex,
\* the kernel answers with nothing that is older than its TTL, the grace and that wait
\* (bpf.rs:135, cache.rs:1057, titan_filter.c:246).
THEOREM KernelAgeIsBounded == Xdp!Spec => []KernelAgeBounded
<1>1. KernelInv => KernelAgeBounded
  <2> SUFFICES ASSUME KernelInv, NEW n \in Names, Xdp!Served(n)
               PROVE  now - kernel[n].fetched <= kernel[n].ttl + Grace + Lag
    BY DEF KernelAgeBounded, Xdp!KernelAgeBounded
  <2>1. kernel[n] # None /\ now <= kernel[n].expires
    BY DEF Xdp!Served
  <2>2. /\ now \in Nat /\ kernel[n].fetched \in Nat /\ kernel[n].ttl \in Nat
        /\ kernel[n].expires \in Nat
    BY <2>1, KernelNumbers DEF KernelInv, Xdp!KernelCacheTypeOK
  <2>3. kernel[n].expires <= kernel[n].fetched + kernel[n].ttl + Grace + Lag
    BY <2>1 DEF KernelInv, Kept
  <2> QED
    BY <2>1, <2>2, <2>3, KernelAssumption
<1> QED
  BY <1>1, KernelHolds, PTL

-----------------------------------------------------------------------------
(* Registry: what has been tried, and what it lacked.                      *)

\* The names that a pass has yet to try, or that wait for the next one.
In(s) == {s[i] : i \in 1 .. Len(s)}

\* A fallback that was tried is built, or something it needs was not; what is built since
\* is a fallback or a sequence.
FallbacksTried ==
    built \in {"fallbacks", "sequences", "built"} =>
        \A f \in Factory!Fallbacks :
           LET needs == Factory!Config.fallbacks[f] IN
           /\ f \in registry \ (shared \cup entries) => needs \subseteq registry
           /\ \/ built = "fallbacks" /\ f \in In(todo)
              \/ f \in registry
              \/ ~(needs \subseteq registry)
              \/ needs \cap (Factory!Fallbacks \cup Factory!SequenceNames) # {}

\* A sequence is built or has its turn to come; one that waits lacked something when it
\* was tried, and still does unless another was built since.
SequencesTried ==
    built \in {"sequences", "built"} =>
        /\ \A s \in Factory!SequenceNames :
              \/ s \in entries \/ s \in In(waiting)
              \/ built = "sequences" /\ s \in In(todo)
        /\ \A s \in entries :
              s \in Factory!SequenceNames /\ Factory!Config.sequences[s] \subseteq registry
        /\ ~progress => \A s \in In(waiting) : ~(Factory!Config.sequences[s] \subseteq registry)

\* What a pass takes is of its own kind.
Turns ==
    /\ built = "fallbacks" => todo \in Seq(Factory!Fallbacks) /\ entries = {}
    /\ built = "sequences" =>
          todo \in Seq(Factory!SequenceNames) /\ waiting \in Seq(Factory!SequenceNames)
    /\ built = "sequences" => idle <= MaxIdle
    /\ built = "built" => ~progress /\ waiting \in Seq(Factory!SequenceNames)

\* The inductive invariant.
RegistryInv == Factory!RegistryTypeOK /\ FallbacksTried /\ SequencesTried /\ Turns

\* Finite sets are the same for the module that is instantiated.
LEMMA FiniteSetsAgree ==
    ASSUME NEW S
    PROVE  /\ Factory!IsFiniteSet(S) <=> IsFiniteSet(S)
           /\ Factory!Cardinality(S) = Cardinality(S)
  BY DEF Factory!IsFiniteSet, IsFiniteSet, Factory!Cardinality, Cardinality

\* An order of a set has all of it.
LEMMA OrderHasAll ==
    ASSUME NEW S, IsFiniteSet(S), NEW s \in Factory!SetToSeqs(S)
    PROVE  s \in Seq(S) /\ In(s) = S
<1> DEFINE n == Cardinality(S)
<1>1. n \in Nat /\ IsFiniteSet(1 .. n) /\ Cardinality(1 .. n) = n
  BY FS_CardinalityType, FS_Interval
<1>2. s \in [1 .. n -> S] /\ \A i, j \in 1 .. n : i # j => s[i] # s[j]
  BY FiniteSetsAgree DEF Factory!SetToSeqs
<1>3. s \in Injection(1 .. n, S)
  BY <1>2 DEF Injection, IsInjective
<1>4. s \in Surjection(1 .. n, S)
  BY <1>1, <1>3, FS_Injection
<1>5. s \in Seq(S) /\ Len(s) = n
  BY <1>1, <1>2, SeqDef
<1> QED
  BY <1>2, <1>4, <1>5 DEF Surjection, In

\* The first of a sequence and the others.
LEMMA HeadAndTail ==
    ASSUME NEW S, NEW s \in Seq(S), s # <<>>
    PROVE  /\ Head(s) \in S /\ Tail(s) \in Seq(S)
           /\ In(s) = In(Tail(s)) \cup {Head(s)}
<1>1. /\ Len(s) \in Nat \ {0} /\ Head(s) = s[1] /\ Tail(s) \in Seq(S)
      /\ Len(Tail(s)) = Len(s) - 1
      /\ \A i \in 1 .. Len(s) - 1 : Tail(s)[i] = s[i + 1]
  OBVIOUS
<1>2. \A i \in 1 .. Len(s) : i = 1 \/ (i - 1 \in 1 .. Len(s) - 1 /\ s[i] = Tail(s)[i - 1])
  BY <1>1
<1>3. \A i \in 1 .. Len(s) - 1 : i + 1 \in 1 .. Len(s)
  BY <1>1
<1>4. In(s) \subseteq In(Tail(s)) \cup {Head(s)}
  BY <1>1, <1>2 DEF In
<1>5. In(Tail(s)) \cup {Head(s)} \subseteq In(s)
  <2>1. Head(s) \in In(s)
    BY <1>1 DEF In
  <2>2. ASSUME NEW i \in 1 .. Len(Tail(s)) PROVE Tail(s)[i] \in In(s)
    BY <1>1, <1>3 DEF In
  <2> QED
    BY <2>1, <2>2 DEF In
<1> QED
  BY <1>1, <1>4, <1>5

\* One more.
LEMMA AppendedIn ==
    ASSUME NEW S, NEW s \in Seq(S), NEW x \in S
    PROVE  Append(s, x) \in Seq(S) /\ In(Append(s, x)) = In(s) \cup {x}
<1>1. /\ Append(s, x) \in Seq(S) /\ Len(Append(s, x)) = Len(s) + 1 /\ Len(s) \in Nat
      /\ Append(s, x)[Len(s) + 1] = x
      /\ \A i \in 1 .. Len(s) : Append(s, x)[i] = s[i]
  OBVIOUS
<1>2. \A i \in 1 .. Len(s) + 1 : i = Len(s) + 1 \/ i \in 1 .. Len(s)
  BY <1>1
<1>3. Len(s) + 1 \in 1 .. Len(s) + 1 /\ \A i \in 1 .. Len(s) : i \in 1 .. Len(s) + 1
  BY <1>1
<1> QED
  BY <1>1, <1>2, <1>3 DEF In

\* What a configuration names is a name.
LEMMA NamesOfConfig ==
    ASSUME config \in DOMAIN Configs
    PROVE  /\ Factory!Config.shared \subseteq Factory!AllNames
           /\ Factory!Config.forwards \subseteq Factory!AllNames
           /\ DOMAIN Factory!Config.smarts \subseteq Factory!AllNames
           /\ Factory!Fallbacks \subseteq Factory!AllNames
           /\ Factory!SequenceNames \subseteq Factory!AllNames
           /\ IsFiniteSet(Factory!Fallbacks) /\ IsFiniteSet(Factory!SequenceNames)
           /\ Factory!Fallbacks
                 \cap (Factory!Config.forwards \cup DOMAIN Factory!Config.smarts)
                 = {}
<1>1. Factory!Config \in Factory!Range(Configs)
  BY DEF Factory!Config, Factory!Range
<1>2. /\ Factory!Config.shared \subseteq Factory!AllNames
      /\ Factory!Config.forwards \subseteq Factory!AllNames
      /\ DOMAIN Factory!Config.smarts \subseteq Factory!AllNames
      /\ Factory!Fallbacks \subseteq Factory!AllNames
      /\ Factory!SequenceNames \subseteq Factory!AllNames
  BY <1>1 DEF Factory!AllNames, Factory!Fallbacks, Factory!SequenceNames
<1> QED
  BY <1>2, ConfigsAreRead, FiniteSetsAgree
     DEF Factory!ConfigsRead, Factory!Fallbacks, Factory!SequenceNames, Factory!Config

\* Nothing has been built.
LEMMA RegistryInit == ASSUME Factory!Init PROVE RegistryInv
<1> USE RegistryAssumption DEF Factory!Init
<1>1. todo \in Seq(Factory!AllNames) /\ waiting \in Seq(Factory!AllNames)
  OBVIOUS
<1>2. 1 \in 1 .. MaxLoads /\ 0 \in 0 .. MaxIdle + 1
  OBVIOUS
<1> QED
  BY <1>1, <1>2
     DEF RegistryInv, FallbacksTried, SequencesTried, Turns, Factory!RegistryTypeOK

\* The first configuration's shared plugins, forwarders, and the next configuration.
LEMMA RegistryStart ==
    ASSUME RegistryInv,
           Factory!CreateSharedPlugins \/ Factory!CreateForwards \/ Factory!Reload
    PROVE  RegistryInv'
<1>1. Factory!RegistryTypeOK /\ config \in DOMAIN Configs
  BY DEF RegistryInv, Factory!RegistryTypeOK
<1>2. CASE Factory!CreateSharedPlugins
  <2>1. shared' \subseteq Factory!AllNames
    BY <1>1, <1>2, NamesOfConfig DEF Factory!CreateSharedPlugins
  <2> QED
    BY <1>1, <1>2, <2>1
       DEF RegistryInv, FallbacksTried, SequencesTried, Turns, Factory!RegistryTypeOK,
           Factory!CreateSharedPlugins
<1>3. CASE Factory!CreateForwards
  <2>1. /\ built' = "fallbacks" /\ entries' = {}
        /\ UNCHANGED <<config, loads, shared, waiting, progress, idle>>
        /\ todo' \in Factory!SetToSeqs(Factory!Fallbacks)
    BY <1>3 DEF Factory!CreateForwards
  <2>2. todo' \in Seq(Factory!Fallbacks) /\ In(todo') = Factory!Fallbacks
    BY <1>1, <2>1, NamesOfConfig, OrderHasAll
  <2>3. /\ registry' \subseteq shared \cup Factory!Config.forwards
                                  \cup DOMAIN Factory!Config.smarts
    BY <1>3 DEF Factory!CreateForwards, Factory!ForwardsMade, Factory!SmartsMade
  <2>4. \A f \in Factory!Fallbacks : f \notin registry' \ shared
    BY <1>1, <2>3, NamesOfConfig
  <2>5. Factory!Fallbacks' = Factory!Fallbacks /\ Factory!Config' = Factory!Config
    BY <2>1 DEF Factory!Fallbacks, Factory!Config
  <2>6. todo' \in Seq(Factory!AllNames)
    BY <1>1, <2>2, NamesOfConfig
  <2>7. registry' \subseteq Factory!AllNames
    BY <1>1, <2>3, NamesOfConfig DEF Factory!RegistryTypeOK
  <2>8. Factory!RegistryTypeOK'
    BY <1>1, <2>1, <2>6, <2>7 DEF Factory!RegistryTypeOK
  <2>9. FallbacksTried'
    BY <2>1, <2>2, <2>4, <2>5 DEF FallbacksTried
  <2> QED
    BY <2>1, <2>2, <2>5, <2>8, <2>9 DEF RegistryInv, SequencesTried, Turns
<1>4. CASE Factory!Reload
  <2>1. waiting' \in Seq(Factory!AllNames)
    BY <1>4 DEF Factory!Reload
  <2>2. loads' \in 1 .. MaxLoads
    BY <1>1, <1>4, RegistryAssumption DEF Factory!Reload, Factory!RegistryTypeOK
  <2> QED
    BY <1>1, <1>4, <2>1, <2>2
       DEF RegistryInv, FallbacksTried, SequencesTried, Turns, Factory!RegistryTypeOK,
           Factory!Reload
<1> QED
  BY <1>2, <1>3, <1>4

\* A fallback is built if what it needs is there.
LEMMA RegistryFallback ==
    ASSUME RegistryInv, Factory!BuildFallback PROVE RegistryInv'
<1>1. /\ Factory!RegistryTypeOK /\ config \in DOMAIN Configs
      /\ built = "fallbacks" /\ todo \in Seq(Factory!Fallbacks) /\ todo # <<>>
  BY DEF RegistryInv, Factory!RegistryTypeOK, Turns, Factory!BuildFallback
<1> DEFINE f == Head(todo)
<1>2. /\ f \in Factory!Fallbacks /\ Tail(todo) \in Seq(Factory!Fallbacks)
      /\ In(todo) = In(Tail(todo)) \cup {f}
  BY <1>1, HeadAndTail
<1>3. /\ registry' = IF Factory!Config.fallbacks[f] \subseteq registry
                     THEN registry \cup {f} ELSE registry
      /\ todo' = Tail(todo)
      /\ UNCHANGED <<config, loads, built, shared, entries, waiting, progress, idle>>
  BY DEF Factory!BuildFallback
<1> HIDE DEF f
<1>4. /\ Factory!Fallbacks' = Factory!Fallbacks /\ Factory!Config' = Factory!Config
      /\ Factory!SequenceNames' = Factory!SequenceNames
  BY <1>3 DEF Factory!Fallbacks, Factory!Config, Factory!SequenceNames
<1>5. Factory!RegistryTypeOK'
  <2>1. f \in Factory!AllNames /\ Tail(todo) \in Seq(Factory!AllNames)
    BY <1>1, <1>2, NamesOfConfig
  <2> QED
    BY <1>1, <1>3, <2>1 DEF Factory!RegistryTypeOK
<1>6. FallbacksTried'
  <2> SUFFICES ASSUME NEW g \in Factory!Fallbacks
      PROVE  LET needs == Factory!Config.fallbacks[g] IN
             /\ g \in registry' \ (shared \cup entries) => needs \subseteq registry'
             /\ \/ g \in In(Tail(todo))
                \/ g \in registry'
                \/ ~(needs \subseteq registry')
                \/ needs \cap (Factory!Fallbacks \cup Factory!SequenceNames) # {}
    BY <1>1, <1>3, <1>4 DEF FallbacksTried
  <2> DEFINE needs == Factory!Config.fallbacks[g]
  <2>1. /\ g \in registry \ (shared \cup entries) => needs \subseteq registry
        /\ \/ g \in In(todo)
           \/ g \in registry
           \/ ~(needs \subseteq registry)
           \/ needs \cap (Factory!Fallbacks \cup Factory!SequenceNames) # {}
    BY <1>1 DEF RegistryInv, FallbacksTried
  <2> QED
    BY <1>2, <1>3, <2>1
<1>7. Turns' /\ SequencesTried'
  BY <1>1, <1>2, <1>3, <1>4 DEF RegistryInv, Turns, SequencesTried
<1> QED
  BY <1>5, <1>6, <1>7 DEF RegistryInv

\* The sequences begin, with none.
LEMMA RegistrySequences ==
    ASSUME RegistryInv, Factory!StartSequences PROVE RegistryInv'
<1>1. /\ Factory!RegistryTypeOK /\ config \in DOMAIN Configs
      /\ built = "fallbacks" /\ todo = <<>> /\ entries = {}
  BY DEF RegistryInv, Factory!RegistryTypeOK, Turns, Factory!StartSequences
<1>2. /\ todo' \in Factory!SetToSeqs(Factory!SequenceNames)
      /\ waiting' = <<>> /\ progress' = FALSE /\ idle' = 0 /\ built' = "sequences"
      /\ UNCHANGED <<config, loads, shared, registry, entries>>
  BY DEF Factory!StartSequences
<1>3. todo' \in Seq(Factory!SequenceNames) /\ In(todo') = Factory!SequenceNames
  BY <1>1, <1>2, NamesOfConfig, OrderHasAll
<1>4. /\ Factory!Fallbacks' = Factory!Fallbacks /\ Factory!Config' = Factory!Config
      /\ Factory!SequenceNames' = Factory!SequenceNames
  BY <1>2 DEF Factory!Fallbacks, Factory!Config, Factory!SequenceNames
<1>5. /\ \A S : <<>> \in Seq(S)
      /\ In(<<>>) = {}
  BY DEF In
<1>6. todo' \in Seq(Factory!AllNames)
  BY <1>1, <1>3, NamesOfConfig
<1>7. Factory!RegistryTypeOK'
  <2>1. progress' \in BOOLEAN
    BY <1>2
  <2>2. idle' \in 0 .. MaxIdle + 1
    BY <1>2, RegistryAssumption
  <2>3. waiting' \in Seq(Factory!AllNames)
    BY <1>2, <1>5
  <2> QED
    BY <1>1, <1>2, <1>6, <2>1, <2>2, <2>3 DEF Factory!RegistryTypeOK
<1>8. FallbacksTried'
  BY <1>1, <1>2, <1>4, <1>5 DEF RegistryInv, FallbacksTried
<1>9. SequencesTried' /\ Turns'
  BY <1>1, <1>2, <1>3, <1>4, <1>5, RegistryAssumption DEF SequencesTried, Turns
<1> QED
  BY <1>7, <1>8, <1>9 DEF RegistryInv

\* A sequence is built or waits.
LEMMA RegistrySequence ==
    ASSUME RegistryInv, Factory!BuildSequence PROVE RegistryInv'
<1>1. /\ Factory!RegistryTypeOK /\ config \in DOMAIN Configs
      /\ built = "sequences" /\ todo # <<>>
      /\ todo \in Seq(Factory!SequenceNames) /\ waiting \in Seq(Factory!SequenceNames)
      /\ idle <= MaxIdle
  BY DEF RegistryInv, Factory!RegistryTypeOK, Turns, Factory!BuildSequence
<1> DEFINE name == Head(todo)
           ready == Factory!Config.sequences[name] \subseteq registry
<1>2. /\ name \in Factory!SequenceNames /\ Tail(todo) \in Seq(Factory!SequenceNames)
      /\ In(todo) = In(Tail(todo)) \cup {name}
  BY <1>1, HeadAndTail
<1>3. /\ \/ ready /\ registry' = registry \cup {name} /\ entries' = entries \cup {name}
            /\ progress' = TRUE /\ waiting' = waiting
         \/ ~ready /\ waiting' = Append(waiting, name)
            /\ UNCHANGED <<registry, entries, progress>>
      /\ todo' = Tail(todo)
      /\ UNCHANGED <<config, loads, built, shared, idle>>
  BY DEF Factory!BuildSequence
<1>4. /\ Append(waiting, name) \in Seq(Factory!SequenceNames)
      /\ In(Append(waiting, name)) = In(waiting) \cup {name}
  BY <1>1, <1>2, AppendedIn
<1> HIDE DEF name, ready
<1>5. /\ Factory!Fallbacks' = Factory!Fallbacks /\ Factory!Config' = Factory!Config
      /\ Factory!SequenceNames' = Factory!SequenceNames
  BY <1>3 DEF Factory!Fallbacks, Factory!Config, Factory!SequenceNames
<1>6. waiting' \in Seq(Factory!SequenceNames)
  BY <1>1, <1>3, <1>4
<1>7. Factory!RegistryTypeOK'
  <2>1. /\ name \in Factory!AllNames /\ todo' \in Seq(Factory!AllNames)
        /\ waiting' \in Seq(Factory!AllNames)
    BY <1>1, <1>2, <1>3, <1>6, NamesOfConfig
  <2>2. progress' \in BOOLEAN
    BY <1>1, <1>3 DEF Factory!RegistryTypeOK
  <2>3. registry' \subseteq Factory!AllNames /\ entries' \subseteq registry'
    BY <1>1, <1>3, <2>1 DEF Factory!RegistryTypeOK
  <2> QED
    BY <1>1, <1>3, <2>1, <2>2, <2>3 DEF Factory!RegistryTypeOK
<1>8. FallbacksTried'
  <2> SUFFICES ASSUME NEW g \in Factory!Fallbacks
      PROVE  LET needs == Factory!Config.fallbacks[g] IN
             /\ g \in registry' \ (shared \cup entries') => needs \subseteq registry'
             /\ \/ g \in registry'
                \/ ~(needs \subseteq registry')
                \/ needs \cap (Factory!Fallbacks \cup Factory!SequenceNames) # {}
    BY <1>1, <1>3, <1>5 DEF FallbacksTried
  <2> DEFINE needs == Factory!Config.fallbacks[g]
  <2>1. /\ g \in registry \ (shared \cup entries) => needs \subseteq registry
        /\ \/ g \in registry
           \/ ~(needs \subseteq registry)
           \/ needs \cap (Factory!Fallbacks \cup Factory!SequenceNames) # {}
    BY <1>1 DEF RegistryInv, FallbacksTried
  <2> QED
    BY <1>2, <1>3, <2>1
<1>9. SequencesTried'
  <2>1. /\ \A s \in Factory!SequenceNames :
              s \in entries \/ s \in In(waiting) \/ s \in In(todo)
        /\ \A s \in entries :
              s \in Factory!SequenceNames /\ Factory!Config.sequences[s] \subseteq registry
        /\ ~progress => \A s \in In(waiting) : ~(Factory!Config.sequences[s] \subseteq registry)
    BY <1>1 DEF RegistryInv, SequencesTried
  <2>2. \A s \in Factory!SequenceNames :
           s \in entries' \/ s \in In(waiting') \/ s \in In(todo')
    BY <1>2, <1>3, <1>4, <2>1
  <2>3. \A s \in entries' :
           s \in Factory!SequenceNames /\ Factory!Config.sequences[s] \subseteq registry'
    BY <1>2, <1>3, <2>1 DEF ready
  <2>4. ~progress' => \A s \in In(waiting') : ~(Factory!Config.sequences[s] \subseteq registry')
    <3>1. CASE progress'
      BY <3>1
    <3>2. CASE ~progress'
      <4>1. ~ready /\ waiting' = Append(waiting, name) /\ registry' = registry /\ ~progress
        BY <1>3, <3>2
      <4> QED
        BY <1>4, <2>1, <4>1 DEF ready
    <3> QED
      BY <3>1, <3>2
  <2> QED
    BY <1>1, <1>3, <1>5, <2>2, <2>3, <2>4 DEF SequencesTried
<1>10. Turns'
  BY <1>1, <1>2, <1>3, <1>5, <1>6 DEF Turns
<1> QED
  BY <1>7, <1>8, <1>9, <1>10 DEF RegistryInv

\* A pass ends: with another, or as the last.
LEMMA RegistryPass ==
    ASSUME RegistryInv, Factory!EndPass PROVE RegistryInv'
<1>1. /\ Factory!RegistryTypeOK /\ built = "sequences" /\ todo = <<>>
      /\ waiting \in Seq(Factory!SequenceNames) /\ idle \in 0 .. MaxIdle /\ MaxIdle \in Nat
  BY RegistryAssumption
     DEF RegistryInv, Factory!RegistryTypeOK, Turns, Factory!EndPass
<1>2. /\ idle' = IF progress \/ waiting = <<>> THEN idle ELSE idle + 1
      /\ \/ (waiting = <<>> \/ idle' > MaxIdle) /\ built' = "built"
            /\ todo' = todo /\ waiting' = waiting
         \/ ~(waiting = <<>> \/ idle' > MaxIdle) /\ built' = built
            /\ todo' = waiting /\ waiting' = <<>>
      /\ progress' = FALSE
      /\ UNCHANGED <<config, loads, shared, registry, entries>>
  BY DEF Factory!EndPass
<1>3. /\ \A S : <<>> \in Seq(S)
      /\ In(<<>>) = {}
  BY DEF In
<1>4. /\ Factory!Fallbacks' = Factory!Fallbacks /\ Factory!Config' = Factory!Config
      /\ Factory!SequenceNames' = Factory!SequenceNames /\ Factory!AllNames' = Factory!AllNames
  BY <1>2 DEF Factory!Fallbacks, Factory!Config, Factory!SequenceNames
<1>5. idle' \in 0 .. MaxIdle + 1 /\ progress' \in BOOLEAN /\ ~progress'
  <2>1. idle' = idle \/ idle' = idle + 1
    BY <1>2
  <2>2. progress' \in BOOLEAN /\ ~progress'
    BY <1>2
  <2> QED
    BY <1>1, <2>1, <2>2
<1>6. Factory!RegistryTypeOK'
  BY <1>1, <1>2, <1>3, <1>5 DEF Factory!RegistryTypeOK
<1>7. FallbacksTried'
  BY <1>1, <1>2, <1>3, <1>4 DEF RegistryInv, FallbacksTried
<1>8. /\ \A s \in Factory!SequenceNames : s \in entries \/ s \in In(waiting)
      /\ \A s \in entries :
            s \in Factory!SequenceNames /\ Factory!Config.sequences[s] \subseteq registry
      /\ ~progress => \A s \in In(waiting) : ~(Factory!Config.sequences[s] \subseteq registry)
  BY <1>1, <1>3 DEF RegistryInv, SequencesTried
<1>9. CASE built' = "built"
  <2>1. waiting' = waiting /\ (waiting = <<>> \/ ~progress)
    BY <1>1, <1>2, <1>9
  <2>2. \A s \in In(waiting) : ~(Factory!Config.sequences[s] \subseteq registry)
    BY <1>3, <1>8, <2>1
  <2>3. SequencesTried'
    BY <1>2, <1>4, <1>8, <1>9, <2>1, <2>2 DEF SequencesTried
  <2>4. Turns'
    BY <1>1, <1>4, <1>5, <1>9, <2>1 DEF Turns
  <2> QED
    BY <1>6, <1>7, <2>3, <2>4 DEF RegistryInv
<1>10. CASE built' # "built"
  <2>1. built' = "sequences" /\ todo' = waiting /\ waiting' = <<>> /\ idle' <= MaxIdle
    BY <1>1, <1>2, <1>5, <1>10
  <2>2. SequencesTried'
    BY <1>2, <1>3, <1>4, <1>8, <2>1 DEF SequencesTried
  <2>3. Turns'
    BY <1>1, <1>3, <1>4, <2>1 DEF Turns
  <2> QED
    BY <1>6, <1>7, <2>2, <2>3 DEF RegistryInv
<1> QED
  BY <1>9, <1>10

\* The invariant of the registry holds throughout.
LEMMA RegistryHolds == Factory!Spec => []RegistryInv
<1>1. RegistryInv /\ [Factory!Next]_(Factory!registryVars) => RegistryInv'
  <2> SUFFICES ASSUME RegistryInv, [Factory!Next]_(Factory!registryVars)
               PROVE  RegistryInv'
    OBVIOUS
  <2>1. CASE UNCHANGED Factory!registryVars
    BY <2>1
       DEF Factory!registryVars, RegistryInv, Factory!RegistryTypeOK, FallbacksTried,
           SequencesTried, Turns, Factory!Fallbacks, Factory!SequenceNames, Factory!Config
  <2> QED
    BY <2>1, RegistryStart, RegistryFallback, RegistrySequences, RegistrySequence,
       RegistryPass DEF Factory!Next
<1> QED
  BY <1>1, RegistryInit, PTL DEF Factory!Spec

\* Whatever configuration is loaded after whatever other, in whatever order its plugins
\* are taken and whichever cannot be made, what is wired is closed
\* (plugin_factory.rs:853, 879-926; main.rs:279).
THEOREM WhatIsBuiltIsClosed == Factory!Spec => []BuiltIsClosed
<1>1. RegistryInv => BuiltIsClosed
  <2> SUFFICES ASSUME RegistryInv, built = "built" PROVE BuiltIsClosed
    BY DEF BuiltIsClosed, Factory!BuiltIsClosed
  <2>1. \A s \in Factory!SequenceNames :
           s \in entries <=> Factory!Config.sequences[s] \subseteq registry
    BY DEF RegistryInv, SequencesTried, Turns
  <2> QED
    BY <2>1 DEF RegistryInv, FallbacksTried, BuiltIsClosed, Factory!BuiltIsClosed
<1> QED
  BY <1>1, RegistryHolds, PTL

-----------------------------------------------------------------------------
(* Resolver: no two calls under way look up the same.                      *)

\* The inductive invariant.
ResolverInv ==
    /\ Backend!ResolverTypeOK
    /\ outcome = "open" => stack # <<>>

\* The activations of the lookup.
Calls == Backend!Frames

\* Calls of different names and types, all looked up.
Distinct(calls, keys) ==
    /\ calls \in Seq(Calls)
    /\ \A i \in 1 .. Len(calls) : calls[i].key \in keys
    /\ \A i, j \in 1 .. Len(calls) : i # j => calls[i].key # calls[j].key

\* The last of a sequence, and what goes before it.
LEMMA LastAndFront ==
    ASSUME NEW calls, calls \in Seq(Calls), calls # <<>>
    PROVE  /\ Len(calls) \in Nat \ {0}
           /\ Backend!Last(calls) = calls[Len(calls)] /\ Backend!Last(calls) \in Calls
           /\ Backend!Front(calls) \in Seq(Calls)
           /\ Len(Backend!Front(calls)) = Len(calls) - 1
           /\ \A i \in 1 .. Len(calls) - 1 : Backend!Front(calls)[i] = calls[i]
<1>1. Len(calls) \in Nat \ {0} /\ Len(calls) \in 1 .. Len(calls)
  OBVIOUS
<1>2. Len(calls) - 1 \in Nat /\ 1 .. Len(calls) - 1 \subseteq 1 .. Len(calls)
  BY <1>1
<1>3. calls[Len(calls)] \in Calls
  BY <1>1
<1>4. Backend!Front(calls) = SubSeq(calls, 1, Len(calls) - 1)
  BY DEF Backend!Front
<1>5. /\ SubSeq(calls, 1, Len(calls) - 1) \in Seq(Calls)
      /\ Len(SubSeq(calls, 1, Len(calls) - 1)) = Len(calls) - 1
      /\ \A i \in 1 .. Len(calls) - 1 : SubSeq(calls, 1, Len(calls) - 1)[i] = calls[i]
  <2> DEFINE n == Len(calls) - 1
  <2>1. n \in Int /\ 1 \in Int /\ n \in Nat /\ \A i \in 1 .. n : calls[i] \in Calls
    BY <1>1, <1>2
  <2> HIDE DEF n
  <2>2. /\ SubSeq(calls, 1, n) \in Seq(Calls)
        /\ Len(SubSeq(calls, 1, n)) = IF 1 <= n THEN n - 1 + 1 ELSE 0
        /\ \A i \in 1 .. n - 1 + 1 : SubSeq(calls, 1, n)[i] = calls[1 + i - 1]
    BY <2>1, SubSeqProperties
  <2>3. \A i \in 1 .. n : i \in 1 .. n - 1 + 1 /\ 1 + i - 1 = i
    BY <2>1
  <2>4. Len(SubSeq(calls, 1, n)) = n
    BY <2>1, <2>2
  <2>5. SubSeq(calls, 1, n) \in Seq(Calls)
    BY <2>2
  <2>6. \A i \in 1 .. n : SubSeq(calls, 1, n)[i] = calls[i]
    BY <2>2, <2>3
  <2> QED
    BY <2>4, <2>5, <2>6 DEF n
<1> QED
  BY <1>1, <1>3, <1>4, <1>5 DEF Backend!Last

\* The call on top returns.
LEMMA FrontDistinct ==
    ASSUME NEW calls, NEW keys, Distinct(calls, keys), calls # <<>>
    PROVE  Distinct(Backend!Front(calls), keys)
<1> DEFINE front == Backend!Front(calls)
<1>1. calls \in Seq(Calls)
  BY DEF Distinct
<1>2. /\ Len(calls) \in Nat \ {0}
      /\ front \in Seq(Calls) /\ Len(front) = Len(calls) - 1
      /\ \A i \in 1 .. Len(calls) - 1 : front[i] = calls[i]
  BY <1>1, LastAndFront
<1> HIDE DEF front
<1>3. \A i \in 1 .. Len(front) : i \in 1 .. Len(calls) /\ front[i] = calls[i]
  BY <1>2
<1>4. Distinct(front, keys)
  BY <1>2, <1>3 DEF Distinct
<1> QED
  BY <1>4 DEF front

\* A call that looks up something else is put on top.
LEMMA PushDistinct ==
    ASSUME NEW calls, NEW keys, Distinct(calls, keys), NEW call \in Calls,
           call.key \notin keys
    PROVE  Distinct(Append(calls, call), keys \cup {call.key})
<1>1. /\ Append(calls, call) \in Seq(Calls)
      /\ Len(Append(calls, call)) = Len(calls) + 1 /\ Len(calls) \in Nat
      /\ \A i \in 1 .. Len(calls) : Append(calls, call)[i] = calls[i]
      /\ Append(calls, call)[Len(calls) + 1] = call
  BY DEF Distinct
<1>2. \A i \in 1 .. Len(Append(calls, call)) : i \in 1 .. Len(calls) \/ i = Len(calls) + 1
  BY <1>1
<1> QED
  BY <1>1, <1>2 DEF Distinct

\* The call on top goes on, for what it looks up.
LEMMA TopDistinct ==
    ASSUME NEW calls, NEW keys, Distinct(calls, keys), calls # <<>>,
           NEW call \in Calls, call.key = Backend!Last(calls).key
    PROVE  Distinct(Append(Backend!Front(calls), call), keys)
<1> DEFINE front == Backend!Front(calls)
<1>1. calls \in Seq(Calls)
  BY DEF Distinct
<1>2. /\ Len(calls) \in Nat \ {0} /\ Backend!Last(calls) = calls[Len(calls)]
      /\ front \in Seq(Calls) /\ Len(front) = Len(calls) - 1
      /\ \A i \in 1 .. Len(calls) - 1 : front[i] = calls[i]
  BY <1>1, LastAndFront
<1> HIDE DEF front
<1>3. /\ Append(front, call) \in Seq(Calls)
      /\ Len(Append(front, call)) = Len(calls)
      /\ \A i \in 1 .. Len(calls) - 1 : Append(front, call)[i] = front[i]
      /\ Append(front, call)[Len(calls)] = call
  BY <1>2
<1>4. \A i \in 1 .. Len(calls) : i \in 1 .. Len(calls) - 1 \/ i = Len(calls)
  BY <1>2
<1>5. \A i \in 1 .. Len(calls) : Append(front, call)[i].key = calls[i].key
  BY <1>2, <1>3, <1>4
<1>6. Distinct(Append(front, call), keys)
  BY <1>3, <1>5 DEF Distinct
<1> QED
  BY <1>6 DEF front

\* A call is a frame.
LEMMA FrameIsCall ==
    ASSUME NEW key \in Backend!Keys, NEW depth \in 1 .. MaxDepth,
           NEW cnames \in 1 .. MaxCnames
    PROVE  /\ Backend!Frame(key, depth, cnames) \in Calls
           /\ Backend!Frame(key, depth, cnames).key = key
<1>1. MaxTry \in 1 .. MaxTry /\ <<>> \in Seq(Backend!Steps)
  BY ResolverAssumption
<1> QED
  BY <1>1 DEF Backend!Frame, Backend!Frames, Calls

\* The lookups for the addresses of name servers.
LEMMA LookupsAreSteps ==
    ASSUME NEW n \in Nat, NEW servers \in [1 .. n -> Hosts]
    PROVE  Backend!Lookups(servers, n) \in Seq(Backend!Steps)
<1> DEFINE step(i) ==
      <<servers[(i + 2) \div 3],
        CASE i % 3 = 1 -> "A" [] i % 3 = 2 -> "AAAA" [] i % 3 = 0 -> "trusted">>
<1>1. ASSUME NEW i \in 1 .. 3 * n PROVE step(i) \in Backend!Steps
  <2>1. (i + 2) \div 3 \in 1 .. n
    OBVIOUS
  <2>2. i % 3 = 0 \/ i % 3 = 1 \/ i % 3 = 2
    OBVIOUS
  <2>3. servers[(i + 2) \div 3] \in Hosts
    BY <2>1
  <2>4. (CASE i % 3 = 1 -> "A" [] i % 3 = 2 -> "AAAA" [] i % 3 = 0 -> "trusted")
          \in {"A", "AAAA", "trusted"}
    BY <2>2
  <2> QED
    BY <2>3, <2>4 DEF Backend!Steps
<1>2. Backend!Lookups(servers, n) = [i \in 1 .. 3 * n |-> step(i)]
  BY DEF Backend!Lookups
<1>3. 3 * n \in Nat
  OBVIOUS
<1> HIDE DEF step
<1>4. [i \in 1 .. 3 * n |-> step(i)] \in [1 .. 3 * n -> Backend!Steps]
  BY <1>1
<1>5. \A f \in [1 .. 3 * n -> Backend!Steps] : f \in Seq(Backend!Steps)
  BY <1>3, SeqDef
<1> QED
  BY <1>2, <1>4, <1>5

\* A call changed in its servers, or in what it resolves, is one for the same key.
LEMMA CallChanges ==
    ASSUME NEW call \in Calls
    PROVE  /\ call.key \in Backend!Keys /\ call.depth \in 1 .. MaxDepth
           /\ call.cnames \in 1 .. MaxCnames /\ call.servers \in 1 .. MaxTry
           /\ call.resolving \in BOOLEAN /\ call.pending \in Seq(Backend!Steps)
           /\ call.found \in BOOLEAN
           /\ \A depth \in 1 .. MaxDepth, n \in 1 .. MaxTry :
                 LET next == [call EXCEPT !.depth = depth, !.servers = n, !.resolving = FALSE]
                 IN  next \in Calls /\ next.key = call.key
           /\ \A n \in 1 .. MaxTry :
                 LET next == [call EXCEPT !.servers = n, !.resolving = FALSE]
                 IN  next \in Calls /\ next.key = call.key
           /\ \A lookups \in Seq(Backend!Steps) :
                 LET next == [call EXCEPT !.resolving = TRUE, !.found = FALSE,
                                          !.pending = lookups]
                 IN  next \in Calls /\ next.key = call.key
           /\ \A lookups \in Seq(Backend!Steps) :
                 LET next == [call EXCEPT !.pending = lookups]
                 IN  next \in Calls /\ next.key = call.key
           /\ \A found \in BOOLEAN :
                 LET next == [call EXCEPT !.found = found]
                 IN  next \in Calls /\ next.key = call.key
  BY DEF Calls, Backend!Frames

\* What an action leaves behind: calls that differ, and a call under way while the lookup
\* is open.
Leaves(keys) ==
    /\ Distinct(stack', keys)
    /\ outcome' \in {"none", "open", "asked"} \cup Backend!Results
    /\ outcome' = "open" => stack' # <<>>

\* The call on top goes on, changed.
LEMMA ReplacedLeaves ==
    ASSUME Distinct(stack, visited), stack # <<>>, outcome = "open", UNCHANGED outcome,
           NEW call \in Calls, call.key = Backend!Top.key, stack' = Backend!Replaced(call)
    PROVE  Leaves(visited)
<1>1. stack' = Append(Backend!Front(stack), call) /\ call.key = Backend!Last(stack).key
  BY DEF Backend!Replaced, Backend!Top
<1>2. Distinct(stack', visited)
  BY <1>1, TopDistinct
<1>3. stack' # <<>>
  <2>1. Backend!Front(stack) \in Seq(Calls)
    BY FrontDistinct DEF Distinct
  <2> QED
    BY <1>1, <2>1
<1> QED
  BY <1>2, <1>3 DEF Leaves

\* A call returns, with any result.
LEMMA ReturnLeaves ==
    ASSUME Distinct(stack, visited), stack # <<>>, outcome = "open",
           NEW result \in Backend!Results, Backend!Return(result)
    PROVE  Leaves(visited)
<1>1. stack \in Seq(Calls)
  BY DEF Distinct
<1>2. CASE Len(stack) = 1
  <2>1. stack' = <<>> /\ outcome' \in {"asked"} \cup Backend!Results
    BY <1>2 DEF Backend!Return, Backend!Finished
  <2>2. <<>> \in Seq(Calls) /\ Len(<<>>) = 0
    OBVIOUS
  <2>3. \A i \in 1 .. Len(stack') : FALSE
    BY <2>1, <2>2
  <2>4. Distinct(stack', visited)
    BY <2>1, <2>2, <2>3 DEF Distinct
  <2> QED
    BY <2>1, <2>4 DEF Leaves, Backend!Results
<1>3. CASE Len(stack) # 1
  <2> DEFINE front == Backend!Front(stack)
             caller == Backend!Last(front)
             next == [caller EXCEPT !.found = caller.found \/ result = "answer"]
  <2>1. /\ Distinct(front, visited) /\ front \in Seq(Calls)
        /\ front # <<>>
    <3>1. Len(stack) \in Nat \ {0} /\ front \in Seq(Calls) /\ Len(front) = Len(stack) - 1
      BY <1>1, LastAndFront
    <3>2. Len(front) # 0
      BY <1>3, <3>1
    <3> HIDE DEF front
    <3>3. front # <<>>
      BY <3>1, <3>2
    <3> QED
      BY <3>1, <3>3, FrontDistinct DEF front
  <2>2. stack' = Append(Backend!Front(front), next) /\ UNCHANGED outcome
    BY <1>3 DEF Backend!Return
  <2> HIDE DEF front
  <2>3. caller \in Calls
    BY <2>1, LastAndFront
  <2>4. (caller.found \/ result = "answer") \in BOOLEAN
    OBVIOUS
  <2>5. next \in Calls /\ next.key = Backend!Last(front).key
    BY <2>3, <2>4, CallChanges
  <2> HIDE DEF next
  <2>6. Distinct(stack', visited)
    BY <2>1, <2>2, <2>5, TopDistinct
  <2>7. stack' # <<>>
    <3>1. Backend!Front(front) \in Seq(Calls)
      BY <2>1, LastAndFront
    <3> QED
      BY <2>2, <3>1
  <2> QED
    BY <2>2, <2>6, <2>7 DEF Leaves
<1> QED
  BY <1>2, <1>3

\* The call on top is on the stack.
LEMMA TopIsCall ==
    ASSUME Distinct(stack, visited), stack # <<>>
    PROVE  Backend!Top \in Calls /\ Backend!Top.key \in visited
<1>1. stack \in Seq(Calls)
  BY DEF Distinct
<1>2. /\ Len(stack) \in 1 .. Len(stack)
      /\ Backend!Top = stack[Len(stack)] /\ Backend!Top \in Calls
  BY <1>1, LastAndFront DEF Backend!Top
<1> QED
  BY <1>2 DEF Distinct

\* The next server is asked, or those of a referral.
LEMMA NextLeaves ==
    ASSUME Distinct(stack, visited), stack # <<>>, outcome = "open",
           Backend!NextServer \/ Backend!NextLevel
    PROVE  Leaves(visited)
<1> DEFINE top == Backend!Top
<1>1. top \in Calls
  BY TopIsCall
<1>2. top.depth \in 1 .. MaxDepth /\ top.servers \in 1 .. MaxTry
  BY <1>1, CallChanges
<1>3. CASE Backend!Return("error")
  BY <1>3, ReturnLeaves DEF Backend!Results
<1>4. CASE Backend!NextServer /\ top.servers # 1
  <2> DEFINE next == [top EXCEPT !.servers = top.servers - 1, !.resolving = FALSE]
  <2>1. stack' = Backend!Replaced(next) /\ UNCHANGED outcome
    BY <1>4 DEF Backend!NextServer
  <2>2. top.servers - 1 \in 1 .. MaxTry
    BY <1>2, <1>4, ResolverAssumption
  <2>3. next \in Calls /\ next.key = Backend!Top.key
    BY <1>1, <2>2, CallChanges
  <2> HIDE DEF next
  <2> QED
    BY <2>1, <2>3, ReplacedLeaves
<1>5. CASE Backend!NextLevel /\ top.depth # 1
  <2>1. PICK n \in 1 .. MaxTry :
          /\ stack' = Backend!Replaced([top EXCEPT !.depth = top.depth - 1, !.servers = n,
                                                   !.resolving = FALSE])
          /\ UNCHANGED outcome
    BY <1>5 DEF Backend!NextLevel
  <2> DEFINE next == [top EXCEPT !.depth = top.depth - 1, !.servers = n, !.resolving = FALSE]
  <2>2. top.depth - 1 \in 1 .. MaxDepth
    BY <1>2, <1>5, ResolverAssumption
  <2>3. next \in Calls /\ next.key = Backend!Top.key
    <3>1. \A depth \in 1 .. MaxDepth, k \in 1 .. MaxTry :
            LET call == [top EXCEPT !.depth = depth, !.servers = k, !.resolving = FALSE]
            IN  call \in Calls /\ call.key = top.key
      BY <1>1, CallChanges
    <3> HIDE DEF top
    <3>2. next \in Calls /\ next.key = top.key
      BY <2>2, <3>1
    <3> QED
      BY <3>2 DEF top
  <2> HIDE DEF next
  <2> QED
    BY <2>1, <2>3, ReplacedLeaves DEF next
<1> QED
  BY <1>3, <1>4, <1>5 DEF Backend!NextServer, Backend!NextLevel

\* The lookup starts.
LEMMA StartLeaves == ASSUME ResolverInv, Backend!Start PROVE ResolverInv'
<1>1. UNCHANGED <<resolution, domestic>> /\ outcome = "none"
  BY DEF Backend!Start
<1>2. CASE outcome' = "asked" /\ UNCHANGED <<stack, visited>>
  BY <1>1, <1>2 DEF ResolverInv, Backend!ResolverTypeOK
<1>3. CASE /\ outcome' = "open"
           /\ \E key \in Backend!Keys :
                 /\ stack' = <<Backend!Frame(key, MaxDepth, MaxCnames)>>
                 /\ visited' = {key}
  <2>1. PICK key \in Backend!Keys :
          /\ stack' = <<Backend!Frame(key, MaxDepth, MaxCnames)>>
          /\ visited' = {key}
    BY <1>3
  <2> DEFINE call == Backend!Frame(key, MaxDepth, MaxCnames)
  <2>2. call \in Calls /\ call.key = key
    <3>1. MaxDepth \in 1 .. MaxDepth /\ MaxCnames \in 1 .. MaxCnames
      BY ResolverAssumption
    <3> QED
      BY <3>1, FrameIsCall
  <2> HIDE DEF call
  <2>3. <<call>> \in Seq(Calls) /\ Len(<<call>>) = 1 /\ <<call>>[1] = call /\ <<call>> # <<>>
    BY <2>2
  <2>4. \A i \in 1 .. Len(<<call>>) : i = 1
    BY <2>3
  <2>5. Distinct(<<call>>, {key})
    BY <2>2, <2>3, <2>4 DEF Distinct
  <2>6. stack' = <<call>>
    BY <2>1 DEF call
  <2>7. Distinct(stack', visited') /\ visited' \subseteq Backend!Keys /\ stack' # <<>>
    BY <2>1, <2>3, <2>5, <2>6
  <2> QED
    BY <1>1, <1>3, <2>7 DEF ResolverInv, Backend!ResolverTypeOK, Distinct, Calls
<1> QED
  BY <1>2, <1>3 DEF Backend!Start

\* The call on top is replaced by one for the target of a CNAME.
LEMMA CnameLeaves ==
    ASSUME ResolverInv, Backend!Cname
    PROVE  Leaves(visited') /\ visited' \subseteq Backend!Keys
<1> DEFINE top == Backend!Top
<1>1. /\ Distinct(stack, visited) /\ stack # <<>> /\ outcome = "open"
      /\ visited \subseteq Backend!Keys
  BY DEF ResolverInv, Backend!ResolverTypeOK, Distinct, Calls, Backend!Cname, Backend!Asking
<1>2. top \in Calls
  BY <1>1, TopIsCall
<1>3. top.key \in Backend!Keys /\ top.depth \in 1 .. MaxDepth /\ top.cnames \in 1 .. MaxCnames
  BY <1>2, CallChanges
<1>4. PICK target \in Hosts :
        LET key == <<target, top.key[2]>> IN
        IF Backend!Refused(key, top.depth - 1, top.cnames - 1)
        THEN Backend!Return("error") /\ UNCHANGED visited
        ELSE /\ stack' = Backend!Replaced(Backend!Frame(key, top.depth - 1, top.cnames - 1))
             /\ visited' = visited \cup {key}
             /\ UNCHANGED outcome
  BY DEF Backend!Cname
<1> DEFINE key == <<target, top.key[2]>>
           depth == top.depth - 1
           cnames == top.cnames - 1
<1>5. key \in Backend!Keys
  BY <1>3 DEF Backend!Keys
<1> HIDE DEF key
<1>6. CASE Backend!Refused(key, depth, cnames)
  <2>1. Backend!Return("error") /\ UNCHANGED visited
    BY <1>4, <1>6 DEF key
  <2> QED
    BY <1>1, <2>1, ReturnLeaves DEF Backend!Results
<1>7. CASE ~Backend!Refused(key, depth, cnames)
  <2> DEFINE call == Backend!Frame(key, depth, cnames)
  <2>1. /\ stack' = Append(Backend!Front(stack), call)
        /\ visited' = visited \cup {key} /\ UNCHANGED outcome
    BY <1>4, <1>7 DEF key, Backend!Replaced
  <2>2. key \notin visited /\ depth \in 1 .. MaxDepth /\ cnames \in 1 .. MaxCnames
    BY <1>3, <1>7, ResolverAssumption DEF Backend!Refused
  <2>3. call \in Calls /\ call.key = key
    BY <1>5, <2>2, FrameIsCall
  <2> HIDE DEF call
  <2>4. Distinct(Backend!Front(stack), visited)
    BY <1>1, FrontDistinct
  <2>5. Distinct(stack', visited')
    BY <2>1, <2>2, <2>3, <2>4, PushDistinct
  <2>6. stack' # <<>>
    BY <2>1, <2>4 DEF Distinct
  <2> QED
    BY <1>1, <1>5, <2>1, <2>5, <2>6 DEF Leaves
<1> QED
  BY <1>6, <1>7

\* The call on top takes the next of its lookups, or has them to do.
LEMMA ResolveLeaves ==
    ASSUME ResolverInv, Backend!Unglued \/ Backend!Resolve
    PROVE  Leaves(visited') /\ visited' \subseteq Backend!Keys
<1> DEFINE top == Backend!Top
<1>1. /\ Distinct(stack, visited) /\ stack # <<>> /\ outcome = "open"
      /\ visited \subseteq Backend!Keys /\ UNCHANGED outcome
  <2>1. outcome = "open" /\ UNCHANGED outcome
    BY DEF Backend!Unglued, Backend!Asking, Backend!Resolve
  <2> QED
    BY <2>1 DEF ResolverInv, Backend!ResolverTypeOK, Distinct, Calls
<1>2. top \in Calls
  BY <1>1, TopIsCall
<1>3. /\ top.depth \in 1 .. MaxDepth /\ top.cnames \in 1 .. MaxCnames
      /\ top.pending \in Seq(Backend!Steps) /\ top.found \in BOOLEAN
  BY <1>2, CallChanges
<1>4. CASE Backend!Unglued
  <2>1. PICK n \in 1 .. MaxNs : \E servers \in [1 .. n -> Hosts] :
          stack' = Backend!Replaced([top EXCEPT !.resolving = TRUE, !.found = FALSE,
                                                !.pending = Backend!Lookups(servers, n)])
    BY <1>4 DEF Backend!Unglued
  <2> PICK servers \in [1 .. n -> Hosts] :
        stack' = Backend!Replaced([top EXCEPT !.resolving = TRUE, !.found = FALSE,
                                              !.pending = Backend!Lookups(servers, n)])
    BY <2>1
  <2> DEFINE next == [top EXCEPT !.resolving = TRUE, !.found = FALSE,
                                 !.pending = Backend!Lookups(servers, n)]
  <2>2. Backend!Lookups(servers, n) \in Seq(Backend!Steps)
    BY LookupsAreSteps
  <2>3. next \in Calls /\ next.key = Backend!Top.key
    BY <1>2, <2>2, CallChanges
  <2>4. stack' = Backend!Replaced(next) /\ visited' = visited
    BY <1>4 DEF Backend!Unglued
  <2> HIDE DEF next
  <2> QED
    BY <1>1, <2>3, <2>4, ReplacedLeaves
<1>5. CASE Backend!Resolve
  <2> DEFINE step == Head(top.pending)
             rest == [top EXCEPT !.pending = Tail(top.pending)]
  <2>1. step \in Backend!Steps /\ Tail(top.pending) \in Seq(Backend!Steps)
    <3>1. top.pending # <<>>
      BY <1>5 DEF Backend!Resolve
    <3> HIDE DEF top
    <3> QED
      BY <1>3, <3>1
  <2>2. rest \in Calls /\ rest.key = Backend!Top.key
    BY <1>2, <2>1, CallChanges
  <2>3. IF step[2] = "trusted"
        THEN /\ \E known \in IF top.found \/ resolution = "iterative" THEN {FALSE}
                              ELSE BOOLEAN :
                   stack' = Backend!Replaced([rest EXCEPT !.found = rest.found \/ known])
             /\ UNCHANGED visited
        ELSE IF Backend!Refused(step, top.depth - 1, top.cnames)
        THEN stack' = Backend!Replaced(rest) /\ UNCHANGED visited
        ELSE /\ stack' = Append(Backend!Replaced(rest),
                                Backend!Frame(step, top.depth - 1, top.cnames))
             /\ visited' = visited \cup {step}
    BY <1>5 DEF Backend!Resolve
  <2> HIDE DEF rest, step
  <2>4. CASE step[2] = "trusted"
    <3>1. PICK known \in BOOLEAN :
            stack' = Backend!Replaced([rest EXCEPT !.found = rest.found \/ known])
      BY <2>3, <2>4
    <3> DEFINE next == [rest EXCEPT !.found = rest.found \/ known]
    <3>2. (rest.found \/ known) \in BOOLEAN
      OBVIOUS
    <3>3. next \in Calls /\ next.key = Backend!Top.key
      BY <2>2, <3>2, CallChanges
    <3>4. stack' = Backend!Replaced(next) /\ visited' = visited
      BY <2>3, <2>4, <3>1
    <3> HIDE DEF next
    <3> QED
      BY <1>1, <3>3, <3>4, ReplacedLeaves
  <2>5. CASE step[2] # "trusted" /\ Backend!Refused(step, top.depth - 1, top.cnames)
    BY <1>1, <2>2, <2>3, <2>5, ReplacedLeaves
  <2>6. CASE step[2] # "trusted" /\ ~Backend!Refused(step, top.depth - 1, top.cnames)
    <3> DEFINE call == Backend!Frame(step, top.depth - 1, top.cnames)
               calls == Backend!Replaced(rest)
    <3>1. stack' = Append(calls, call) /\ visited' = visited \cup {step}
      BY <2>3, <2>6
    <3>2. step \in Backend!Keys /\ step \notin visited /\ top.depth - 1 \in 1 .. MaxDepth
      BY <1>3, <2>1, <2>6, ResolverAssumption
         DEF Backend!Steps, Backend!Keys, Backend!Refused
    <3>3. call \in Calls /\ call.key = step
      BY <1>3, <3>2, FrameIsCall
    <3> HIDE DEF call
    <3>4. Distinct(calls, visited)
      BY <1>1, <2>2, TopDistinct DEF Backend!Replaced, Backend!Top
    <3> HIDE DEF calls
    <3>5. Distinct(stack', visited')
      BY <3>1, <3>2, <3>3, <3>4, PushDistinct
    <3>6. stack' # <<>>
      BY <3>1, <3>4 DEF Distinct
    <3> QED
      BY <1>1, <3>1, <3>2, <3>5, <3>6 DEF Leaves
  <2> QED
    BY <2>4, <2>5, <2>6
<1> QED
  BY <1>4, <1>5

\* The lookup keeps its calls apart.
LEMMA ResolverStep ==
    ASSUME ResolverInv, [Backend!Next]_(Backend!lookupVars) PROVE ResolverInv'
<1>1. /\ resolution \in {"trusted", "iterative", "hybrid"} /\ domestic \in BOOLEAN
      /\ Distinct(stack, visited) /\ visited \subseteq Backend!Keys
      /\ outcome = "open" => stack # <<>>
  BY DEF ResolverInv, Backend!ResolverTypeOK, Distinct, Calls
<1>2. ASSUME UNCHANGED <<resolution, domestic>>, Leaves(visited'),
             visited' \subseteq Backend!Keys
      PROVE  ResolverInv'
  BY <1>1, <1>2 DEF Leaves, ResolverInv, Backend!ResolverTypeOK, Distinct, Calls
<1>3. CASE Backend!Start
  BY <1>3, StartLeaves
<1>4. CASE Backend!Trusted
  BY <1>4 DEF Backend!Trusted, ResolverInv, Backend!ResolverTypeOK, Backend!Results
<1>5. CASE Backend!Answer
  <2>1. /\ UNCHANGED <<resolution, domestic, visited>> /\ outcome = "open"
        /\ Backend!Return("answer") \/ Backend!Return("negative")
    BY <1>5 DEF Backend!Answer, Backend!Asking
  <2>2. Leaves(visited)
    BY <1>1, <2>1, ReturnLeaves DEF Backend!Results
  <2> QED
    BY <1>1, <1>2, <2>1, <2>2
<1>6. CASE Backend!Useless \/ Backend!Glue \/ Backend!Resolved
  <2>1. /\ UNCHANGED <<resolution, domestic, visited>> /\ outcome = "open"
        /\ Backend!NextServer \/ Backend!NextLevel
    BY <1>6 DEF Backend!Useless, Backend!Glue, Backend!Resolved, Backend!Asking
  <2>2. Leaves(visited)
    BY <1>1, <2>1, NextLeaves
  <2> QED
    BY <1>1, <1>2, <2>1, <2>2
<1>7. CASE Backend!Cname
  BY <1>2, <1>7, CnameLeaves DEF Backend!Cname
<1>8. CASE Backend!Unglued \/ Backend!Resolve
  BY <1>2, <1>8, ResolveLeaves DEF Backend!Unglued, Backend!Resolve
<1>9. CASE UNCHANGED Backend!lookupVars
  BY <1>9 DEF Backend!lookupVars, ResolverInv, Backend!ResolverTypeOK
<1> QED
  BY <1>3, <1>4, <1>5, <1>6, <1>7, <1>8, <1>9 DEF Backend!Next

\* Nothing is looked up.
LEMMA ResolverInit == ASSUME Backend!Init PROVE ResolverInv
<1>1. stack = <<>> /\ <<>> \in Seq(Backend!Frames) /\ Len(<<>>) = 0
  BY DEF Backend!Init
<1>2. \A i \in 1 .. Len(stack) : FALSE
  BY <1>1
<1>3. Distinct(stack, visited)
  BY <1>1, <1>2 DEF Distinct, Calls
<1> QED
  BY <1>3 DEF Backend!Init, ResolverInv, Backend!ResolverTypeOK, Distinct, Calls

\* The invariant of the resolver holds throughout.
LEMMA ResolverHolds ==
    Backend!Init /\ [][Backend!Next]_(Backend!lookupVars) => []ResolverInv
  BY ResolverInit, ResolverStep, PTL

\* The call on top comes closer to its end.
LEMMA LowerIsCloser ==
    ASSUME stack \in Seq(Calls), stack # <<>>, outcome = "open", UNCHANGED <<visited, outcome>>,
           NEW call \in Calls, stack' = Backend!Replaced(call), Backend!Lower(call, Backend!Top)
    PROVE  Backend!Closer
<1> DEFINE front == Backend!Front(stack)
<1>1. front \in Seq(Calls) /\ Len(front) = Len(stack) - 1 /\ Len(stack) \in Nat \ {0}
  BY LastAndFront
<1>2. stack' = Append(front, call)
  BY DEF Backend!Replaced
<1> HIDE DEF front
<1>3. stack' \in Seq(Calls) /\ Len(stack') = Len(stack) /\ stack'[Len(stack')] = call
  BY <1>1, <1>2
<1>4. Backend!Top' = call
  BY <1>3 DEF Backend!Top, Backend!Last
<1> QED
  BY <1>3, <1>4 DEF Backend!Closer

\* The call on top returns.
LEMMA ReturnIsCloser ==
    ASSUME stack \in Seq(Calls), stack # <<>>, outcome = "open", UNCHANGED visited,
           NEW result \in Backend!Results, Backend!Return(result)
    PROVE  Backend!Closer
<1>1. CASE Len(stack) = 1
  BY <1>1 DEF Backend!Return, Backend!Finished, Backend!Closer, Backend!Results
<1>2. CASE Len(stack) # 1
  <2> DEFINE front == Backend!Front(stack)
             caller == Backend!Last(front)
             next == [caller EXCEPT !.found = caller.found \/ result = "answer"]
  <2>1. front \in Seq(Calls) /\ Len(front) = Len(stack) - 1 /\ Len(stack) \in Nat \ {0}
    BY LastAndFront
  <2>2. stack' = Append(Backend!Front(front), next) /\ UNCHANGED outcome
    BY <1>2 DEF Backend!Return
  <2> HIDE DEF front
  <2>3. front # <<>> /\ (caller.found \/ result = "answer") \in BOOLEAN
    BY <1>2, <2>1
  <2>4. caller \in Calls /\ Backend!Front(front) \in Seq(Calls)
        /\ Len(Backend!Front(front)) = Len(front) - 1
    BY <2>1, <2>3, LastAndFront
  <2>5. next \in Calls
    BY <2>3, <2>4, CallChanges
  <2> HIDE DEF next, caller
  <2>6. Len(stack') = Len(stack) - 1
    BY <2>1, <2>2, <2>4, <2>5
  <2> QED
    BY <2>1, <2>2, <2>6 DEF Backend!Closer
<1> QED
  BY <1>1, <1>2

\* The next server is asked, or those of a referral, or the call gives up.
LEMMA NextIsCloser ==
    ASSUME stack \in Seq(Calls), stack # <<>>, outcome = "open", UNCHANGED visited,
           Backend!NextServer \/ Backend!NextLevel
    PROVE  Backend!Closer
<1> DEFINE top == Backend!Top
<1>1. top \in Calls
  BY LastAndFront DEF Backend!Top
<1>2. top.depth \in 1 .. MaxDepth /\ top.servers \in 1 .. MaxTry
  BY <1>1, CallChanges
<1>3. CASE Backend!Return("error")
  BY <1>3, ReturnIsCloser DEF Backend!Results
<1>4. CASE Backend!NextServer /\ top.servers # 1
  <2> DEFINE next == [top EXCEPT !.servers = top.servers - 1, !.resolving = FALSE]
  <2>1. stack' = Backend!Replaced(next) /\ UNCHANGED outcome
    BY <1>4 DEF Backend!NextServer
  <2>2. top.servers - 1 \in 1 .. MaxTry
    BY <1>2, <1>4, ResolverAssumption
  <2>3. next \in Calls
    BY <1>1, <2>2, CallChanges
  <2>4. next.depth = top.depth /\ next.servers = top.servers - 1
    BY <1>1 DEF Calls, Backend!Frames
  <2> HIDE DEF next, top
  <2>5. Backend!Lower(next, top)
    BY <1>2, <2>4, ResolverAssumption DEF Backend!Lower
  <2> QED
    BY <2>1, <2>3, <2>5, LowerIsCloser DEF top
<1>5. CASE Backend!NextLevel /\ top.depth # 1
  <2>1. PICK n \in 1 .. MaxTry :
          /\ stack' = Backend!Replaced([top EXCEPT !.depth = top.depth - 1, !.servers = n,
                                                   !.resolving = FALSE])
          /\ UNCHANGED outcome
    BY <1>5 DEF Backend!NextLevel
  <2> DEFINE next == [top EXCEPT !.depth = top.depth - 1, !.servers = n, !.resolving = FALSE]
  <2>2. top.depth - 1 \in 1 .. MaxDepth
    BY <1>2, <1>5, ResolverAssumption
  <2>3. next \in Calls
    BY <1>1, <2>2 DEF Calls, Backend!Frames
  <2>4. next.depth = top.depth - 1
    BY <1>1 DEF Calls, Backend!Frames
  <2> HIDE DEF next, top
  <2>5. Backend!Lower(next, top)
    BY <1>2, <2>4, ResolverAssumption DEF Backend!Lower
  <2>6. stack' = Backend!Replaced(next) /\ UNCHANGED outcome
    BY <2>1 DEF next, top
  <2> QED
    BY <2>3, <2>5, <2>6, LowerIsCloser DEF top
<1> QED
  BY <1>3, <1>4, <1>5 DEF Backend!NextServer, Backend!NextLevel

\* A call for a name and type that has not been looked up is new.
LEMMA NewIsCloser ==
    ASSUME outcome = "open", UNCHANGED outcome,
           NEW key, key \notin visited, visited' = visited \cup {key}
    PROVE  Backend!Closer
  BY DEF Backend!Closer

\* A CNAME is followed.
LEMMA CnameIsCloser == ASSUME ResolverInv, Backend!Cname PROVE Backend!Closer
<1> DEFINE top == Backend!Top
<1>1. stack \in Seq(Calls) /\ stack # <<>> /\ outcome = "open"
  BY DEF ResolverInv, Backend!ResolverTypeOK, Calls, Backend!Cname, Backend!Asking
<1>2. PICK target \in Hosts :
        LET key == <<target, top.key[2]>> IN
        IF Backend!Refused(key, top.depth - 1, top.cnames - 1)
        THEN Backend!Return("error") /\ UNCHANGED visited
        ELSE /\ stack' = Backend!Replaced(Backend!Frame(key, top.depth - 1, top.cnames - 1))
             /\ visited' = visited \cup {key}
             /\ UNCHANGED outcome
  BY DEF Backend!Cname
<1> DEFINE key == <<target, top.key[2]>>
<1>3. CASE Backend!Refused(key, top.depth - 1, top.cnames - 1)
  BY <1>1, <1>2, <1>3, ReturnIsCloser DEF Backend!Results
<1>4. CASE ~Backend!Refused(key, top.depth - 1, top.cnames - 1)
  <2>1. key \notin visited /\ visited' = visited \cup {key} /\ UNCHANGED outcome
    BY <1>2, <1>4 DEF Backend!Refused
  <2> HIDE DEF key
  <2> QED
    BY <1>1, <2>1, NewIsCloser
<1> QED
  BY <1>3, <1>4

\* The addresses of name servers are to be looked up, or one of these lookups is taken.
LEMMA ResolveIsCloser ==
    ASSUME ResolverInv, Backend!Unglued \/ Backend!Resolve
    PROVE  Backend!Closer
<1> DEFINE top == Backend!Top
<1>1. /\ stack \in Seq(Calls) /\ stack # <<>> /\ outcome = "open" /\ UNCHANGED outcome
  BY DEF ResolverInv, Backend!ResolverTypeOK, Calls, Backend!Unglued, Backend!Asking,
         Backend!Resolve
<1>2. top \in Calls
  BY <1>1, LastAndFront DEF Backend!Top
<1>3. /\ top.depth \in 1 .. MaxDepth /\ top.servers \in 1 .. MaxTry
      /\ top.pending \in Seq(Backend!Steps) /\ top.found \in BOOLEAN
  BY <1>2, CallChanges
<1>4. CASE Backend!Unglued
  <2>1. PICK n \in 1 .. MaxNs : \E servers \in [1 .. n -> Hosts] :
          stack' = Backend!Replaced([top EXCEPT !.resolving = TRUE, !.found = FALSE,
                                                !.pending = Backend!Lookups(servers, n)])
    BY <1>4 DEF Backend!Unglued
  <2> PICK servers \in [1 .. n -> Hosts] :
        stack' = Backend!Replaced([top EXCEPT !.resolving = TRUE, !.found = FALSE,
                                              !.pending = Backend!Lookups(servers, n)])
    BY <2>1
  <2> DEFINE next == [top EXCEPT !.resolving = TRUE, !.found = FALSE,
                                 !.pending = Backend!Lookups(servers, n)]
  <2>2. Backend!Lookups(servers, n) \in Seq(Backend!Steps)
    BY LookupsAreSteps
  <2>3. next \in Calls
    BY <1>2, <2>2, CallChanges
  <2>4. /\ next.depth = top.depth /\ next.servers = top.servers /\ next.resolving
        /\ ~top.resolving
    BY <1>2, <1>4 DEF Calls, Backend!Frames, Backend!Unglued, Backend!Asking
  <2>5. Backend!Lower(next, top)
    BY <2>4 DEF Backend!Lower
  <2>6. stack' = Backend!Replaced(next) /\ visited' = visited
    BY <1>4 DEF Backend!Unglued
  <2> HIDE DEF next
  <2> QED
    BY <1>1, <2>3, <2>5, <2>6, LowerIsCloser
<1>5. CASE Backend!Resolve
  <2> DEFINE step == Head(top.pending)
             rest == [top EXCEPT !.pending = Tail(top.pending)]
  <2>1. /\ Tail(top.pending) \in Seq(Backend!Steps)
        /\ Len(Tail(top.pending)) < Len(top.pending)
    <3>1. top.pending # <<>>
      BY <1>5 DEF Backend!Resolve
    <3> HIDE DEF top
    <3> QED
      BY <1>3, <3>1
  <2>2. rest \in Calls
    BY <1>2, <2>1, CallChanges
  <2>3. /\ rest.depth = top.depth /\ rest.servers = top.servers
        /\ rest.resolving = top.resolving /\ rest.pending = Tail(top.pending)
    BY <1>2 DEF Calls, Backend!Frames
  <2>4. Backend!Lower(rest, top)
    BY <2>1, <2>3 DEF Backend!Lower
  <2>5. IF step[2] = "trusted"
        THEN /\ \E known \in IF top.found \/ resolution = "iterative" THEN {FALSE}
                              ELSE BOOLEAN :
                   stack' = Backend!Replaced([rest EXCEPT !.found = rest.found \/ known])
             /\ UNCHANGED visited
        ELSE IF Backend!Refused(step, top.depth - 1, top.cnames)
        THEN stack' = Backend!Replaced(rest) /\ UNCHANGED visited
        ELSE /\ stack' = Append(Backend!Replaced(rest),
                                Backend!Frame(step, top.depth - 1, top.cnames))
             /\ visited' = visited \cup {step}
    BY <1>5 DEF Backend!Resolve
  <2> HIDE DEF rest, step
  <2>6. CASE step[2] = "trusted"
    <3>1. PICK known \in BOOLEAN :
            stack' = Backend!Replaced([rest EXCEPT !.found = rest.found \/ known])
      BY <2>5, <2>6
    <3> DEFINE next == [rest EXCEPT !.found = rest.found \/ known]
    <3>2. (rest.found \/ known) \in BOOLEAN
      OBVIOUS
    <3>3. next \in Calls
      BY <2>2, <3>2, CallChanges
    <3>4. /\ next.depth = rest.depth /\ next.servers = rest.servers
          /\ next.resolving = rest.resolving /\ next.pending = rest.pending
      BY <2>2 DEF Calls, Backend!Frames
    <3>5. Backend!Lower(next, top)
      BY <2>4, <3>4 DEF Backend!Lower
    <3>6. stack' = Backend!Replaced(next) /\ visited' = visited
      BY <2>5, <2>6, <3>1
    <3> HIDE DEF next
    <3> QED
      BY <1>1, <3>3, <3>5, <3>6, LowerIsCloser
  <2>7. CASE step[2] # "trusted" /\ Backend!Refused(step, top.depth - 1, top.cnames)
    <3>1. stack' = Backend!Replaced(rest) /\ visited' = visited
      BY <2>5, <2>7
    <3> QED
      BY <1>1, <2>2, <2>4, <3>1, LowerIsCloser
  <2>8. CASE step[2] # "trusted" /\ ~Backend!Refused(step, top.depth - 1, top.cnames)
    <3>1. visited' = visited \cup {step} /\ step \notin visited
      BY <2>5, <2>8 DEF Backend!Refused
    <3> QED
      BY <1>1, <3>1, NewIsCloser
  <2> QED
    BY <2>6, <2>7, <2>8
<1> QED
  BY <1>4, <1>5

\* Each step of a lookup is one of an order without infinite descent, whatever the servers
\* answer and however many levels, chains and servers there may be: what makes every
\* lookup end, as LookupEnds says (recursive_backend.rs:410-420, 427, 455, 484).
THEOREM LookupsComeCloser == Backend!Spec => Backend!AlwaysCloser
<1>1. ASSUME ResolverInv, [Backend!Next]_(Backend!lookupVars)
      PROVE  [Backend!Closer]_(Backend!lookupVars)
  <2>1. CASE Backend!Start
    BY <2>1 DEF Backend!Start, Backend!Closer
  <2>2. CASE Backend!Trusted
    BY <2>2 DEF Backend!Trusted, Backend!Closer, Backend!Results
  <2>3. ASSUME Backend!Answer \/ Backend!Useless \/ Backend!Glue \/ Backend!Resolved
        PROVE  Backend!Closer
    <3>1. stack \in Seq(Calls) /\ stack # <<>> /\ outcome = "open" /\ UNCHANGED visited
      BY <1>1, <2>3 DEF ResolverInv, Backend!ResolverTypeOK, Calls, Backend!Asking, Backend!Answer,
                  Backend!Useless, Backend!Glue, Backend!Resolved
    <3>2. \/ \E result \in Backend!Results : Backend!Return(result)
          \/ Backend!NextServer \/ Backend!NextLevel
      BY <2>3 DEF Backend!Answer, Backend!Useless, Backend!Glue, Backend!Resolved,
                  Backend!Results
    <3> QED
      BY <3>1, <3>2, ReturnIsCloser, NextIsCloser
  <2>4. CASE Backend!Cname
    BY <1>1, <2>4, CnameIsCloser
  <2>5. CASE Backend!Unglued \/ Backend!Resolve
    BY <1>1, <2>5, ResolveIsCloser
  <2>6. CASE UNCHANGED Backend!lookupVars
    BY <2>6
  <2> QED
    BY <1>1, <2>1, <2>2, <2>3, <2>4, <2>5, <2>6 DEF Backend!Next
<1>2. Backend!Init /\ [][Backend!Next]_(Backend!lookupVars) => []ResolverInv
  BY ResolverHolds
<1> QED
  BY <1>1, <1>2, PTL DEF Backend!Spec, Backend!AlwaysCloser

-----------------------------------------------------------------------------
(* Pipeline: what a context may carry where a plugin runs.                 *)

\* A context that breaks the chain off if it carries an address or a raw response, and
\* that carries one form of a response at most.
ContextSound(c) ==
    /\ DOMAIN c = {"response", "raw", "tags", "ecs", "abort", "hooks"}
    /\ c.response \in Replies \cup {None} /\ c.raw \in Replies \cup {None}
    /\ c.abort \in BOOLEAN /\ c.ecs \in BOOLEAN
    /\ c.hooks \subseteq Caches
    /\ c.raw # None \/ RecordsOf(c.response) # {} => c.abort
    /\ c.raw = None \/ c.response = None

\* A frame that a plugin was called from before the chain was broken off.
FrameSound(f) ==
    /\ DOMAIN f = {"at", "next", "saved", "branches"}
    /\ f.at \in PluginNames
    /\ f.next \in Nat \ {0}
    /\ f.branches \subseteq PluginNames
    /\ ContextSound(f.saved) /\ ~f.saved.abort

\* A sequence, of whatever.
IsSeq(s) == \E S : s \in Seq(S)

\* Every frame is sound.
FramesSound == IsSeq(frames) /\ \A i \in 1 .. Len(frames) : FrameSound(frames[i])

\* A context that breaks the chain off is only met where a sequence ends.
BrokenOff ==
    status = "go" =>
        /\ frames # <<>>
        /\ ctx.abort => IsSequence(Top) /\ ~AtStep(Top)

\* What the caches keep, and that hooks run once, at the end.
StoreSound ==
    /\ program \in DOMAIN Programs /\ query \in Questions
    /\ store \in [Caches -> [Questions -> Replies \cup {None}]]
    /\ written \subseteq Caches
    /\ status # "idle" => written = {}

\* What a client sees.
EndsTyped ==
    /\ status \in {"idle", "go", "ok", "err"}
    /\ sent \in Replies \cup {None}
    /\ left \in 0 .. MaxQueries

\* The inductive invariant.
IInv ==
    /\ FramesSound /\ ContextSound(ctx) /\ BrokenOff /\ StoreSound /\ EndsTyped
    /\ CachedIsSent

-----------------------------------------------------------------------------
(* Sequences of anything.                                                  *)

\* One element more.
LEMMA AppendIsSeq ==
    ASSUME NEW s, IsSeq(s), NEW x
    PROVE  /\ IsSeq(Append(s, x)) /\ Len(Append(s, x)) = Len(s) + 1 /\ Len(s) \in Nat
           /\ Append(s, x)[Len(s) + 1] = x
           /\ \A i \in 1 .. Len(s) : Append(s, x)[i] = s[i]
<1>1. PICK S : s \in Seq(S)
  BY DEF IsSeq
<1> DEFINE T == S \cup {x}
<1>2. s \in Seq(T) /\ x \in T
  BY <1>1, SeqDef
<1> HIDE DEF T
<1>3. Append(s, x) \in Seq(T)
  BY <1>2
<1> QED
  BY <1>2, <1>3 DEF IsSeq

\* The first elements.
LEMMA FrontIsSeq ==
    ASSUME NEW s, IsSeq(s), NEW n \in 0 .. Len(s)
    PROVE  /\ IsSeq(SubSeq(s, 1, n)) /\ Len(SubSeq(s, 1, n)) = n
           /\ \A i \in 1 .. n : SubSeq(s, 1, n)[i] = s[i]
<1>1. PICK S : s \in Seq(S)
  BY DEF IsSeq
<1>2. SubSeq(s, 1, n) \in Seq(S) /\ Len(SubSeq(s, 1, n)) = n
      /\ \A i \in 1 .. n : SubSeq(s, 1, n)[i] = s[i]
  BY <1>1
<1> QED
  BY <1>2 DEF IsSeq

\* One element in the place of another.
LEMMA ExceptIsSeq ==
    ASSUME NEW s, IsSeq(s), NEW n \in 1 .. Len(s), NEW x,
           NEW t, t = [s EXCEPT ![n] = x]
    PROVE  /\ IsSeq(t) /\ Len(t) = Len(s) /\ Len(s) \in Nat
           /\ t[n] = x
           /\ \A i \in 1 .. Len(s) : i # n => t[i] = s[i]
<1>1. PICK S : s \in Seq(S)
  BY DEF IsSeq
<1> DEFINE T == S \cup {x}
<1>2. s \in Seq(T) /\ x \in T
  BY <1>1, SeqDef
<1> HIDE DEF T
<1>3. /\ t \in Seq(T) /\ Len(t) = Len(s) /\ t[n] = x
      /\ \A i \in 1 .. Len(s) : i # n => t[i] = s[i]
  BY <1>2
<1> QED
  BY <1>2, <1>3 DEF IsSeq

-----------------------------------------------------------------------------
(* The plugins.                                                            *)

\* A context that is not broken off carries no address.
LEMMA NothingYet ==
    ASSUME NEW c, ContextSound(c), ~c.abort
    PROVE  c.raw = None /\ RecordsOf(c.response) = {}
BY DEF ContextSound

\* A response that stops the chain is sound whatever it is.
LEMMA SetSound ==
    ASSUME NEW c, ContextSound(c), NEW r \in Replies
    PROVE  ContextSound(SetResponse(c, r, TRUE)) /\ ContextSound(SetRawResponse(c, r, TRUE))
BY DEF ContextSound, SetResponse, SetRawResponse, RecordsOf

\* A reply without answers is a reply.
LEMMA EmptyIsReply ==
    ASSUME NEW by \in {"block", "servfail"}
    PROVE  Empty(by) \in Replies /\ RecordsOf(Empty(by)) = {}
<1>1. 0 \in 0 .. MaxTtl /\ {} \in SUBSET Addresses
  BY PipelineAssumption
<1>2. Empty(by) \in Replies
  BY <1>1 DEF Empty, Replies
<1>3. RecordsOf(Empty(by)) = {}
  BY DEF Empty, RecordsOf
<1> QED
  BY <1>2, <1>3

\* An empty response beside the chain, a tag and a note of the subnet are sound too.
LEMMA TouchSound ==
    ASSUME NEW c, ContextSound(c), ~c.abort, NEW tag
    PROVE  /\ ContextSound([c EXCEPT !.response = Empty("block")])
           /\ ContextSound(AddTag(c, tag))
           /\ ContextSound([c EXCEPT !.ecs = TRUE])
<1>1. ContextSound([c EXCEPT !.response = Empty("block")])
  BY EmptyIsReply DEF ContextSound
<1>2. ContextSound(AddTag(c, tag))
  BY DEF ContextSound, AddTag
<1>3. ContextSound([c EXCEPT !.ecs = TRUE])
  BY DEF ContextSound
<1> QED
  BY <1>1, <1>2, <1>3

\* No plugin makes an unsound context of one that is not broken off.
LEMMA HandledSound ==
    ASSUME ProgramsWired, StoreSound, NEW name \in PluginNames,
           ContextSound(ctx), ~ctx.abort,
           NEW c \in Handled(name, ctx)
    PROVE  ContextSound(c)
<1> DEFINE p == Plugin[name]
<1>1. ctx.raw = None /\ RecordsOf(ctx.response) = {}
  BY NothingYet
<1>2. \A r \in Replies : ContextSound(SetResponse(ctx, r, TRUE))
  BY SetSound
<1>3. \A tag :
        /\ ContextSound([ctx EXCEPT !.response = Empty("block")])
        /\ ContextSound(AddTag(ctx, tag))
        /\ ContextSound([ctx EXCEPT !.ecs = TRUE])
  BY TouchSound
<1>4. CASE p.kind = "cache"
  <2>1. c \in Lookup(name, ctx)
    BY <1>4 DEF Handled
  <2>2. name \in Caches
    BY <1>4 DEF Caches
  <2>3. ContextSound([ctx EXCEPT !.hooks = @ \cup {name}])
    BY <2>2 DEF ContextSound
  <2>4. CASE c = [ctx EXCEPT !.hooks = @ \cup {name}]
    BY <2>3, <2>4
  <2> DEFINE kept == store[name][query]
  <2>5. CASE /\ kept # None
             /\ \/ c = SetRawResponse(ctx, kept, TRUE)
                \/ c = SetResponse(ctx, kept, TRUE)
    <3>1. kept \in Replies
      BY <2>2, <2>5 DEF StoreSound
    <3> QED
      BY <2>5, <3>1, SetSound
  <2> QED
    BY <2>1, <2>4, <2>5 DEF Lookup
<1>5. CASE p.kind \in {"forward", "smart_forward", "aliapi"}
  <2>1. c \in Forwarded(ctx)
    BY <1>5 DEF Handled
  <2> QED
    BY <1>2, <2>1, EmptyIsReply DEF Forwarded, FromServers
<1>6. CASE p.kind = "smart_resolve"
  <2>1. c \in SmartResolve(ctx)
    BY <1>6 DEF Handled
  <2> QED
    BY <1>2, <2>1 DEF SmartResolve, FromServers
<1>7. CASE p.kind = "reject"
  <2>1. c \in Reject(p, ctx)
    BY <1>7 DEF Handled
  <2> DEFINE r == [by |-> "block", records |-> p.records \cap {query.type},
                   ttl |-> IF query.type \in p.records THEN MaxTtl ELSE 0]
  <2>2. p.records \subseteq Addresses
    BY <1>7 DEF ProgramsWired, StoreSound, Plugin, PluginNames
  <2>3. 0 \in 0 .. MaxTtl /\ MaxTtl \in 0 .. MaxTtl
    BY PipelineAssumption
  <2> HIDE DEF p
  <2>4. r.ttl \in 0 .. MaxTtl /\ r.records \in SUBSET Addresses
    BY <2>2, <2>3
  <2>5. r \in Replies
    BY <2>4 DEF Replies
  <2>6. c = SetResponse(ctx, r, TRUE)
    BY <2>1 DEF Reject
  <2> QED
    BY <1>2, <2>5, <2>6
<1>8. CASE p.kind = "hosts"
  <2>1. c \in HostsAnswer(p, ctx)
    BY <1>8 DEF Handled
  <2> DEFINE r == [by |-> "local", records |-> {query.type}, ttl |-> MaxTtl]
  <2>2. CASE query.type \in Addresses /\ c = SetResponse(ctx, r, TRUE)
    <3>1. MaxTtl \in 0 .. MaxTtl
      BY PipelineAssumption
    <3>2. r \in Replies
      BY <2>2, <3>1 DEF Replies
    <3> QED
      BY <1>2, <2>2, <3>2
  <2> HIDE DEF p
  <2>3. c = ctx \/ (query.type \in Addresses /\ c = SetResponse(ctx, r, TRUE))
    <3>1. CASE query.type \in HostRecords(p.list, query.name) \cap Addresses
      BY <2>1, <3>1 DEF HostsAnswer
    <3>2. CASE query.type \notin HostRecords(p.list, query.name) \cap Addresses
      BY <2>1, <3>2 DEF HostsAnswer
    <3> QED
      BY <3>1, <3>2
  <2> QED
    BY <2>2, <2>3
<1>9. CASE p.kind = "adblock"
  <2>1. c \in AdBlock(p, ctx)
    BY <1>9 DEF Handled
  <2> QED
    BY <1>3, <2>1 DEF AdBlock
<1>10. CASE p.kind = "ipv6_filter"
  <2>1. c \in Ipv6Filter(p, ctx)
    BY <1>10 DEF Handled
  <2> QED
    BY <1>3, <2>1 DEF Ipv6Filter
<1>11. CASE p.kind = "dga"
  <2>1. c \in Dga(p, ctx)
    BY <1>11 DEF Handled
  <2> QED
    BY <1>2, <2>1, EmptyIsReply DEF Dga
<1>12. CASE p.kind = "ratelimit"
  <2>1. c \in Limit(ctx)
    BY <1>12 DEF Handled
  <2> QED
    BY <1>2, <2>1, EmptyIsReply DEF Limit
<1>13. CASE p.kind \in {"matcher", "geosite"}
  <2>1. PICK m : c = Tagged(ctx, m, p)
    BY <1>13 DEF Handled
  <2> QED
    BY <1>3, <2>1 DEF Tagged
<1>14. CASE p.kind = "geoip"
  <2>1. c \in GeoIp(p, ctx)
    BY <1>14 DEF Handled
  <2> QED
    BY <1>3, <2>1 DEF GeoIp
<1>15. CASE p.kind = "ip_matcher"
  <2>1. c \in IpMatcher(p, ctx)
    BY <1>15 DEF Handled
  <2> QED
    BY <1>1, <2>1 DEF IpMatcher
<1>16. CASE p.kind = "ecs"
  <2>1. c \in InjectEcs(p, ctx)
    BY <1>16 DEF Handled
  <2> QED
    BY <1>3, <2>1 DEF InjectEcs
<1>17. CASE p.kind = "ttl"
  <2>1. c \in SetTtl(p, ctx)
    BY <1>17 DEF Handled
  <2> QED
    BY <1>1, <2>1 DEF SetTtl
<1>18. CASE p.kind = "dns64"
  <2>1. c \in Dns64(p, ctx)
    BY <1>18 DEF Handled
  <2> QED
    BY <1>1, <2>1 DEF Dns64
<1>19. CASE p.kind \notin {"cache", "forward", "smart_forward", "aliapi", "smart_resolve",
                           "reject", "hosts", "adblock", "ipv6_filter", "dga", "ratelimit",
                           "matcher", "geosite", "geoip", "ip_matcher", "ecs", "ttl",
                           "dns64"}
  BY <1>19 DEF Handled
<1> HIDE DEF p
<1> QED
  BY <1>4, <1>5, <1>6, <1>7, <1>8, <1>9, <1>10, <1>11, <1>12, <1>13, <1>14, <1>15,
     <1>16, <1>17, <1>18, <1>19

-----------------------------------------------------------------------------
(* Actions.                                                                *)

\* Nothing has been asked.
LEMMA InvInit == Init => IInv
<1> SUFFICES ASSUME Init PROVE IInv
  OBVIOUS
<1>1. IsSeq(frames) /\ Len(frames) = 0
  <2>1. frames = <<>> /\ <<>> \in Seq({})
    BY DEF Init
  <2> QED
    BY <2>1 DEF IsSeq
<1>2. ContextSound(ctx)
  BY DEF Init, FreshContext, ContextSound, RecordsOf
<1>3. StoreSound
  BY DEF Init, StoreSound
<1>4. EndsTyped
  BY PipelineAssumption DEF Init, EndsTyped
<1> QED
  BY <1>1, <1>2, <1>3, <1>4 DEF Init, IInv, FramesSound, BrokenOff, CachedIsSent

\* The top of the stack.
LEMMA TopSound ==
    ASSUME IInv, frames # <<>>
    PROVE  /\ Len(frames) \in Nat /\ Len(frames) \in 1 .. Len(frames)
           /\ FrameSound(Top) /\ IsSeq(frames)
<1>1. PICK S : frames \in Seq(S)
  BY DEF IInv, FramesSound, IsSeq
<1>2. Len(frames) \in Nat /\ Len(frames) \in 1 .. Len(frames)
  BY <1>1
<1> QED
  BY <1>2 DEF IInv, FramesSound, Top

\* A plugin that is called from a context that is not broken off.
LEMMA InvCall ==
    ASSUME ProgramsWired, IInv, ~ctx.abort, status # "idle",
           NEW name \in PluginNames, NEW base,
           IsSeq(base), \A i \in 1 .. Len(base) : FrameSound(base[i]),
           Call(name, base), Unchanged
    PROVE  IInv'
<1>1. /\ UNCHANGED <<program, query, store, written, sent>>
      /\ ContextSound(ctx) /\ StoreSound
      /\ PluginNames' = PluginNames /\ Caches' = Caches
  BY DEF Unchanged, IInv, PluginNames, Caches, Plugin
<1>0. StoreSound' /\ UNCHANGED left
  BY <1>1 DEF StoreSound, Unchanged, IInv
<1>2. CASE Plugin[name].kind \in {"sequence", "fallback"}
  <2> DEFINE f == Frame(name)
  <2>1. frames' = Append(base, f) /\ status' = "go" /\ ctx' = ctx
    BY <1>2 DEF Call
  <2>2. FrameSound(f)
    BY <1>1, <1>2 DEF Frame, FrameSound, ProgramsWired, StoreSound, Plugin, PluginNames
  <2> HIDE DEF f
  <2>3. /\ IsSeq(frames') /\ Len(frames') = Len(base) + 1 /\ Len(base) \in Nat
        /\ frames'[Len(base) + 1] = f
        /\ \A i \in 1 .. Len(base) : frames'[i] = base[i]
    BY <2>1, AppendIsSeq
  <2>4. \A i \in 1 .. Len(frames') : FrameSound(frames'[i])
    <3> SUFFICES ASSUME NEW i \in 1 .. Len(frames') PROVE FrameSound(frames'[i])
      OBVIOUS
    <3>1. i = Len(base) + 1 \/ i \in 1 .. Len(base)
      BY <2>3
    <3> QED
      BY <2>2, <2>3, <3>1
  <2>5. FramesSound'
    BY <1>1, <2>3, <2>4 DEF FramesSound, FrameSound, ContextSound
  <2>6. frames' # <<>>
    BY <2>3
  <2>7. EndsTyped' /\ ContextSound(ctx)'
    BY <1>0, <1>1, <2>1 DEF EndsTyped, IInv, ContextSound
  <2> QED
    BY <1>0, <1>1, <2>1, <2>5, <2>6, <2>7 DEF IInv, BrokenOff, CachedIsSent
<1>3. CASE Plugin[name].kind \notin {"sequence", "fallback"}
  <2>1. frames' = base /\ status' \in {"ok", "err"}
        /\ (ctx' = ctx \/ ctx' \in Handled(name, ctx))
    BY <1>3 DEF Call
  <2>2. ContextSound(ctx')
    BY <1>1, <2>1, HandledSound
  <2>3. EndsTyped' /\ ContextSound(ctx)'
    BY <1>0, <1>1, <2>1, <2>2 DEF EndsTyped, IInv, ContextSound
  <2>4. FramesSound'
    BY <1>1, <2>1 DEF FramesSound, FrameSound, ContextSound
  <2> QED
    BY <1>0, <1>1, <2>1, <2>3, <2>4 DEF IInv, BrokenOff, CachedIsSent
<1> QED
  BY <1>2, <1>3

\* A frame that goes on at another step, or without one of its branches.
LEMMA Changed ==
    ASSUME IInv, frames # <<>>, NEW f, FrameSound(f)
    PROVE  LET base == [frames EXCEPT ![Len(frames)] = f] IN
           /\ IsSeq(base) /\ Len(base) = Len(frames) /\ base # <<>>
           /\ base[Len(frames)] = f
           /\ \A i \in 1 .. Len(base) : FrameSound(base[i])
<1> DEFINE base == [frames EXCEPT ![Len(frames)] = f]
<1>1. Len(frames) \in 1 .. Len(frames) /\ IsSeq(frames)
  BY TopSound
<1>2. /\ IsSeq(base) /\ Len(base) = Len(frames) /\ Len(frames) \in Nat
      /\ base[Len(frames)] = f
      /\ \A i \in 1 .. Len(frames) : i # Len(frames) => base[i] = frames[i]
  BY <1>1, ExceptIsSeq
<1> HIDE DEF base
<1>3. base # <<>>
  BY <1>1, <1>2
<1>4. \A i \in 1 .. Len(base) : FrameSound(base[i])
  BY <1>1, <1>2 DEF IInv, FramesSound
<1> QED
  BY <1>2, <1>3, <1>4 DEF base

\* A sequence goes on: past a step that is not for the query, or after one that is.
LEMMA InvAdvance ==
    ASSUME ProgramsWired, IInv, Skip \/ Continue PROVE IInv'
<1>1. frames # <<>>
  BY DEF Skip, Continue, IInv, BrokenOff
<1>2. FrameSound(Top) /\ Len(frames) \in 1 .. Len(frames)
  BY <1>1, TopSound
<1>3. /\ UNCHANGED <<program, query, store, written, sent, ctx>>
      /\ status' = "go" /\ status # "idle" /\ IsSequence(Top)
  BY DEF Skip, Continue, Unchanged, AtStep
<1>4. Len(Steps(Top)) \in Nat
  BY <1>2, <1>3
     DEF ProgramsWired, IsSequence, Steps, FrameSound, IInv, StoreSound, Plugin, PluginNames
<1>5. PICK n \in Nat \ {0} :
        /\ frames' = Advanced(n)
        /\ ctx.abort => n = Len(Steps(Top)) + 1
  <2>1. CASE Skip
    <3>1. ~ctx.abort /\ frames' = Advanced(Top.next + 1)
      BY <2>1 DEF Skip, IInv, BrokenOff
    <3> QED
      BY <1>2, <3>1 DEF FrameSound
  <2>2. CASE Continue
    BY <1>2, <1>4, <2>2 DEF Continue, FrameSound
  <2> QED
    BY <2>1, <2>2
<1> DEFINE f == [Top EXCEPT !.next = n]
<1>6. FrameSound(f) /\ f.at = Top.at /\ f.next = n
  BY <1>2 DEF FrameSound
<1>7. frames' = [frames EXCEPT ![Len(frames)] = f]
  BY <1>2, <1>5 DEF Advanced, Top
<1> HIDE DEF f
<1>8. /\ IsSeq(frames') /\ Len(frames') = Len(frames) /\ frames' # <<>>
      /\ frames'[Len(frames)] = f
      /\ \A i \in 1 .. Len(frames') : FrameSound(frames'[i])
  BY <1>1, <1>6, <1>7, Changed
<1>9. PluginNames' = PluginNames /\ Caches' = Caches /\ Plugin' = Plugin
  BY <1>3 DEF PluginNames, Caches, Plugin
<1>10. Top' = f
  BY <1>8 DEF Top
<1>11. (ctx.abort => IsSequence(Top) /\ ~AtStep(Top))'
  BY <1>3, <1>4, <1>5, <1>6, <1>9, <1>10 DEF IsSequence, AtStep, Steps
<1>12. StoreSound' /\ EndsTyped' /\ ContextSound(ctx)'
  <2>1. UNCHANGED left
    BY DEF Skip, Continue, Unchanged
  <2>2. StoreSound'
    BY <1>3, <1>9 DEF IInv, StoreSound
  <2>3. EndsTyped'
    BY <1>3, <2>1 DEF IInv, EndsTyped
  <2>4. ContextSound(ctx)'
    BY <1>3, <1>9 DEF IInv, ContextSound
  <2> QED
    BY <2>2, <2>3, <2>4
<1>13. FramesSound'
  BY <1>8, <1>9 DEF FramesSound, FrameSound, ContextSound
<1> QED
  BY <1>3, <1>8, <1>11, <1>12, <1>13 DEF IInv, BrokenOff, CachedIsSent

\* A step executes its plugin, or a fallback one of its branches.
LEMMA InvEnter ==
    ASSUME ProgramsWired, IInv, Execute \/ Branch PROVE IInv'
<1>1. frames # <<>> /\ status = "go" /\ Unchanged
  BY DEF Execute, Branch, IInv, BrokenOff
<1>2. FrameSound(Top) /\ Len(frames) \in 1 .. Len(frames) /\ IsSeq(frames)
  BY <1>1, TopSound
<1>3. ~ctx.abort
  BY <1>1 DEF Execute, Branch, IInv, BrokenOff
<1>4. CASE Execute
  <2> DEFINE name == Steps(Top)[Top.next].exec
  <2>1. Call(name, frames) /\ IsSequence(Top) /\ Top.next <= Len(Steps(Top))
    BY <1>4 DEF Execute, AtStep
  <2>2. name \in PluginNames
    BY <1>2, <2>1
       DEF ProgramsWired, IsSequence, Steps, FrameSound, IInv, StoreSound, Plugin,
           PluginNames
  <2> HIDE DEF name
  <2>3. \A i \in 1 .. Len(frames) : FrameSound(frames[i])
    BY DEF IInv, FramesSound
  <2> QED
    BY <1>1, <1>2, <1>3, <2>1, <2>2, <2>3, InvCall
<1>5. CASE Branch
  <2>1. PICK b \in Top.branches :
          Call(b, [frames EXCEPT ![Len(frames)].branches = @ \ {b}])
    BY <1>5 DEF Branch
  <2> DEFINE f == [Top EXCEPT !.branches = @ \ {b}]
             base == [frames EXCEPT ![Len(frames)] = f]
  <2>2. FrameSound(f) /\ b \in PluginNames
    BY <1>2 DEF FrameSound
  <2>3. Call(b, base)
    BY <1>2, <2>1 DEF Top
  <2> HIDE DEF f
  <2>4. IsSeq(base) /\ \A i \in 1 .. Len(base) : FrameSound(base[i])
    BY <1>1, <2>2, Changed
  <2> HIDE DEF base
  <2> QED
    BY <1>1, <1>3, <2>2, <2>3, <2>4, InvCall
<1> QED
  BY <1>4, <1>5

\* A frame is left, or the frames above one that times out.
LEMMA InvReturn ==
    ASSUME IInv, Leave \/ Settle \/ TimeOut PROVE IInv'
<1>1. /\ UNCHANGED <<program, query, store, written, sent>>
      /\ status # "idle" /\ status' # "idle"
  BY DEF Leave, Settle, TimeOut, Unchanged
<1>2. PluginNames' = PluginNames /\ Caches' = Caches
  BY <1>1 DEF PluginNames, Caches, Plugin
<1>3. PICK S : frames \in Seq(S)
  BY DEF IInv, FramesSound, IsSeq
<1>4. PICK n \in 0 .. Len(frames) : frames' = frames \/ frames' = SubSeq(frames, 1, n)
  <2>1. CASE Leave \/ Settle
    <3>1. frames # <<>> /\ (frames' = Left \/ frames' = frames)
      BY <2>1 DEF Leave, Settle
    <3>2. Len(frames) - 1 \in 0 .. Len(frames)
      BY <1>3, <3>1
    <3> QED
      BY <3>1, <3>2 DEF Left
  <2>2. CASE TimeOut
    <3>1. PICK i \in DOMAIN frames : frames' = SubSeq(frames, 1, i)
      BY <2>2 DEF TimeOut
    <3>2. i \in 0 .. Len(frames)
      BY <1>3
    <3> QED
      BY <3>1, <3>2
  <2> QED
    BY <2>1, <2>2
<1>5. IsSeq(frames') /\ \A i \in 1 .. Len(frames') : FrameSound(frames'[i])
  <2>1. CASE frames' = frames
    BY <2>1 DEF IInv, FramesSound
  <2>2. CASE frames' = SubSeq(frames, 1, n)
    <3>1. /\ IsSeq(frames') /\ Len(frames') = n
          /\ \A i \in 1 .. n : frames'[i] = frames[i]
      BY <2>2, FrontIsSeq DEF IInv, FramesSound
    <3>2. \A i \in 1 .. n : i \in 1 .. Len(frames)
      BY <1>3
    <3> QED
      BY <3>1, <3>2 DEF IInv, FramesSound
  <2> QED
    BY <1>4, <2>1, <2>2
<1>6. ContextSound(ctx')
  <2>1. CASE ctx' = ctx
    BY <2>1 DEF IInv
  <2>2. CASE frames # <<>> /\ ctx' = Top.saved
    BY <2>2, TopSound DEF FrameSound
  <2> QED
    BY <2>1, <2>2 DEF Leave, Settle, TimeOut
<1>7. status' = "go" => frames' # <<>> /\ ~ctx'.abort
  <2> SUFFICES ASSUME status' = "go" PROVE frames' # <<>> /\ ~ctx'.abort
    OBVIOUS
  <2>1. frames # <<>> /\ frames' = frames /\ ctx' = Top.saved
    BY DEF Leave, Settle, TimeOut
  <2> QED
    BY <2>1, TopSound DEF FrameSound
<1>8. StoreSound' /\ EndsTyped'
  <2>1. UNCHANGED left /\ status' \in {"ok", "err", "go"}
    BY DEF IInv, EndsTyped, Leave, Settle, TimeOut, Unchanged
  <2>2. StoreSound'
    BY <1>1, <1>2 DEF IInv, StoreSound
  <2>3. EndsTyped'
    BY <1>1, <2>1 DEF IInv, EndsTyped
  <2> QED
    BY <2>2, <2>3
<1>9. FramesSound' /\ ContextSound(ctx)'
  BY <1>2, <1>5, <1>6 DEF FramesSound, FrameSound, ContextSound
<1> QED
  BY <1>1, <1>7, <1>8, <1>9 DEF IInv, BrokenOff, CachedIsSent

\* A query comes, and is answered or not.
LEMMA InvEnds ==
    ASSUME ProgramsWired, IInv, Accept \/ Finish \/ Abandon PROVE IInv'
<1>1. program' = program /\ PluginNames' = PluginNames /\ Caches' = Caches
      /\ Plugin' = Plugin
  BY DEF Accept, Finish, Abandon, Unchanged, PluginNames, Caches, Plugin
<1>2. CASE Accept
  <2> DEFINE f == [at |-> "main", next |-> 1, saved |-> FreshContext, branches |-> {}]
  <2>1. frames' = <<f>> /\ ctx' = FreshContext /\ status' = "go" /\ written' = {}
        /\ query' \in Questions /\ store' = store
    BY <1>2 DEF Accept
  <2>2. ContextSound(FreshContext) /\ ~FreshContext.abort
    BY DEF FreshContext, ContextSound, RecordsOf
  <2>3. FrameSound(f)
    BY <2>2 DEF FrameSound, ProgramsWired, IInv, StoreSound, PluginNames, Plugin
  <2> HIDE DEF f
  <2>4. <<f>> \in Seq({f}) /\ Len(<<f>>) = 1 /\ <<f>>[1] = f /\ <<f>> # <<>>
    OBVIOUS
  <2>5. IsSeq(frames')
    BY <2>1, <2>4 DEF IsSeq
  <2>6. \A i \in 1 .. Len(frames') : FrameSound(frames'[i])
    <3> SUFFICES ASSUME NEW i \in 1 .. Len(frames') PROVE FrameSound(frames'[i])
      OBVIOUS
    <3>1. i = 1
      BY <2>1, <2>4
    <3> QED
      BY <2>1, <2>3, <2>4, <3>1
  <2>7. StoreSound'
    BY <1>1, <2>1 DEF IInv, StoreSound
  <2>8. EndsTyped'
    BY <1>2, PipelineAssumption DEF Accept, IInv, EndsTyped
  <2>9. FramesSound' /\ ContextSound(ctx)'
    BY <1>1, <2>1, <2>2, <2>5, <2>6 DEF FramesSound, FrameSound, ContextSound
  <2> QED
    BY <1>1, <2>1, <2>2, <2>4, <2>7, <2>8, <2>9 DEF IInv, BrokenOff, CachedIsSent
<1>3. CASE Finish
  <2>1. /\ written' \subseteq ctx.hooks
        /\ ctx.response = None => written' = {}
        /\ store' = [n \in DOMAIN store |->
                       IF n \in written' THEN [store[n] EXCEPT ![query] = ctx.response]
                       ELSE store[n]]
        /\ sent' = ResponseBytes(ctx) /\ status' = "idle"
        /\ UNCHANGED <<query, ctx, frames>>
    BY <1>3 DEF Finish
  <2>2. ContextSound(ctx) /\ StoreSound
    BY DEF IInv
  <2>3. \A n \in written' : n \in Caches
    BY <2>1, <2>2 DEF ContextSound
  <2>4. \A n \in written' : store'[n][query] = sent'
    BY <2>1, <2>2, <2>3 DEF ContextSound, StoreSound, ResponseBytes
  <2>5. /\ store' \in [Caches -> [Questions -> Replies \cup {None}]]
        /\ written' \subseteq Caches
    BY <2>1, <2>2, <2>3 DEF ContextSound, StoreSound
  <2>6. StoreSound'
    BY <1>1, <2>1, <2>2, <2>5 DEF StoreSound
  <2>7. sent' \in Replies \cup {None}
    BY <2>1, <2>2 DEF ContextSound, ResponseBytes
  <2>8. EndsTyped'
    BY <1>3, <2>1, <2>7 DEF Finish, IInv, EndsTyped
  <2>9. FramesSound' /\ ContextSound(ctx)'
    BY <1>1, <2>1 DEF IInv, FramesSound, FrameSound, ContextSound
  <2> QED
    BY <1>1, <2>1, <2>4, <2>6, <2>8, <2>9 DEF IInv, BrokenOff, CachedIsSent
<1>4. CASE Abandon
  BY <1>1, <1>4
     DEF Abandon, Unchanged, IInv, FramesSound, FrameSound, ContextSound, BrokenOff,
         StoreSound, EndsTyped, CachedIsSent
<1> QED
  BY <1>2, <1>3, <1>4

-----------------------------------------------------------------------------
\* The inductive invariant holds throughout.
LEMMA InvHolds == ASSUME ProgramsWired PROVE Spec => []IInv
<1>1. IInv /\ [Next]_pipelineVars => IInv'
  <2> SUFFICES ASSUME IInv, [Next]_pipelineVars PROVE IInv'
    OBVIOUS
  <2>1. CASE UNCHANGED pipelineVars
    <3>1. /\ UNCHANGED <<program, query, ctx, frames, status, store, written, sent, left>>
          /\ PluginNames' = PluginNames /\ Caches' = Caches /\ Plugin' = Plugin
      BY <2>1 DEF pipelineVars, PluginNames, Caches, Plugin
    <3>2. FramesSound' /\ ContextSound(ctx)'
      BY <3>1 DEF IInv, FramesSound, FrameSound, ContextSound
    <3>3. BrokenOff' /\ CachedIsSent'
      BY <3>1 DEF IInv, BrokenOff, CachedIsSent, Top, IsSequence, AtStep, Steps
    <3>4. StoreSound' /\ EndsTyped'
      BY <3>1 DEF IInv, StoreSound, EndsTyped
    <3> QED
      BY <3>2, <3>3, <3>4 DEF IInv
  <2>2. CASE Next
    BY <2>2, InvAdvance, InvEnter, InvReturn, InvEnds DEF Next
  <2> QED
    BY <2>1, <2>2
<1> QED
  BY <1>1, InvInit, PTL DEF Spec

\* Whatever a program does with a query, its caches keep what the client is sent
\* (server.rs:608-645, context.rs:229-260).
THEOREM CachesKeepWhatIsSent == ASSUME ProgramsWired PROVE Spec => []CachedIsSent
<1>1. IInv => CachedIsSent
  BY DEF IInv
<1> QED
  BY <1>1, InvHolds, PTL

\* No plugin of any program runs on a context that carries an address
\* (sequence.rs:40-44): that TtlApplied fails, as PipelineTtl.cfg shows of one program, is
\* not to be mended by another configuration.
THEOREM AnswersEndEveryChain == ASSUME ProgramsWired PROVE Spec => []AnswersEndTheChain
<1>1. IInv => AnswersEndTheChain
  BY DEF IInv, BrokenOff, ContextSound, AnswersEndTheChain, Answers, RecordsOf
<1> QED
  BY <1>1, InvHolds, PTL

\* The invariant has the types.
LEMMA PipelineTyped == IInv => PipelineTypeOK
<1> SUFFICES ASSUME IInv PROVE PipelineTypeOK
  OBVIOUS
<1>1. \A i \in DOMAIN frames : frames[i].at \in PluginNames
  <2>1. PICK S : frames \in Seq(S)
    BY DEF IInv, FramesSound, IsSeq
  <2> QED
    BY <2>1 DEF IInv, FramesSound, FrameSound
<1>2. /\ DOMAIN store = Caches
      /\ \A n \in DOMAIN store : store[n] \in [Questions -> Replies \cup {None}]
  BY DEF IInv, StoreSound
<1> QED
  BY <1>1, <1>2 DEF IInv, ContextSound, StoreSound, EndsTyped, PipelineTypeOK

-----------------------------------------------------------------------------
(* The parts side by side.                                                 *)

\* What is kept while one part moves is what its own specification starts from and steps
\* by.
LEMMA EachByItself ==
    AllSpec => /\ Listener!Init /\ [][Listener!Next]_(Listener!serverVars)
               /\ Upstream!Init /\ [][Upstream!Next]_(Upstream!transportVars)
               /\ Xdp!Spec /\ Factory!Spec
               /\ Backend!Init /\ [][Backend!Next]_(Backend!lookupVars)
               /\ Spec
<1>1. AllInit => /\ Listener!Init /\ Upstream!Init /\ Xdp!Init /\ Factory!Init
                 /\ Backend!Init /\ Init
  BY DEF AllInit
<1>2. ASSUME [AllNext]_allVars
      PROVE  /\ [Listener!Next]_(Listener!serverVars)
             /\ [Upstream!Next]_(Upstream!transportVars)
             /\ [Xdp!Next]_(Xdp!kernelVars)
             /\ [Factory!Next]_(Factory!registryVars)
             /\ [Backend!Next]_(Backend!lookupVars)
             /\ [Next]_pipelineVars
  <2>1. /\ Listener!Next \/ UNCHANGED serverVars
        /\ Upstream!Next \/ UNCHANGED transportVars
        /\ Xdp!Next \/ UNCHANGED kernelVars
        /\ Factory!Next \/ UNCHANGED registryVars
        /\ Backend!Next \/ UNCHANGED lookupVars
        /\ Next \/ UNCHANGED pipelineVars
    BY <1>2 DEF AllNext, allVars, ServerMoves, TransportMoves, KernelMoves, RegistryMoves,
                ResolverMoves, PipelineMoves
  <2>2. /\ UNCHANGED serverVars => UNCHANGED Listener!serverVars
        /\ UNCHANGED transportVars => UNCHANGED Upstream!transportVars
        /\ UNCHANGED kernelVars => UNCHANGED Xdp!kernelVars
        /\ UNCHANGED registryVars => UNCHANGED Factory!registryVars
        /\ UNCHANGED lookupVars => UNCHANGED Backend!lookupVars
    BY DEF serverVars, transportVars, kernelVars, registryVars, lookupVars,
           Listener!serverVars, Listener!mainVars, Listener!poolVars, Listener!sendVars,
           Upstream!transportVars, Xdp!kernelVars, Factory!registryVars, Backend!lookupVars
  <2> QED
    BY <2>1, <2>2
<1> QED
  BY <1>1, <1>2, PTL DEF AllSpec, Xdp!Spec, Factory!Spec, Spec

\* Every state of every part is one its types allow, whatever the sizes of its queues and
\* pools and the depth of its lookups (server.rs, forward.rs, cache.rs, plugin_factory.rs,
\* recursive_backend.rs, context.rs): no queue, batch or pool outgrows its bound, and no
\* two calls of a lookup under way are for the same name and type.
THEOREM ServicePartsAreTyped == AllSpec => []PartsTypeOK
<1>1. /\ ServerInv => Listener!ServerTypeOK
      /\ KernelInv => Xdp!KernelCacheTypeOK
      /\ RegistryInv => Factory!RegistryTypeOK
      /\ ResolverInv => Backend!ResolverTypeOK
  BY DEF ServerInv, KernelInv, RegistryInv, ResolverInv
<1>2. AllSpec => []Listener!ServerTypeOK
  BY <1>1, EachByItself, ServerHolds, PTL
<1>3. AllSpec => []Upstream!TransportTypeOK
  BY EachByItself, TransportHolds, PTL
<1>4. AllSpec => []Xdp!KernelCacheTypeOK
  BY <1>1, EachByItself, KernelHolds, PTL
<1>5. AllSpec => []Factory!RegistryTypeOK
  BY <1>1, EachByItself, RegistryHolds, PTL
<1>6. AllSpec => []Backend!ResolverTypeOK
  BY <1>1, EachByItself, ResolverHolds, PTL
<1>7. AllSpec => []PipelineTypeOK
  <2>1. Spec => []IInv
    BY ProgramsAreWired, InvHolds
  <2> QED
    BY <2>1, EachByItself, PipelineTyped, PTL
<1> QED
  BY <1>2, <1>3, <1>4, <1>5, <1>6, <1>7, PTL DEF PartsTypeOK

\* In the whole, as Service.cfg checks it, the invariants of its parts hold together
\* (server.rs:428-439, forward.rs:694, 1124, 1395, bpf.rs:135, plugin_factory.rs:879-926,
\* server.rs:608-645).
THEOREM ServicePartsAreSafe ==
    AllSpec => [](/\ NoReplyStranded /\ RepliesAreOwn /\ KernelAgeBounded /\ BuiltIsClosed
                  /\ CachedIsSent)
<1>1. AllSpec => []NoReplyStranded
  <2>1. ServerInv => NoReplyStranded
    BY DEF ServerInv
  <2> QED
    BY <2>1, EachByItself, ServerHolds, PTL
<1>2. AllSpec => []RepliesAreOwn
  <2>1. UpstreamLaws!ConduitsDiffer
    BY ConduitsAreDifferent
       DEF Upstream!ConduitsDiffer, UpstreamLaws!ConduitsDiffer, Upstream!Conduits,
           UpstreamLaws!Conduits
  <2>2. UpstreamLaws!Spec => []UpstreamLaws!RepliesAreOwn
    BY <2>1, UpstreamLaws!RepliesAreTheQuerys
  <2>3. UpstreamLaws!RepliesAreOwn => RepliesAreOwn
    BY DEF UpstreamLaws!RepliesAreOwn, RepliesAreOwn, UpstreamLaws!Over, Over
  <2> QED
    BY <2>2, <2>3, EachByItself, SameInit, SameStep, PTL DEF UpstreamLaws!Spec
<1>3. AllSpec => []KernelAgeBounded
  BY EachByItself, KernelAgeIsBounded, PTL
<1>4. AllSpec => []BuiltIsClosed
  BY EachByItself, WhatIsBuiltIsClosed, PTL
<1>5. AllSpec => []CachedIsSent
  <2>1. Spec => []CachedIsSent
    BY ProgramsAreWired, CachesKeepWhatIsSent
  <2> QED
    BY <2>1, EachByItself, PTL
<1> QED
  BY <1>1, <1>2, <1>3, <1>4, <1>5, PTL
=============================================================================
