-------------------------- MODULE TransportProofs --------------------------
(***************************************************************************)
(* Proofs about Transport: whose reply a query gets, for any number of     *)
(* queries, ports and connections, any pool and any number of retries.     *)
(***************************************************************************)
EXTENDS Transport, SequenceTheorems, TLAPS

Kinds == {"udp", "tcp", "doh", "dot", "doq", "tunnel"}
Stages == {"new"} \cup Awaiting \cup Over

\* The part of the types that the argument needs.
Typed ==
    /\ kind \in Kinds
    /\ stage \in [Queries -> Stages]
    /\ via \in [Queries -> Conduits \cup {None}]
    /\ wire \in [Conduits -> SUBSET Queries]
    /\ pool \in Seq(Conns)
    /\ got \in [Queries -> Queries \cup {None}]

\* What a stage says of the conduit and of the reply.
Staged ==
    \A q \in Queries :
        /\ stage[q] \in {"new", "opening", "associating", "associated", "sent"} => got[q] = None
        /\ stage[q] \in {"new", "associating", "associated"} => via[q] = None
        /\ stage[q] = "opening" => via[q] \in Ports \cup {None}
        /\ stage[q] = "sent" => via[q] # None
        /\ stage[q] = "taken" => via[q] \in Conns
        /\ via[q] = Tunnel => kind = "tunnel"
        /\ stage[q] \in {"associating", "associated"} => kind = "tunnel"
        /\ stage[q] = "opening" => kind # "tunnel"
        /\ kind = "tunnel" => via[q] \in {None, Tunnel}
        /\ via[q] \in Ports => kind = "udp"

Using(q, c) == via[q] = c /\ stage[q] \in {"sent", "taken"}

\* A connection that is not shared carries one query, and what can be read there is its.
Private ==
    kind # "doq" =>
        \A c \in Conns :
            /\ \A p, q \in Queries : Using(p, c) /\ Using(q, c) => p = q
            /\ \A r \in wire[c] : via[r] = c /\ stage[r] = "sent"

\* The pool holds connections that no query uses, each once.
Pooled ==
    kind # "doq" =>
        /\ \A i, j \in 1 .. Len(pool) : pool[i] = pool[j] => i = j
        /\ \A i \in 1 .. Len(pool), q \in Queries : ~Using(q, pool[i])

\* The tunnel carries one query at a time, and replies to those that were sent there.
Tunnelled ==
    kind = "tunnel" =>
        /\ \A p, q \in Queries :
              stage[p] \in {"associating", "sent"} /\ stage[q] \in {"associating", "sent"}
                 => p = q
        /\ \A r \in wire[Tunnel] : stage[r] = "sent" \/ stage[r] \in Over

IInv == Typed /\ Staged /\ Private /\ Pooled /\ Tunnelled /\ RepliesAreOwn

\* Nothing has been sent.
LEMMA InvInit == ASSUME ConduitsDiffer PROVE Init => IInv
<1> SUFFICES ASSUME Init PROVE IInv
  OBVIOUS
<1>1. pool = <<>> /\ Len(pool) = 0 /\ pool \in Seq(Conns)
  BY DEF Init
<1>2. Typed
  BY <1>1 DEF Init, Typed, Kinds, Stages
<1> QED
  BY <1>1, <1>2 DEF Init, ConduitsDiffer, Conduits, IInv, Staged, Private, Pooled,
                    Tunnelled, RepliesAreOwn, Using

-----------------------------------------------------------------------------
(* Sending.                                                                *)

\* A query that is sent over a conduit no other is waiting for leaves all as it was.
LEMMA SentKeeps ==
    ASSUME ConduitsDiffer, IInv, NEW q \in Queries, NEW c \in Conduits, Sent(q, c),
           stage[q] \in {"new", "opening", "associated"},
           UNCHANGED <<kind, got>>,
           pool' \in Seq(Conns),
           c \in Conns /\ kind # "doq" => \A p \in Queries : ~Using(p, c),
           kind # "doq" =>
              /\ \A i, j \in 1 .. Len(pool') : pool'[i] = pool'[j] => i = j
              /\ \A i \in 1 .. Len(pool') :
                    pool'[i] # c /\ \E j \in 1 .. Len(pool) : pool'[i] = pool[j],
           c = Tunnel <=> kind = "tunnel",
           c \in Ports => kind = "udp",
           kind = "tunnel" => ~Locked
    PROVE  IInv'
<1>1. /\ stage' = [stage EXCEPT ![q] = "sent"]
      /\ via' = [via EXCEPT ![q] = c]
      /\ wire' = [wire EXCEPT ![c] = @ \cup {q}]
      /\ kind' = kind /\ got' = got
  BY DEF Sent, Goes
<1> USE DEF IInv
<1>2. Typed'
  BY <1>1 DEF Typed, Stages, Awaiting
<1>3. /\ stage'[q] = "sent" /\ via'[q] = c
      /\ \A p \in Queries \ {q} : stage'[p] = stage[p] /\ via'[p] = via[p]
      /\ \A d \in Conduits \ {c} : wire'[d] = wire[d]
      /\ wire'[c] = wire[c] \cup {q}
  BY <1>1 DEF Typed
<1>4. got[q] = None
  BY DEF Staged
<1>5. Staged'
  BY <1>1, <1>3, <1>4 DEF Staged, ConduitsDiffer, Conduits
<1>6. Private'
  <2> SUFFICES ASSUME kind # "doq", NEW d \in Conns
               PROVE  /\ \A p, r \in Queries : Using(p, d)' /\ Using(r, d)' => p = r
                      /\ \A r \in wire'[d] : via'[r] = d /\ stage'[r] = "sent"
    BY <1>1 DEF Private
  <2>1. d \in Conduits /\ wire[d] \subseteq Queries
    BY DEF Conduits, Typed
  <2>2. CASE d = c
    <3>1. \A p \in Queries : Using(p, d)' => p = q
      BY <1>3, <2>2 DEF Using
    <3>2. wire[d] = {}
      BY <2>1, <2>2 DEF Private, Using
    <3> QED
      BY <1>3, <2>2, <3>1, <3>2
  <2>3. CASE d # c
    <3>1. \A p \in Queries : Using(p, d)' => p # q /\ Using(p, d)
      BY <1>3, <2>3 DEF Using
    <3>2. \A r \in wire[d] : r # q
      BY <2>1 DEF Private
    <3> QED
      BY <1>3, <2>1, <2>3, <3>1, <3>2 DEF Private
  <2> QED
    BY <2>2, <2>3
<1>7. Pooled'
  <2> SUFFICES ASSUME kind # "doq", NEW i \in 1 .. Len(pool'), NEW p \in Queries
               PROVE  ~(via'[p] = pool'[i] /\ stage'[p] \in {"sent", "taken"})
    BY <1>1 DEF Pooled, Using
  <2>1. PICK j \in 1 .. Len(pool) : pool'[i] = pool[j]
    OBVIOUS
  <2>2. pool'[i] # c /\ ~Using(p, pool[j])
    BY DEF Pooled
  <2> QED
    BY <1>3, <2>1, <2>2 DEF Using
<1>8. Tunnelled'
  <2> SUFFICES ASSUME kind = "tunnel" PROVE Tunnelled'
    BY <1>1 DEF Tunnelled
  <2>1. c = Tunnel /\ \A p \in Queries : stage[p] \notin {"associating", "sent"}
    BY DEF Locked
  <2>2. wire[Tunnel] \subseteq Queries
    BY DEF Typed, Conduits
  <2> QED
    BY <1>1, <1>3, <2>1, <2>2 DEF Tunnelled
<1>9. RepliesAreOwn'
  <2>1. \A p \in Queries : p # q => stage'[p] = stage[p]
    BY <1>3
  <2>2. got \in [Queries -> Queries \cup {None}]
    BY DEF Typed
  <2> SUFFICES ASSUME NEW p \in Queries, got[p] \notin {None, p}
               PROVE  \/ via'[p] \in Ports
                      \/ via'[p] = Tunnel /\ stage'[got[p]] \in Over
    BY <1>1 DEF RepliesAreOwn, ConduitsDiffer
  <2>3. p # q
    BY <1>4
  <2>4. via[p] = Tunnel /\ stage[got[p]] \in Over => got[p] # q
    BY DEF Over
  <2> QED
    BY <1>3, <2>1, <2>2, <2>3, <2>4 DEF RepliesAreOwn
<1> QED
  BY <1>2, <1>5, <1>6, <1>7, <1>8, <1>9

-----------------------------------------------------------------------------
(* How an exchange begins.                                                 *)

\* A query that does not send yet.
LEMMA GoesKeeps ==
    ASSUME ConduitsDiffer, IInv, NEW q \in Queries,
           NEW next \in {"opening", "associating", "associated"}, Goes(q, next),
           stage[q] \in {"new", "associating"},
           UNCHANGED <<kind, via, wire, got>>,
           pool' \in {pool, <<>>},
           next = "opening" <=> kind # "tunnel",
           next = "associating" => ~Locked
    PROVE  IInv'
<1>1. /\ stage' = [stage EXCEPT ![q] = next]
      /\ kind' = kind /\ via' = via /\ wire' = wire /\ got' = got
  BY DEF Goes
<1>2. pool' \in Seq(Conns) /\ (pool' = pool \/ Len(pool') = 0)
  <2>1. CASE pool' = pool
    BY <2>1 DEF IInv, Typed
  <2>2. CASE pool' = <<>>
    BY <2>2
  <2> QED
    BY <2>1, <2>2
<1> USE DEF IInv
<1>3. Typed'
  BY <1>1, <1>2 DEF Typed, Stages, Awaiting
<1>4. /\ stage'[q] = next
      /\ \A p \in Queries \ {q} : stage'[p] = stage[p]
  BY <1>1 DEF Typed
<1>5. \A p \in Queries : stage'[p] \in {"sent", "taken"} <=> stage[p] \in {"sent", "taken"}
  BY <1>4
<1>6. Staged'
  BY <1>1, <1>4 DEF Staged, ConduitsDiffer, Conduits
<1>7. \A r \in Queries : stage[r] = "sent" => stage'[r] = "sent"
  BY <1>4
<1>8. Private'
  <2>1. \A d \in Conns : wire[d] \subseteq Queries
    BY DEF Typed, Conduits
  <2> QED
    BY <1>1, <1>5, <1>7, <2>1 DEF Private, Using
<1>9. Pooled'
  BY <1>1, <1>2, <1>5 DEF Pooled, Using
<1>10. Tunnelled'
  <2> SUFFICES ASSUME kind = "tunnel" PROVE Tunnelled'
    BY <1>1 DEF Tunnelled
  <2>1. \A r \in wire[Tunnel] : r \in Queries /\ r # q
    BY DEF Tunnelled, Typed, Conduits, Over
  <2>2. CASE next = "associating"
    BY <1>1, <1>4, <2>1, <2>2 DEF Tunnelled, Locked
  <2>3. CASE next = "associated"
    BY <1>1, <1>4, <2>1, <2>3 DEF Tunnelled
  <2> QED
    BY <2>2, <2>3
<1>11. RepliesAreOwn'
  <2>1. got \in [Queries -> Queries \cup {None}]
    BY DEF Typed
  <2>2. \A p \in Queries : stage[p] \in Over => stage'[p] = stage[p]
    BY <1>4 DEF Over
  <2> QED
    BY <1>1, <2>1, <2>2 DEF RepliesAreOwn
<1> QED
  BY <1>3, <1>6, <1>8, <1>9, <1>10, <1>11

\* Letting idle connections go and taking the last that is left keeps the others.
LEMMA Alive ==
    ASSUME pool \in Seq(Conns), NEW n \in 1 .. Len(pool) + 1,
           SubSeq(pool, n, Len(pool)) # <<>>
    PROVE  LET alive == SubSeq(pool, n, Len(pool)) IN
           /\ Last(alive) = pool[Len(pool)] /\ Len(pool) \in 1 .. Len(pool)
           /\ Front(alive) \in Seq(Conns)
           /\ Len(Front(alive)) = Len(pool) - n
           /\ \A i \in 1 .. Len(Front(alive)) :
                 Front(alive)[i] = pool[i + n - 1] /\ i + n - 1 \in 1 .. Len(pool) - 1
<1> DEFINE alive == SubSeq(pool, n, Len(pool))
<1>1. n <= Len(pool) /\ Len(pool) \in Nat
  OBVIOUS
<1>2. /\ alive \in Seq(Conns) /\ Len(alive) = Len(pool) - n + 1
      /\ \A i \in 1 .. Len(alive) : alive[i] = pool[i + n - 1]
  BY <1>1
<1> HIDE DEF alive
<1>3. /\ Front(alive) \in Seq(Conns) /\ Len(Front(alive)) = Len(alive) - 1
      /\ \A i \in 1 .. Len(Front(alive)) : Front(alive)[i] = alive[i]
  BY <1>1, <1>2 DEF Front
<1>4. Last(alive) = pool[Len(pool)]
  BY <1>1, <1>2 DEF Last
<1> QED
  BY <1>1, <1>2, <1>3, <1>4 DEF alive

\* The first await of an exchange.
LEMMA InvBegin ==
    ASSUME ConduitsDiffer, IInv, NEW q \in Queries, Begin(q)
    PROVE  IInv'
<1>1. stage[q] = "new" /\ UNCHANGED <<kind, got>>
  BY DEF Begin
<1>2. pool \in Seq(Conns)
  BY DEF IInv, Typed
<1>3. CASE BeginUdp(q)
  <2>1. PICK p \in Ports : Sent(q, p)
    BY <1>3 DEF BeginUdp
  <2>2. p \in Conduits /\ p \notin Conns /\ p # Tunnel /\ kind = "udp" /\ pool' = pool
    BY <1>3 DEF BeginUdp, Conduits, ConduitsDiffer
  <2>3. \A i \in 1 .. Len(pool) : pool[i] # p
    BY <1>2, <2>2
  <2>4. \A i, j \in 1 .. Len(pool) : pool[i] = pool[j] => i = j
    BY <2>2 DEF IInv, Pooled
  <2> QED
    BY <1>1, <1>2, <2>1, <2>2, <2>3, <2>4, SentKeeps
<1>4. CASE BeginTcp(q)
  BY <1>1, <1>4, GoesKeeps DEF BeginTcp
<1>5. CASE BeginDot(q)
  <2>1. PICK n \in 1 .. Len(pool) + 1 :
          LET alive == SubSeq(pool, n, Len(pool)) IN
          IF alive = <<>>
          THEN Goes(q, "opening") /\ pool' = <<>> /\ UNCHANGED <<via, wire>>
          ELSE Sent(q, Last(alive)) /\ pool' = Front(alive)
    BY <1>5 DEF BeginDot
  <2>2. kind = "dot"
    BY <1>5 DEF BeginDot
  <2>3. CASE SubSeq(pool, n, Len(pool)) = <<>>
    BY <1>1, <2>1, <2>2, <2>3, GoesKeeps
  <2>4. CASE SubSeq(pool, n, Len(pool)) # <<>>
    <3> DEFINE alive == SubSeq(pool, n, Len(pool))
               c == pool[Len(pool)]
    <3>1. /\ Sent(q, c) /\ pool' = Front(alive) /\ Len(pool) \in 1 .. Len(pool)
          /\ pool' \in Seq(Conns)
          /\ \A i \in 1 .. Len(pool') :
                pool'[i] = pool[i + n - 1] /\ i + n - 1 \in 1 .. Len(pool) - 1
      BY <1>2, <2>1, <2>4, Alive
    <3>2. c \in Conns /\ c \in Conduits /\ c # Tunnel /\ c \notin Ports
      BY <1>2, <3>1 DEF Conduits, ConduitsDiffer
    <3>3. \A p \in Queries : ~Using(p, c)
      BY <2>2, <3>1 DEF IInv, Pooled
    <3>4. \A i, j \in 1 .. Len(pool) : pool[i] = pool[j] => i = j
      BY <2>2 DEF IInv, Pooled
    <3>5. ASSUME NEW i \in 1 .. Len(pool'), NEW j \in 1 .. Len(pool'), pool'[i] = pool'[j]
          PROVE  i = j
      <4>1. /\ i + n - 1 \in 1 .. Len(pool) /\ j + n - 1 \in 1 .. Len(pool)
            /\ pool[i + n - 1] = pool[j + n - 1]
        BY <1>2, <3>1, <3>5
      <4>2. i + n - 1 = j + n - 1
        BY <3>4, <4>1
      <4> QED
        BY <1>2, <4>2
    <3>6. \A i \in 1 .. Len(pool') :
            pool'[i] # c /\ \E j \in 1 .. Len(pool) : pool'[i] = pool[j]
      BY <1>2, <3>1, <3>4
    <3> HIDE DEF c, alive
    <3> QED
      BY <1>1, <2>2, <3>1, <3>2, <3>3, <3>5, <3>6, SentKeeps
  <2> QED
    BY <2>3, <2>4
<1>6. CASE BeginDoq(q)
  <2>1. kind = "doq"
    BY <1>6 DEF BeginDoq
  <2>2. CASE pool # <<>> /\ Sent(q, Last(pool)) /\ UNCHANGED pool
    <3>1. Last(pool) \in Conns
      BY <1>2, <2>2 DEF Last
    <3>2. Last(pool) \in Conduits /\ Last(pool) # Tunnel /\ Last(pool) \notin Ports
      BY <3>1 DEF Conduits, ConduitsDiffer
    <3> QED
      BY <1>1, <1>2, <2>1, <2>2, <3>1, <3>2, SentKeeps
  <2>3. CASE Goes(q, "opening") /\ pool' = <<>> /\ UNCHANGED <<via, wire>>
    BY <1>1, <2>1, <2>3, GoesKeeps
  <2> QED
    BY <1>6, <2>2, <2>3 DEF BeginDoq
<1>7. CASE BeginTunnel(q)
  <2>1. kind = "tunnel" /\ ~Locked /\ UNCHANGED <<via, wire, pool>>
    BY <1>7 DEF BeginTunnel
  <2>2. Goes(q, "associated") \/ Goes(q, "associating")
    BY <1>7 DEF BeginTunnel
  <2> QED
    BY <1>1, <2>1, <2>2, GoesKeeps
<1> QED
  BY <1>3, <1>4, <1>5, <1>6, <1>7 DEF Begin

\* A new connection, or the tunnel.
LEMMA InvOpen ==
    ASSUME ConduitsDiffer, IInv, NEW q \in Queries, Open(q) \/ Associate(q) \/ AskTunnel(q)
    PROVE  IInv'
<1>1. pool \in Seq(Conns)
  BY DEF IInv, Typed
<1>2. kind # "doq" => \A i, j \in 1 .. Len(pool) : pool[i] = pool[j] => i = j
  BY DEF IInv, Pooled
<1>3. CASE Open(q)
  <2>1. PICK c \in Conns : ~InUse(c) /\ Sent(q, c)
    BY <1>3 DEF Open
  <2>2. c \in Conduits /\ c # Tunnel /\ c \notin Ports
    BY DEF Conduits, ConduitsDiffer
  <2>3. \A p \in Queries : ~Using(p, c)
    BY <2>1 DEF InUse, Using, Awaiting
  <2>4. \A i \in 1 .. Len(pool) : pool[i] # c
    BY <1>1, <2>1 DEF InUse, ToSet
  <2>5. stage[q] = "opening" /\ UNCHANGED <<kind, got, pool>>
    BY <1>3 DEF Open
  <2>6. kind # "tunnel"
    BY <2>5 DEF IInv, Staged
  <2> QED
    BY <1>1, <1>2, <2>1, <2>2, <2>3, <2>4, <2>5, <2>6, SentKeeps
<1>4. CASE Associate(q)
  <2>1. kind = "tunnel"
    BY <1>4 DEF Associate, IInv, Staged
  <2> QED
    BY <1>4, <2>1, GoesKeeps DEF Associate
<1>5. CASE AskTunnel(q)
  <2>1. kind = "tunnel"
    BY <1>5 DEF AskTunnel, IInv, Staged
  <2>2. Tunnel \in Conduits /\ Tunnel \notin Conns /\ Tunnel \notin Ports
    BY DEF Conduits, ConduitsDiffer
  <2>3. \A i \in 1 .. Len(pool) : pool[i] # Tunnel
    BY <1>1, <2>2
  <2> QED
    BY <1>1, <1>2, <1>5, <2>1, <2>2, <2>3, SentKeeps DEF AskTunnel
<1> QED
  BY <1>3, <1>4, <1>5

-----------------------------------------------------------------------------
(* An exchange under way.                                                  *)

\* A reply is taken, one's own over a connection.
LEMMA InvTake == ASSUME ConduitsDiffer, IInv, NEW q \in Queries, Take(q) PROVE IInv'
<1> USE DEF IInv
<1>1. PICK r \in wire[via[q]] :
        /\ kind \in {"doq", "doh"} => r = q
        /\ \E left \in {wire[via[q]] \ {r}} \cup
                       (IF via[q] \in Datagrams THEN {wire[via[q]]} ELSE {}) :
              wire' = [wire EXCEPT ![via[q]] = left]
        /\ got' = [got EXCEPT ![q] = r]
  BY DEF Take
<1>2. /\ stage[q] = "sent"
      /\ stage' = [stage EXCEPT ![q] = IF kind \in {"dot", "doq"} THEN "taken" ELSE "answered"]
      /\ UNCHANGED <<kind, via, pool>>
  BY DEF Take, Goes
<1>3. via[q] \in Conduits /\ r \in Queries
  BY <1>2 DEF Typed, Staged
<1>4. /\ \A p \in Queries \ {q} : stage'[p] = stage[p] /\ got'[p] = got[p]
      /\ got'[q] = r
      /\ stage'[q] = IF kind \in {"dot", "doq"} THEN "taken" ELSE "answered"
  BY <1>1, <1>2 DEF Typed
<1>5. PICK left \in SUBSET Queries :
        /\ wire' = [wire EXCEPT ![via[q]] = left]
        /\ left \subseteq wire[via[q]]
        /\ via[q] \in Conns => left = wire[via[q]] \ {r}
  <2>1. via[q] \in Conns => via[q] \notin Datagrams
    BY DEF Datagrams, ConduitsDiffer
  <2>2. wire[via[q]] \subseteq Queries
    BY <1>3 DEF Typed
  <2> QED
    BY <1>1, <2>1, <2>2
<1>6. via[q] \in Conns => r = q
  BY <1>1, <1>2, <1>3 DEF Private, Using
<1>7. kind = "dot" => via[q] \in Conns
  <2>1. kind = "dot" => via[q] # Tunnel /\ via[q] \notin Ports
    BY DEF Staged
  <2> QED
    BY <1>3, <2>1 DEF Conduits
<1>8. kind = "doq" => via[q] \in Conns
  <2>1. kind = "doq" => via[q] # Tunnel /\ via[q] \notin Ports
    BY DEF Staged
  <2> QED
    BY <1>3, <2>1 DEF Conduits
<1>9. Typed'
  BY <1>1, <1>2, <1>3, <1>5 DEF Typed, Stages, Awaiting, Over
<1>10. Staged'
  BY <1>2, <1>4, <1>7, <1>8 DEF Staged
<1>11. \A d \in Conduits : wire'[d] \subseteq wire[d] /\ (d # via[q] => wire'[d] = wire[d])
  BY <1>5 DEF Typed
<1>12. \A p, d : Using(p, d)' /\ p \in Queries => Using(p, d)
  BY <1>2, <1>4 DEF Using
<1>13. Private'
  <2> SUFFICES ASSUME kind # "doq", NEW d \in Conns
               PROVE  /\ \A p, s \in Queries : Using(p, d)' /\ Using(s, d)' => p = s
                      /\ \A s \in wire'[d] : via'[s] = d /\ stage'[s] = "sent"
    BY <1>2 DEF Private
  <2>1. d \in Conduits /\ wire[d] \subseteq Queries
    BY DEF Conduits, Typed
  <2>2. \A s \in wire[d] : via[s] = d /\ stage[s] = "sent"
    BY DEF Private
  <2>3. CASE d = via[q]
    <3>1. \A s \in wire[d] : s = q
      BY <1>2, <2>1, <2>2, <2>3 DEF Private, Using
    <3>2. wire'[d] = {}
      BY <1>5, <1>6, <2>1, <2>3, <3>1 DEF Typed
    <3> QED
      BY <1>12, <3>2 DEF Private
  <2>4. CASE d # via[q]
    BY <1>2, <1>4, <1>11, <1>12, <2>1, <2>2, <2>4 DEF Private
  <2> QED
    BY <2>3, <2>4
<1>14. Pooled'
  BY <1>2, <1>12 DEF Pooled
<1>15. Tunnelled'
  <2> SUFFICES ASSUME kind = "tunnel" PROVE Tunnelled'
    BY <1>2 DEF Tunnelled
  <2>1. Tunnel \in Conduits /\ wire[Tunnel] \subseteq Queries
    BY DEF Conduits, Typed
  <2> QED
    BY <1>2, <1>4, <1>11, <2>1 DEF Tunnelled, Over
<1>16. RepliesAreOwn'
  <2> SUFFICES ASSUME NEW p \in Queries, got'[p] \notin {None, p}
               PROVE  via[p] \in Ports \/ (via[p] = Tunnel /\ stage'[got'[p]] \in Over)
    BY <1>2 DEF RepliesAreOwn, ConduitsDiffer
  <2>1. CASE p = q
    <3>1. r # q /\ got'[p] = r
      BY <1>4, <2>1
    <3>2. CASE via[q] \in Ports
      BY <2>1, <3>2
    <3>3. CASE via[q] = Tunnel
      <4>1. kind = "tunnel"
        BY <3>3 DEF Staged
      <4>2. stage[r] \in Over
        BY <1>2, <1>3, <3>1, <3>3, <4>1 DEF Tunnelled
      <4> QED
        BY <1>3, <1>4, <2>1, <3>1, <3>3, <4>2
    <3> QED
      BY <1>3, <1>6, <3>1, <3>2, <3>3 DEF Conduits
  <2>2. CASE p # q
    <3>1. got'[p] = got[p] /\ got[p] \in Queries
      BY <1>4, <2>2 DEF Typed
    <3>2. stage[got[p]] \in Over => got[p] # q
      BY <1>2 DEF Over
    <3> QED
      BY <1>4, <3>1, <3>2 DEF RepliesAreOwn
  <2> QED
    BY <2>1, <2>2
<1> QED
  BY <1>9, <1>10, <1>13, <1>14, <1>15, <1>16

\* A datagram is sent again or lost.
LEMMA InvWire ==
    ASSUME ConduitsDiffer, IInv,
           (\E q \in Queries : Retry(q)) \/ (\E c \in Datagrams : Lose(c))
    PROVE  IInv'
<1> USE DEF IInv
<1>1. UNCHANGED <<kind, stage, via, pool, got>>
  BY DEF Retry, Lose
<1> DEFINE Shrinks == /\ wire' \in [Conduits -> SUBSET Queries]
                      /\ \A c \in Conns \cup {Tunnel} : wire'[c] \subseteq wire[c]
<1>2. Shrinks
  <2>1. ASSUME NEW q \in Queries, Retry(q) PROVE Shrinks
    <3>1. via[q] \in Ports /\ wire' = [wire EXCEPT ![via[q]] = @ \cup {q}]
      BY <2>1 DEF Retry
    <3>2. \A c \in Conns \cup {Tunnel} : c \in Conduits /\ c # via[q]
      BY <3>1 DEF Conduits, ConduitsDiffer
    <3> QED
      BY <3>1, <3>2 DEF Typed, Conduits
  <2>2. ASSUME NEW c \in Datagrams, Lose(c) PROVE Shrinks
    <3>1. PICK r \in wire[c] : wire' = [wire EXCEPT ![c] = @ \ {r}]
      BY <2>2 DEF Lose
    <3> QED
      BY <3>1 DEF Typed, Conduits, Datagrams
  <2> QED
    BY <2>1, <2>2
<1>3. Typed' /\ Staged' /\ Pooled' /\ RepliesAreOwn'
  BY <1>1, <1>2 DEF Typed, Staged, Pooled, Using, RepliesAreOwn
<1>4. Private' /\ Tunnelled'
  BY <1>1, <1>2 DEF Private, Tunnelled, Using
<1> QED
  BY <1>3, <1>4

\* An exchange leaves its conduit: cut off over UDP, done, or given up.
LEMMA InvLeave ==
    ASSUME ConduitsDiffer, IInv, NEW q \in Queries, Truncated(q) \/ Return(q) \/ GiveUp(q)
    PROVE  IInv'
<1> USE DEF IInv
<1>1. /\ UNCHANGED <<kind, via, got>>
      /\ stage[q] \in Awaiting
      /\ \/ stage' = [stage EXCEPT ![q] = "opening"] /\ stage[q] = "sent" /\ via[q] \in Ports
         \/ stage' = [stage EXCEPT ![q] = "answered"] \/ stage' = [stage EXCEPT ![q] = "ended"]
  BY DEF Truncated, Return, GiveUp, Goes, Awaiting
<1>2. /\ \A p \in Queries \ {q} : stage'[p] = stage[p]
      /\ stage'[q] \in {"opening", "answered", "ended"}
      /\ stage'[q] = "opening" => stage[q] = "sent" /\ via[q] \in Ports
      /\ stage'[q] # "opening" => stage'[q] \in Over
  BY <1>1 DEF Typed, Over
<1>3. \A p, d : p \in Queries /\ Using(p, d)' => p # q /\ Using(p, d)
  BY <1>1, <1>2 DEF Using
<1>4. /\ wire' \in [Conduits -> SUBSET Queries]
      /\ \A c \in Conduits : wire'[c] \subseteq wire[c]
  BY DEF Truncated, Return, GiveUp, Closed, Typed
<1>5. Staged'
  BY <1>1, <1>2 DEF Staged, ConduitsDiffer, Conduits
<1>6. Private'
  <2> SUFFICES ASSUME kind # "doq", NEW d \in Conns
               PROVE  /\ \A p, s \in Queries : Using(p, d)' /\ Using(s, d)' => p = s
                      /\ \A s \in wire'[d] : via'[s] = d /\ stage'[s] = "sent"
    BY <1>1 DEF Private
  <2>1. d \in Conduits /\ wire'[d] \subseteq wire[d] /\ wire[d] \subseteq Queries
    BY <1>4 DEF Conduits, Typed
  <2>2. \A s \in wire[d] : via[s] = d /\ stage[s] = "sent"
    BY DEF Private
  <2>3. q \notin wire'[d]
    <3> SUFFICES ASSUME q \in wire'[d] PROVE FALSE
      OBVIOUS
    <3>1. via[q] = d /\ stage[q] = "sent" /\ d \notin Ports
      BY <2>1, <2>2 DEF ConduitsDiffer
    <3>2. GiveUp(q)
      BY <3>1 DEF Truncated, Return
    <3>3. pool \in Seq(Conns) /\ \A i \in 1 .. Len(pool) : pool[i] # d
      BY <3>1 DEF Typed, Pooled, Using
    <3>4. d \notin ToSet(pool)
      BY <3>3 DEF ToSet
    <3>5. wire' = [wire EXCEPT ![d] = {}]
      BY <3>1, <3>2, <3>4 DEF GiveUp, Closed
    <3> QED
      BY <2>1, <3>5 DEF Typed
  <2> QED
    BY <1>1, <1>2, <1>3, <2>1, <2>2, <2>3 DEF Private
<1>7. pool' \in Seq(Conns) /\ Pooled'
  <2>1. pool \in Seq(Conns)
    BY DEF Typed
  <2>2. CASE pool' = pool
    BY <1>1, <1>3, <2>1, <2>2 DEF Pooled
  <2>3. CASE kind = "doq" /\ Return(q)
    <3>1. via[q] \in Conns
      BY <2>3 DEF Return, Staged
    <3> QED
      BY <1>1, <2>3, <3>1 DEF Return, Pooled
  <2>4. CASE kind # "doq" /\ Return(q) /\ pool' = Append(pool, via[q])
    <3>1. via[q] \in Conns /\ Using(q, via[q])
      BY <2>4 DEF Return, Staged, Using
    <3>2. /\ pool' \in Seq(Conns) /\ Len(pool') = Len(pool) + 1
          /\ pool'[Len(pool) + 1] = via[q]
          /\ \A i \in 1 .. Len(pool) : pool'[i] = pool[i]
      BY <2>1, <2>4, <3>1
    <3>3. \A i \in 1 .. Len(pool) : pool[i] # via[q]
      BY <2>4, <3>1 DEF Pooled
    <3>4. \A i \in 1 .. Len(pool') : i = Len(pool) + 1 \/ i \in 1 .. Len(pool)
      BY <2>1, <3>2
    <3>5. \A p \in Queries : ~(via'[p] = via[q] /\ stage'[p] \in {"sent", "taken"})
      BY <1>1, <1>2, <2>4, <3>1 DEF Private, Using
    <3>6. \A p \in Queries, i \in 1 .. Len(pool) :
            ~(via'[p] = pool[i] /\ stage'[p] \in {"sent", "taken"})
      BY <1>3, <2>4 DEF Pooled, Using
    <3>7. \A p \in Queries, i \in 1 .. Len(pool') :
            ~(via'[p] = pool'[i] /\ stage'[p] \in {"sent", "taken"})
      BY <3>2, <3>4, <3>5, <3>6
    <3>8. \A i, j \in 1 .. Len(pool') : pool'[i] = pool'[j] => i = j
      BY <2>4, <3>2, <3>3, <3>4 DEF Pooled
    <3> QED
      BY <1>1, <3>2, <3>7, <3>8 DEF Pooled, Using
  <2> QED
    BY <2>2, <2>3, <2>4 DEF Truncated, Return, GiveUp
<1>8. Typed'
  BY <1>1, <1>4, <1>7 DEF Typed, Stages, Awaiting, Over
<1>9. Tunnelled'
  <2> SUFFICES ASSUME kind = "tunnel" PROVE Tunnelled'
    BY <1>1 DEF Tunnelled
  <2>1. stage'[q] \in Over
    BY <1>2 DEF Staged, ConduitsDiffer
  <2>2. wire'[Tunnel] \subseteq wire[Tunnel] /\ wire[Tunnel] \subseteq Queries
    BY <1>4 DEF Conduits, Typed
  <2> QED
    BY <1>2, <2>1, <2>2 DEF Tunnelled, Over
<1>10. RepliesAreOwn'
  <2>1. \A p \in Queries : stage[p] \in Over => stage'[p] \in Over
    BY <1>1, <1>2 DEF Over
  <2>2. got \in [Queries -> Queries \cup {None}]
    BY DEF Typed
  <2> QED
    BY <1>1, <2>1, <2>2 DEF RepliesAreOwn
<1> QED
  BY <1>5, <1>6, <1>7, <1>8, <1>9, <1>10

-----------------------------------------------------------------------------
\* The inductive invariant holds throughout.
LEMMA InvHolds == ASSUME ConduitsDiffer PROVE Spec => []IInv
<1>1. IInv /\ [Next]_transportVars => IInv'
  <2> SUFFICES ASSUME IInv, [Next]_transportVars PROVE IInv'
    OBVIOUS
  <2>1. CASE UNCHANGED transportVars
    BY <2>1 DEF transportVars, IInv, Typed, Staged, Private, Pooled, Tunnelled, Using,
                RepliesAreOwn
  <2>2. CASE Next
    BY <2>2, InvBegin, InvOpen, InvTake, InvWire, InvLeave DEF Next
  <2> QED
    BY <2>1, <2>2
<1> QED
  BY <1>1, InvInit, PTL DEF Spec

\* Over a connection a query gets its own reply, and through the tunnel never one that is
\* still waited for (forward.rs:694, 1124, 1395).
THEOREM RepliesAreTheQuerys == ASSUME ConduitsDiffer PROVE Spec => []RepliesAreOwn
<1>1. IInv => RepliesAreOwn
  BY DEF IInv
<1> QED
  BY <1>1, InvHolds, PTL

-----------------------------------------------------------------------------
(* Types.  A pool that is not shared holds a connection once, and the one  *)
(* of DoQ holds one: neither outgrows its bound.                           *)

\* What the argument above leaves out of the types.
Sized ==
    /\ tries \in [Queries -> 0 .. MaxRetries]
    /\ tunnel \in BOOLEAN
    /\ Len(pool) <= IF kind = "doq" THEN 1 ELSE PoolSize

\* The bounds are kept by every step.
LEMMA SizedStep ==
    ASSUME PoolSize \in Nat \ {0}, MaxRetries \in Nat, IInv, Sized, [Next]_transportVars
    PROVE  Sized'
<1>1. /\ tries \in [Queries -> 0 .. MaxRetries] /\ tunnel \in BOOLEAN
      /\ pool \in Seq(Conns) /\ Len(pool) <= IF kind = "doq" THEN 1 ELSE PoolSize
      /\ Len(pool) \in Nat
  BY DEF IInv, Typed, Sized
<1>2. kind' = kind
  BY DEF Next, transportVars, Begin, Open, Associate, AskTunnel, Retry, Take, Truncated,
         Return, GiveUp, Lose
<1>3. tries' \in [Queries -> 0 .. MaxRetries]
  <2>1. CASE tries' = tries
    BY <1>1, <2>1
  <2>2. CASE \E q \in Queries : Retry(q)
    <3>1. PICK q \in Queries :
            tries[q] < MaxRetries /\ tries' = [tries EXCEPT ![q] = tries[q] + 1]
      BY <2>2 DEF Retry
    <3>2. tries[q] + 1 \in 0 .. MaxRetries
      BY <1>1, <3>1
    <3> QED
      BY <1>1, <3>1, <3>2
  <2> QED
    BY <2>1, <2>2
       DEF Next, transportVars, Begin, Open, Associate, AskTunnel, Take, Truncated, Return,
           GiveUp, Lose
<1>4. tunnel' \in BOOLEAN
  <2>1. tunnel' = tunnel \/ tunnel' = TRUE
    BY DEF Next, transportVars, Begin, BeginUdp, BeginTcp, BeginDot, BeginDoq, BeginTunnel,
           Open, Associate, AskTunnel, Retry, Take, Truncated, Return, GiveUp, Lose
  <2> QED
    BY <1>1, <2>1
<1>5. Len(pool') <= IF kind = "doq" THEN 1 ELSE PoolSize
  <2>1. CASE pool' = pool
    BY <1>1, <2>1
  <2>2. CASE pool' = <<>>
    BY <2>2
  <2>3. ASSUME NEW q \in Queries, BeginDot(q) PROVE pool' = <<>> \/ Len(pool') <= Len(pool)
    <3>1. PICK n \in 1 .. Len(pool) + 1 :
            LET alive == SubSeq(pool, n, Len(pool)) IN
            pool' = IF alive = <<>> THEN <<>> ELSE Front(alive)
      BY <2>3 DEF BeginDot
    <3>2. CASE SubSeq(pool, n, Len(pool)) # <<>>
      <4>1. Len(pool') = Len(pool) - n
        BY <1>1, <3>1, <3>2, Alive
      <4> QED
        BY <1>1, <4>1
    <3> QED
      BY <3>1, <3>2
  <2>4. ASSUME NEW q \in Queries, Return(q)
        PROVE  Len(pool') <= IF kind = "doq" THEN 1 ELSE PoolSize
    <3>1. CASE kind = "doq"
      <4>1. pool' = <<via[q]>>
        BY <2>4, <3>1 DEF Return
      <4> QED
        BY <3>1, <4>1
    <3>2. CASE kind # "doq" /\ Len(pool) < PoolSize
      <4>1. pool' = Append(pool, via[q]) /\ via[q] \in Conns
        BY <2>4, <3>2 DEF Return, IInv, Staged
      <4> QED
        BY <1>1, <3>2, <4>1
    <3>3. CASE kind # "doq" /\ ~(Len(pool) < PoolSize)
      BY <1>1, <2>4, <3>3 DEF Return
    <3> QED
      BY <3>1, <3>2, <3>3
  <2>5. \/ pool' = pool \/ pool' = <<>>
        \/ \E q \in Queries : BeginDot(q) \/ Return(q)
    BY DEF Next, transportVars, Begin, BeginUdp, BeginTcp, BeginDoq, BeginTunnel, Open,
           Associate, AskTunnel, Retry, Take, Truncated, GiveUp, Lose
  <2>6. CASE \E q \in Queries : BeginDot(q)
    BY <1>1, <2>2, <2>3, <2>6
  <2> QED
    BY <2>1, <2>2, <2>4, <2>5, <2>6
<1> QED
  BY <1>2, <1>3, <1>4, <1>5 DEF Sized

\* For every bound on the pool and on the retries, an exchange keeps to both, and no
\* connection is in the pool twice (forward.rs:1087, 1124, 1395).
THEOREM TransportIsTyped ==
    ASSUME ConduitsDiffer, PoolSize \in Nat \ {0}, MaxRetries \in Nat
    PROVE  Spec => []TransportTypeOK
<1>1. Init => Sized
  <2> SUFFICES ASSUME Init PROVE Sized
    OBVIOUS
  <2>1. pool = <<>> /\ Len(<<>>) = 0
    BY DEF Init
  <2>2. tunnel \in BOOLEAN
    BY DEF Init
  <2>3. tries \in [Queries -> 0 .. MaxRetries]
    BY DEF Init
  <2> QED
    BY <2>1, <2>2, <2>3 DEF Sized
<1>2. IInv /\ Sized /\ [Next]_transportVars => Sized'
  BY SizedStep
<1>3. IInv /\ Sized => TransportTypeOK
  <2> SUFFICES ASSUME IInv, Sized PROVE TransportTypeOK
    OBVIOUS
  <2>1. Len(pool) \in Nat /\ Len(pool) <= PoolSize /\ DOMAIN pool = 1 .. Len(pool)
    BY DEF IInv, Typed, Sized
  <2>2. \A i, j \in 1 .. Len(pool) : pool[i] = pool[j] => i = j
    BY <2>1 DEF IInv, Pooled, Sized
  <2>3. IsInjective(pool)
    BY <2>1, <2>2 DEF IsInjective
  <2> QED
    BY <2>1, <2>3 DEF IInv, Typed, Sized, TransportTypeOK, Kinds, Stages
<1> QED
  BY <1>1, <1>2, <1>3, InvHolds, PTL DEF Spec
=============================================================================
