----------------------------- MODULE Transport -----------------------------
(***************************************************************************)
(* Upstream::exchange_bytes (src/plugins/forward.rs): how a query reaches  *)
(* one upstream and how a reply is matched to it.  No transport compares   *)
(* the id of the reply with that of the query, so that it is the right one *)
(* depends on who reads from where.                                        *)
(*                                                                         *)
(* A conduit is where a reply can be read: a UDP port, a stream connection *)
(* or the SOCKS5 tunnel through which "DoQ by proxy" sends plain datagrams.*)
(* A reply is named by the query it answers.  Whoever awaits an exchange   *)
(* may drop it at any await.                                               *)
(***************************************************************************)
EXTENDS Naturals, Sequences, SequencesExt, Exchange

CONSTANTS
    Conns,       \* connections, each reused once it is closed
    PoolSize,    \* of a DoT pool, 4 in the code
    MaxRetries,  \* max_retries
    None

VARIABLES
    kind,    \* the variant of Upstream; "tunnel" is Doq with socks5
    tries,   \* [Queries -> how often it was sent again]
    wire,    \* [conduit -> the replies that can be read there, or are on their way]
    pool,    \* conn_pool of Dot, and of Doq (at most one)
    tunnel   \* socks5_tunnel is Some

transportVars == <<kind, stage, via, tries, wire, pool, tunnel, got>>

Conduits == Ports \cup Conns \cup {Tunnel}
Datagrams == Ports \cup {Tunnel}
Awaiting == {"opening", "associating", "associated", "sent", "taken"}

\* Ports, connections and the tunnel are different things, and None is none of them.
ConduitsDiffer ==
    /\ Ports \cap Conns = {} /\ Tunnel \notin Ports \cup Conns
    /\ None \notin Conduits \cup Queries

\* Type invariant.
TransportTypeOK ==
    /\ kind \in {"udp", "tcp", "doh", "dot", "doq", "tunnel"}
    /\ stage \in [Queries -> {"new"} \cup Awaiting \cup Over]
    /\ via \in [Queries -> Conduits \cup {None}]
    /\ tries \in [Queries -> 0 .. MaxRetries]
    /\ wire \in [Conduits -> SUBSET Queries]
    /\ pool \in Seq(Conns) /\ IsInjective(pool) /\ Len(pool) <= PoolSize
    /\ tunnel \in BOOLEAN
    /\ got \in [Queries -> Queries \cup {None}]

Init ==
    /\ kind \in {"udp", "tcp", "doh", "dot", "doq", "tunnel"}
    /\ stage = [q \in Queries |-> "new"]
    /\ via = [q \in Queries |-> None]
    /\ tries = [q \in Queries |-> 0]
    /\ wire = [c \in Conduits |-> {}]
    /\ pool = <<>>
    /\ tunnel = FALSE
    /\ got = [q \in Queries |-> None]

Goes(q, next) == stage' = [stage EXCEPT ![q] = next]

\* The query is written to a conduit.
Sent(q, c) ==
    /\ Goes(q, "sent")
    /\ via' = [via EXCEPT ![q] = c]
    /\ wire' = [wire EXCEPT ![c] = @ \cup {q}]

InUse(c) == c \in ToSet(pool) \/ \E q \in Queries : via[q] = c /\ stage[q] \in Awaiting

\* A connection nobody keeps is closed, with what could be read from it.
Closed(c) ==
    wire' = IF c \in Conns /\ c \notin ToSet(pool) /\ kind # "doq"
            THEN [wire EXCEPT ![c] = {}] ELSE wire

\* The tunnel's mutex, held over its connect and over a send with its receive.
Locked ==
    kind = "tunnel" /\ \E q \in Queries : stage[q] \in {"associating", "sent"}

-----------------------------------------------------------------------------
\* A socket of the query's own.  With reuse_address set, the system may give two of
\* them the same port.
BeginUdp(q) ==
    /\ kind = "udp"
    /\ \E p \in Ports : Sent(q, p)
    /\ UNCHANGED <<pool, tunnel>>

\* A new connection for each query over TCP; over DoH that is up to the client library,
\* which keeps requests apart.
BeginTcp(q) ==
    /\ kind \in {"tcp", "doh"}
    /\ Goes(q, "opening")
    /\ UNCHANGED <<via, wire, pool, tunnel>>

\* Idle connections are let go, the oldest first, and the last of the pool is taken out.
BeginDot(q) ==
    /\ kind = "dot"
    /\ \E n \in 1 .. Len(pool) + 1 :
          LET alive == SubSeq(pool, n, Len(pool)) IN
          IF alive = <<>>
          THEN Goes(q, "opening") /\ pool' = <<>> /\ UNCHANGED <<via, wire>>
          ELSE Sent(q, Last(alive)) /\ pool' = Front(alive)
    /\ UNCHANGED tunnel

\* The pooled connection is shared, one stream for each query, unless it is closed.
BeginDoq(q) ==
    /\ kind = "doq"
    /\ \/ pool # <<>> /\ Sent(q, Last(pool)) /\ UNCHANGED pool
       \/ Goes(q, "opening") /\ pool' = <<>> /\ UNCHANGED <<via, wire>>
    /\ UNCHANGED tunnel

\* The tunnel is connected by the first query; the others find it.
BeginTunnel(q) ==
    /\ kind = "tunnel" /\ ~Locked
    /\ Goes(q, IF tunnel THEN "associated" ELSE "associating")
    /\ UNCHANGED <<via, wire, pool, tunnel>>

Begin(q) ==
    /\ stage[q] = "new"
    /\ BeginUdp(q) \/ BeginTcp(q) \/ BeginDot(q) \/ BeginDoq(q) \/ BeginTunnel(q)
    /\ UNCHANGED <<kind, tries, got>>

Open(q) ==
    /\ stage[q] = "opening"
    /\ \E c \in Conns :
          /\ ~InUse(c)
          /\ \A d \in 1 .. c - 1 : InUse(d)
          /\ Sent(q, c)
    /\ UNCHANGED <<kind, tries, pool, tunnel, got>>

Associate(q) ==
    /\ stage[q] = "associating"
    /\ Goes(q, "associated")
    /\ tunnel' = TRUE
    /\ UNCHANGED <<kind, via, tries, wire, pool, got>>

\* The lock was released in between, and is taken again.
AskTunnel(q) ==
    /\ stage[q] = "associated" /\ ~Locked
    /\ Sent(q, Tunnel)
    /\ UNCHANGED <<kind, tries, pool, tunnel, got>>

\* No reply within reply_timeout: the query is sent again from the same socket.
Retry(q) ==
    /\ stage[q] = "sent" /\ via[q] \in Ports
    /\ tries[q] < MaxRetries
    /\ tries' = [tries EXCEPT ![q] = @ + 1]
    /\ wire' = [wire EXCEPT ![via[q]] = @ \cup {q}]
    /\ UNCHANGED <<kind, stage, via, pool, tunnel, got>>

\* The first reply there is: a stream of DoQ or DoH has only its own.  A datagram may
\* come twice.
Take(q) ==
    /\ stage[q] = "sent"
    /\ \E r \in wire[via[q]] :
          /\ kind \in {"doq", "doh"} => r = q
          /\ \E left \in {wire[via[q]] \ {r}} \cup
                         (IF via[q] \in Datagrams THEN {wire[via[q]]} ELSE {}) :
                wire' = [wire EXCEPT ![via[q]] = left]
          /\ got' = [got EXCEPT ![q] = r]
    /\ Goes(q, IF kind \in {"dot", "doq"} THEN "taken" ELSE "answered")
    /\ UNCHANGED <<kind, via, tries, pool, tunnel>>

\* The reply is cut off: the query is asked again over a TCP connection.
Truncated(q) ==
    /\ stage[q] = "sent" /\ via[q] \in Ports
    /\ \E r \in wire[via[q]] : wire' = [wire EXCEPT ![via[q]] = @ \ {r}]
    /\ Goes(q, "opening")
    /\ UNCHANGED <<kind, via, tries, pool, tunnel, got>>

\* A connection goes to the pool once its reply is read: with the others if there is
\* room for Dot, in the place of any other for Doq.
Return(q) ==
    /\ stage[q] = "taken"
    /\ pool' = IF kind = "doq" THEN <<via[q]>>
               ELSE IF Len(pool) < PoolSize THEN Append(pool, via[q])
               ELSE pool
    /\ Goes(q, "answered")
    /\ UNCHANGED <<kind, via, tries, wire, tunnel, got>>

\* Mutant of GiveUp: the connection of an exchange that ends early is kept.
GiveUpPooling(q) ==
    /\ stage[q] \in Awaiting
    /\ Goes(q, "ended")
    /\ pool' = IF kind = "dot" /\ via[q] \in Conns /\ Len(pool) < PoolSize
               THEN Append(pool, via[q]) ELSE pool
    /\ UNCHANGED <<kind, via, tries, wire, tunnel, got>>

\* A timeout or an error ends the exchange; or whoever awaits it drops it.  A tunnel
\* that is connected stays.
GiveUp(q) ==
    /\ stage[q] \in Awaiting
    /\ Goes(q, "ended")
    /\ Closed(via[q])
    /\ UNCHANGED <<kind, via, tries, pool, tunnel, got>>

Lose(c) ==
    /\ \E r \in wire[c] : wire' = [wire EXCEPT ![c] = @ \ {r}]
    /\ UNCHANGED <<kind, stage, via, tries, pool, tunnel, got>>

Next ==
    \/ \E q \in Queries :
          \/ Begin(q) \/ Open(q) \/ Associate(q) \/ AskTunnel(q) \/ Retry(q)
          \/ Take(q) \/ Truncated(q) \/ Return(q) \/ GiveUp(q)
    \/ \E c \in Datagrams : Lose(c)

Spec == Init /\ [][Next]_transportVars

=============================================================================
