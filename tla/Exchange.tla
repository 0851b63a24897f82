------------------------------ MODULE Exchange ------------------------------
(***************************************************************************)
(* What whoever calls Upstream::exchange_bytes (src/plugins/forward.rs) is *)
(* given, and what it may rely on.  Transport has how each kind of         *)
(* connection gets there.                                                  *)
(***************************************************************************)
CONSTANTS
    Queries,
    Ports,   \* UDP ports of ours
    Tunnel   \* the conduit of the proxy

VARIABLES
    via,    \* [Queries -> its conduit, or none]
    stage,  \* [Queries -> how far its exchange is]
    got     \* [Queries -> the reply its exchange took, or none]

\* The exchange has returned, or was dropped.
Over == {"answered", "ended"}

(* Nothing checks that a reply answers the query (forward.rs:694, 1124,    *)
(* 1395), so the conduits must: over a connection, pooled or not, a query  *)
(* gets its own reply, whatever earlier queries were dropped on.  What the *)
(* tunnel may hand over is the late reply to a query that has ended, never *)
(* one that is still waited for; and over UDP there is only the port.      *)
RepliesAreOwn ==
    \A q \in Queries :
        got[q] \in Queries \ {q} =>
            \/ via[q] \in Ports
            \/ via[q] = Tunnel /\ stage[got[q]] \in Over
=============================================================================
