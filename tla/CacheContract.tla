--------------------------- MODULE CacheContract ---------------------------
(***************************************************************************)
(* What a caching DNS server promises the clients behind it, whatever it   *)
(* keeps in memory or on disk: an answer it did not fetch for the client   *)
(* is one that an upstream gave for the very name that was asked, and that *)
(* the server learned no longer ago than the answer may be kept.           *)
(*                                                                         *)
(* DnsCache implements this contract (see DnsCache!Contract): its entries, *)
(* its refresh tasks, its file and its restarts are all below it.          *)
(***************************************************************************)
EXTENDS Integers

CONSTANTS
    Keys,           \* what a query asks for: name, type and class
    Clients,        \* the queries in progress
    Responses,      \* what an upstream may answer
    KeepFor         \* [Responses -> for how many seconds each may be handed out]

VARIABLES
    now,            \* wall-clock seconds
    learned,        \* [Keys -> [Responses -> the second it was last learned, or Never]]
    asking          \* [Clients -> what the query sees of the server]

vars == <<now, learned, asking>>

Never == -1

Quiet == [st |-> "quiet"]
Asking(k) == [st |-> "asking", key |-> k]
Fetched(k, r) == [st |-> "answered", key |-> k, resp |-> r, from |-> "upstream"]
Kept(k, r) == [st |-> "answered", key |-> k, resp |-> r, from |-> "cache"]
Dropped(k) == [st |-> "dropped", key |-> k]

Init ==
    /\ now = 0
    /\ learned = [k \in Keys |-> [r \in Responses |-> Never]]
    /\ asking = [c \in Clients |-> Quiet]

\* A second passes.
Elapse ==
    /\ now' = now + 1
    /\ UNCHANGED <<learned, asking>>

\* A query arrives; an earlier one of this client has ended.
Ask(c, k) ==
    /\ asking[c].st # "asking"
    /\ asking' = [asking EXCEPT ![c] = Asking(k)]
    /\ UNCHANGED <<now, learned>>

\* The server takes note of a response, to a client's question or to one of its own.
Learn(k, r) ==
    /\ learned' = [learned EXCEPT ![k][r] = now]
    /\ UNCHANGED <<now, asking>>

\* The answer was fetched for this very query.
AnswerFetched(c, r) ==
    /\ asking[c].st = "asking"
    /\ asking' = [asking EXCEPT ![c] = Fetched(asking[c].key, r)]
    /\ UNCHANGED <<now, learned>>

\* The answer is a response kept from earlier.
AnswerKept(c, r) ==
    /\ asking[c].st = "asking"
    /\ learned[asking[c].key][r] # Never
    /\ now - learned[asking[c].key][r] < KeepFor[r]
    /\ asking' = [asking EXCEPT ![c] = Kept(asking[c].key, r)]
    /\ UNCHANGED <<now, learned>>

\* No reply is sent: a plugin failed, and the client will time out.
GiveUp(c) ==
    /\ asking[c].st = "asking"
    /\ asking' = [asking EXCEPT ![c] = Dropped(asking[c].key)]
    /\ UNCHANGED <<now, learned>>

\* The server stops; its clients hear nothing, and what was learned stays true.
Stop ==
    /\ asking' = [c \in Clients |-> Quiet]
    /\ UNCHANGED <<now, learned>>

Next ==
    \/ Elapse
    \/ \E k \in Keys, r \in Responses : Learn(k, r)
    \/ \E c \in Clients :
         \/ \E k \in Keys : Ask(c, k)
         \/ \E r \in Responses : AnswerFetched(c, r) \/ AnswerKept(c, r)
         \/ GiveUp(c)
    \/ Stop

Spec == Init /\ [][Next]_vars
=============================================================================
