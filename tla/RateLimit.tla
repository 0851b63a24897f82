----------------------------- MODULE RateLimit -----------------------------
(***************************************************************************)
(* The rate limiter (src/plugins/ratelimit.rs), for one client: a window   *)
(* that starts with a query and counts those that follow, and the task     *)
(* that removes old windows.  A query reads the clock before it locks the  *)
(* entry of its client, the task before it visits the entries, so that     *)
(* either may come with a time that has passed.                            *)
(***************************************************************************)
EXTENDS Naturals

CONSTANTS
    Handlers,    \* workers that may be in should_limit at the same time
    MaxQueries,  \* max_queries
    Window,      \* window_secs
    Lag,         \* bounds the time between a reading of the clock and its use
    EndOfTime,   \* bounds the clock
    None         \* no time

VARIABLES
    time,
    limits,    \* the client's entry: the query count, up to one too many, and window_start
    asked,     \* [Handlers -> the time read by its query]
    sweeping,  \* the time read by the cleanup
    admitted   \* history: how many queries were let through up to the end of each time

limitVars == <<time, limits, asked, sweeping, admitted>>

Times == 0 .. EndOfTime
NoEntry == [count |-> 0, start |-> 0]

\* Type invariant.
RateLimitTypeOK ==
    /\ time \in Times
    /\ limits \in [count : 0 .. MaxQueries + 1, start : Times]
    /\ asked \in [Handlers -> Times \cup {None}]
    /\ sweeping \in Times \cup {None}
    /\ admitted \in [Times -> Nat]

Init ==
    /\ time = 0
    /\ limits = NoEntry
    /\ asked = [h \in Handlers |-> None]
    /\ sweeping = None
    /\ admitted = [t \in Times |-> 0]

Tick ==
    /\ time < EndOfTime
    /\ \A t \in {asked[h] : h \in Handlers} \cup {sweeping} : t # None => time < t + Lag
    /\ time' = time + 1
    /\ admitted' = [admitted EXCEPT ![time + 1] = admitted[time]]
    /\ UNCHANGED <<limits, asked, sweeping>>

-----------------------------------------------------------------------------
\* Instant's duration_since: nothing where the other is later.
Since(now, start) == IF now > start THEN now - start ELSE 0

Ask(h) ==
    /\ asked[h] = None
    /\ asked' = [asked EXCEPT ![h] = time]
    /\ UNCHANGED <<time, limits, sweeping, admitted>>

\* The entry after a query: a new window, or one more in the old.
Counted(entry, now) ==
    IF entry = NoEntry \/ Since(now, entry.start) >= Window
    THEN [count |-> 1, start |-> now]
    ELSE [entry EXCEPT !.count = IF @ <= MaxQueries THEN @ + 1 ELSE @]

\* should_limit, under the lock of the entry, and what handle does with the result: the
\* first query of a window passes in any case, one too many is refused.
ShouldLimit(h) ==
    /\ asked[h] # None
    /\ limits' = Counted(limits, asked[h])
    /\ admitted' = IF limits'.count > 1 /\ limits'.count > MaxQueries THEN admitted
                   ELSE [admitted EXCEPT ![time] = @ + 1]
    /\ asked' = [asked EXCEPT ![h] = None]
    /\ UNCHANGED <<time, sweeping>>

-----------------------------------------------------------------------------
\* The cleanup task; when it runs is left open.
Sweep ==
    /\ sweeping = None
    /\ sweeping' = time
    /\ UNCHANGED <<time, limits, asked, admitted>>

\* Mutant of IsOld: windows of an earlier time are removed as well.
IsAnyOld(entry, now) == now > entry.start

IsOld(entry, now) == Since(now, entry.start) >= 2 * Window

Retain ==
    /\ sweeping # None
    /\ limits' = IF limits # NoEntry /\ IsOld(limits, sweeping) THEN NoEntry ELSE limits
    /\ sweeping' = None
    /\ UNCHANGED <<time, asked, admitted>>

Next ==
    \/ Tick \/ Sweep \/ Retain
    \/ \E h \in Handlers : Ask(h) \/ ShouldLimit(h)

Spec == Init /\ [][Next]_limitVars

-----------------------------------------------------------------------------
\* How many have been let through since time t.
AdmittedSince(t) == admitted[time] - (IF t = 0 THEN 0 ELSE admitted[t - 1])

(* The limiter lets no client have more than two windows' worth of queries *)
(* within the length of one window (max_queries per window_secs,           *)
(* ratelimit.rs:29, and windows that meet), less the time for which a      *)
(* reading of the clock may be late: neither a query nor the cleanup (81)  *)
(* that comes late with its time starts a window anew that is still full.  *)
LimitHolds ==
    \A t \in 0 .. time :
        time + Lag < t + Window => AdmittedSince(t) <= 2 * MaxQueries
=============================================================================
