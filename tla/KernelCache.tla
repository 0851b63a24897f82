---------------------------- MODULE KernelCache ----------------------------
(***************************************************************************)
(* The answers the XDP program keeps in the kernel (bpf/titan_filter.c),   *)
(* and how the answer cache fills and refreshes them (src/plugins/cache.rs,*)
(* src/bpf.rs): a sync after each answer, a warm-up of what was loaded     *)
(* from disk, and a shadow refresh the program asks for shortly before an  *)
(* entry ends.  The three write under the filter's mutex, one after the    *)
(* other, and find there what the others left.                             *)
(*                                                                         *)
(* An entry of either cache is what it says of its age: when its answer was*)
(* fetched, and its TTL.                                                   *)
(***************************************************************************)
EXTENDS Naturals, Sequences, SequencesExt, FiniteSetsExt

CONSTANTS
    Names,        \* names with their type and class: what is hashed
    Ttls,         \* of answers
    Grace,        \* added to the TTL in the kernel, 60 s in the code
    Threshold,    \* REFRESH_THRESHOLD_NS, 10 s in the code
    Gap,          \* between two events of an entry, 3 s in the code
    DedupWindow,  \* between two refreshes of a name, 5 s in the code
    EventsPerPoll, \* MAX_EVENTS_PER_POLL, 10 in the code
    RingSize,     \* bound: events in the ring
    Lag,          \* bound: how long a write may wait, or the warm-up take
    EndOfTime,    \* bound
    None

VARIABLES
    now,        \* in seconds; the entries loaded from disk are of second 0
    user,       \* [Names -> the entry of the answer cache, or None]
    kernel,     \* [Names -> the entry of dns_cache, or None]
    reverse,    \* the names in the reverse map of hashes
    ring,       \* refresh_ringbuf
    dedup,      \* [Names -> when the name was last refreshed, or None]
    refreshing, \* names a refresh task looks up
    pending,    \* writes that wait for the mutex
    warm        \* the warm-up: when it began and what it has not visited, or None

kernelVars == <<now, user, kernel, reverse, ring, dedup, refreshing, pending, warm>>

Times == 0 .. EndOfTime
Entries == [fetched : Times, ttl : Ttls]

\* left is the TTL handed to update_cache, since when the write waits.
Writes == [by : {"sync", "refresh", "warm"}, name : Names, fetched : Times, ttl : Ttls,
           left : Nat, since : Times, ok : BOOLEAN]

\* Type invariant.
KernelCacheTypeOK ==
    /\ now \in Times
    /\ user \in [Names -> Entries \cup {None}]
    /\ \A n \in Names : kernel[n] # None =>
          kernel[n] \in [fetched : Times, ttl : Ttls, expires : Nat, event : Times, ok : BOOLEAN]
    /\ reverse \subseteq Names /\ refreshing \subseteq Names
    /\ ring \in Seq(Names) /\ Len(ring) <= RingSize
    /\ dedup \in [Names -> Times \cup {None}]
    /\ pending \subseteq Writes
    /\ warm = None \/ warm \in [since : Times, left : SUBSET Names]

\* The cache has been loaded when the filter is set and the warm-up starts.
Init ==
    /\ now \in {0, 1}
    /\ user \in [Names -> [fetched : {0}, ttl : Ttls] \cup {None}]
    /\ kernel = [n \in Names |-> None]
    /\ reverse = {} /\ refreshing = {} /\ pending = {}
    /\ ring = <<>>
    /\ dedup = [n \in Names |-> None]
    /\ warm = [since |-> now, left |-> Names]

-----------------------------------------------------------------------------
(* The writers.                                                            *)

Fetched(ttl) == [fetched |-> now, ttl |-> ttl]

Write(by, name, entry, left, ok) ==
    [by |-> by, name |-> name, fetched |-> entry.fetched, ttl |-> entry.ttl,
     left |-> left, since |-> now, ok |-> ok]

\* An answer enters the cache and, unless a sync or the warm-up has written the name
\* before, is to be written to the kernel.
OnResponse(n) ==
    /\ \E ttl \in Ttls \ {0} : \E ok \in BOOLEAN :
          /\ user' = [user EXCEPT ![n] = Fetched(ttl)]
          /\ pending' = IF n \in reverse THEN pending
                        ELSE pending \cup {Write("sync", n, Fetched(ttl), ttl, ok)}
    /\ UNCHANGED <<now, kernel, reverse, ring, dedup, refreshing, warm>>

\* A prefetch enters the cache only.
OnPrefetch(n) ==
    /\ \E ttl \in Ttls \ {0} : user' = [user EXCEPT ![n] = Fetched(ttl)]
    /\ UNCHANGED <<now, kernel, reverse, ring, dedup, refreshing, pending, warm>>

\* Mutant of Left: the warm-up hands over the whole TTL.
LeftInFull(entry, start) == entry.ttl

\* The remaining TTL of an entry when the warm-up began; truncated subtractions.
Left(entry, start) ==
    LET elapsed == IF start < entry.fetched THEN 0 ELSE start - entry.fetched IN
    IF entry.ttl < elapsed THEN 0 ELSE entry.ttl - elapsed

\* The warm-up visits the entries one by one, and skips those that have ended.  Their
\* response codes are not looked at.
WarmVisit(n) ==
    /\ warm # None /\ n \in warm.left
    /\ \A w \in pending : w.by # "warm"
    /\ warm' = [warm EXCEPT !.left = @ \ {n}]
    /\ \E ok \in BOOLEAN :
          pending' =
              IF user[n] # None /\ Left(user[n], warm.since) > 0
              THEN pending \cup {Write("warm", n, user[n], Left(user[n], warm.since), ok)}
              ELSE pending
    /\ UNCHANGED <<now, user, kernel, reverse, ring, dedup, refreshing>>

WarmEnd ==
    /\ warm # None /\ warm.left = {}
    /\ \A w \in pending : w.by # "warm"
    /\ warm' = None
    /\ UNCHANGED <<now, user, kernel, reverse, ring, dedup, refreshing, pending>>

\* update_cache, under the mutex.  A refresh leaves the reverse map as it is.
UpdateCache(w) ==
    /\ kernel' = [kernel EXCEPT ![w.name] =
          [fetched |-> w.fetched, ttl |-> w.ttl, expires |-> now + w.left + Grace,
           event |-> now, ok |-> w.ok]]
    /\ reverse' = IF w.by = "refresh" THEN reverse ELSE reverse \cup {w.name}
    /\ pending' = pending \ {w}
    /\ UNCHANGED <<now, user, ring, dedup, refreshing, warm>>

-----------------------------------------------------------------------------
(* The program in the kernel, and the shadow refresh.                      *)

Served(n) == kernel[n] # None /\ now <= kernel[n].expires /\ kernel[n].ok

\* A query is answered; close to the end of the entry with an event, unless there was one
\* a moment ago.  A full ring takes none.
Hit(n) ==
    /\ Served(n)
    /\ kernel[n].expires - now \in 1 .. Threshold - 1
    /\ now > kernel[n].event + Gap
    /\ kernel' = [kernel EXCEPT ![n].event = now]
    /\ ring' = IF Len(ring) < RingSize THEN Append(ring, n) ELSE ring
    /\ UNCHANGED <<now, user, reverse, dedup, refreshing, pending, warm>>

Fresh(n) == dedup[n] = None \/ now >= dedup[n] + DedupWindow

\* A refresh starts for every name of the first events that has had none for a while and
\* is still in the reverse map.  The event that ends the poll is taken out, and lost.
Poll ==
    /\ ring # <<>>
    /\ LET names == {n \in ToSet(SubSeq(ring, 1, EventsPerPoll)) : Fresh(n)} IN
          /\ dedup' = [n \in Names |-> IF n \in names THEN now ELSE dedup[n]]
          /\ refreshing' = refreshing \cup (names \cap reverse)
    /\ ring' = SubSeq(ring, EventsPerPoll + 2, Len(ring))
    /\ UNCHANGED <<now, user, kernel, reverse, pending, warm>>

\* The recursive lookup answers, with any TTL: the answer enters the cache under its name.
\* The trusted resolver's has no question, and the kernel is not told; an iterative one
\* has, after a CNAME that of the target.
Refreshed(n) ==
    /\ n \in refreshing
    /\ refreshing' = refreshing \ {n}
    /\ \E ttl \in Ttls : \E ok \in BOOLEAN : \E question \in Names \cup {None} :
          /\ user' = [user EXCEPT ![n] = Fetched(ttl)]
          /\ pending' = IF question = None THEN pending
                        ELSE pending \cup {Write("refresh", question, Fetched(ttl), ttl, ok)}
    /\ UNCHANGED <<now, kernel, reverse, ring, dedup, warm>>

RefreshFails(n) ==
    /\ n \in refreshing
    /\ refreshing' = refreshing \ {n}
    /\ UNCHANGED <<now, user, kernel, reverse, ring, dedup, pending, warm>>

-----------------------------------------------------------------------------
(* What ends by itself: entries of the cache (a purge among others), of the*)
(* reverse map (its own TTL) and of the kernel's map (least recently used).*)

UserForgets(n) ==
    /\ user[n] # None
    /\ user' = [user EXCEPT ![n] = None]
    /\ UNCHANGED <<now, kernel, reverse, ring, dedup, refreshing, pending, warm>>

ReverseForgets(n) ==
    /\ n \in reverse
    /\ reverse' = reverse \ {n}
    /\ UNCHANGED <<now, user, kernel, ring, dedup, refreshing, pending, warm>>

KernelForgets(n) ==
    /\ kernel[n] # None
    /\ kernel' = [kernel EXCEPT ![n] = None]
    /\ UNCHANGED <<now, user, reverse, ring, dedup, refreshing, pending, warm>>

Tick ==
    /\ now < EndOfTime
    /\ \A w \in pending : now < w.since + Lag
    /\ warm # None => now < warm.since + Lag
    /\ now' = now + 1
    /\ UNCHANGED <<user, kernel, reverse, ring, dedup, refreshing, pending, warm>>

Next ==
    \/ \E n \in Names :
          \/ OnResponse(n) \/ OnPrefetch(n) \/ WarmVisit(n)
          \/ Hit(n) \/ Refreshed(n) \/ RefreshFails(n)
          \/ UserForgets(n) \/ ReverseForgets(n) \/ KernelForgets(n)
    \/ \E w \in pending : UpdateCache(w)
    \/ WarmEnd \/ Poll \/ Tick

Spec == Init /\ [][Next]_kernelVars

-----------------------------------------------------------------------------
(* However syncs, the warm-up and refreshes overtake each other, the kernel*)
(* answers with nothing older than its TTL and the grace, but for the time *)
(* a write had to wait (bpf.rs:135; cache.rs:1057, 1064, 1109;             *)
(* titan_filter.c:246).                                                    *)
KernelAgeBounded ==
    \A n \in Names :
        Served(n) => now - kernel[n].fetched <= kernel[n].ttl + Grace + Lag
=============================================================================
