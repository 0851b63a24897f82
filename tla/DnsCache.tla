------------------------------ MODULE DnsCache ------------------------------
(***************************************************************************)
(* The answer cache of src/plugins/cache.rs inside the pipeline of a       *)
(* query: the server calls the plugin chain, the cache comes first, the    *)
(* plugins behind it (a forwarder, a resolver) are reached on a miss, and  *)
(* the server runs the cache's post-process hook before it replies.        *)
(*                                                                         *)
(* Running at the same time as the queries:                                *)
(*   - refresh tasks, spawned by a query that was served an entry that is  *)
(*     stale or about to be, which nobody waits for and nobody cancels;    *)
(*   - shadow refreshes, spawned when the kernel's cache asks for one;     *)
(*   - the start-up loader, a blocking task that restores the file while   *)
(*     queries are already being served;                                   *)
(*   - the persistence task, which truncates the file and then writes it   *)
(*     entry by entry;                                                     *)
(*   - the administrator's purge, evictions, and a crash at any moment.    *)
(*                                                                         *)
(* Whoever has a response first builds its entry, with the time in it, and *)
(* then awaits the insert: the two are steps of their own, and anybody     *)
(* else may get in between.                                                *)
(*                                                                         *)
(* A key stands for QueryKey (hashed name, type, class).  A response is    *)
(* the set of TTLs its answer records carry: the empty set is a response   *)
(* with no answers, SERVFAIL and NXDOMAIN included.                        *)
(***************************************************************************)
EXTENDS Integers, Sequences, FiniteSets

CONSTANTS
    Keys,
    Clients,             \* queries in progress
    Refreshers,          \* room for that many refresh tasks (a bound)
    Responses,           \* sets of record TTLs
    MinTtl, MaxTtl,      \* CacheTuning.min_ttl, max_ttl
    ConfiguredThreshold, \* prefetch_if_ttl_less_than of the configuration
    ConfiguredStale,     \* serve_stale_ttl of the configuration
    LoadGrace,           \* the extra hour the loader grants
    FakeIpProtection,    \* BOOLEAN
    HasForwarder,        \* the cache was given upstreams of its own
    HasRecursive,        \* recursive_mode
    HasXdp,              \* an XDP filter is attached: there are shadow refreshes
    UnansweredTtl,       \* what a shadow refresh gives a response without answers
    EndOfTime,           \* the clock stops here (a bound)
    None                 \* no entry, no response, no task, no query

ASSUME TtlAssumption ==
    /\ MinTtl \in Nat /\ MaxTtl \in Nat
    /\ Responses \subseteq SUBSET Nat
    /\ ConfiguredThreshold \in Nat /\ ConfiguredStale \in Nat /\ LoadGrace \in Nat
    /\ UnansweredTtl \in Nat

ASSUME SwitchAssumption ==
    /\ FakeIpProtection \in BOOLEAN
    /\ HasForwarder \in BOOLEAN
    /\ HasRecursive \in BOOLEAN
    /\ HasXdp \in BOOLEAN

VARIABLES
    now,        \* SystemTime, in seconds
    cache,      \* [Keys -> CachedEntry or None]: the moka cache
    client,     \* [Clients -> its query, or None]
    task,       \* [Refreshers -> the task it runs, or None]
    unread,     \* what the start-up loader has still to restore
    disk,       \* the records of persist_file
    saving,     \* save_to_disk is running
    unsaved,    \* the keys its iteration has still to visit
    learned,    \* history: when an entry was last built of each response for each key
    purgedAt,   \* history: when this process was last purged
    underway    \* history: the older entries that were built and not inserted at that purge

history == <<learned, purgedAt, underway>>
vars == <<now, cache, client, task, unread, disk, saving, unsaved, learned, purgedAt, underway>>

-----------------------------------------------------------------------------
(* Types.                                                                  *)

Entry == [resp : Responses, timestamp : Nat, ttl : Nat]
Record == [key : Keys, entry : Entry]
Never == -1

\* "lookup": in handle, before cache.get.     "expired": before invalidate.
\* "miss": the plugins behind the cache.      "hook": on_response is due.
\* "insert": on_response has built an entry, and inserts it.
\* "answered", "dropped": the server sends the reply, or nothing.
Undecided == {"lookup", "expired", "miss", "dropped"}
Query == [pc : Undecided, key : Keys, resp : {None}, from : {"nowhere"}]
           \cup [pc : {"hook"}, key : Keys, resp : Responses, from : {"upstream"}]
           \cup [pc : {"insert"}, key : Keys, entry : Entry]
           \cup [pc : {"answered"}, key : Keys, resp : Responses, from : {"upstream", "cache"}]

\* What a refresh task awaits: the recursive backend, the forwarder, the recursive
\* backend on behalf of the kernel ("shadow"), or the insert of its entry.
Backends == {"recursive", "forward"} \cup IF HasXdp THEN {"shadow"} ELSE {}
Task == [pc : Backends, key : Keys]
          \cup [pc : {"insert"}, key : Keys, entry : Entry]

ASSUME NoneAssumption == None \notin Entry \cup Responses \cup Query \cup Task

\* Type invariant: every variable keeps its shape, whatever is interleaved: what
\* is loaded are whole records, and a query carries a response exactly when it
\* has one.
TypeOK ==
    /\ now \in Nat
    /\ cache \in [Keys -> Entry \cup {None}]
    /\ client \in [Clients -> Query \cup {None}]
    /\ task \in [Refreshers -> Task \cup {None}]
    /\ unread \in Seq(Record)
    /\ disk \in Seq(Record)
    /\ saving \in BOOLEAN
    /\ unsaved \in SUBSET Keys
    /\ learned \in [Keys -> [Responses -> Nat \cup {Never}]]
    /\ purgedAt \in Nat
    /\ underway \in SUBSET (Keys \X Entry)

-----------------------------------------------------------------------------
(* The cache's parameters and an entry's age.                              *)

\* new(): without upstreams of its own the cache forgets both settings.
PrefetchThreshold == IF HasForwarder THEN ConfiguredThreshold ELSE 0
ServeStaleTtl == IF HasForwarder THEN ConfiguredStale ELSE 0

\* calculate_ttl: the smallest of the records' TTLs and max_ttl, but at least
\* min_ttl.  A response without answers gets max_ttl.
Lowest(ttls) == CHOOSE t \in ttls : \A u \in ttls : t <= u

CalculateTtl(resp) ==
    LET lowest == Lowest(resp \cup {MaxTtl})
    IN  IF lowest < MinTtl THEN MinTtl ELSE lowest

\* A shadow refresh takes the smallest of the records' TTLs as it is.
ShadowTtl(resp) == IF resp = {} THEN UnansweredTtl ELSE Lowest(resp)

\* new_with_bytes: the clock is read here, before the insert.
NewEntry(resp, ttl) == [resp |-> resp, timestamp |-> now, ttl |-> ttl]

\* u64::saturating_sub
Elapsed(e) == IF e.timestamp > now THEN 0 ELSE now - e.timestamp
Remaining(e) == IF Elapsed(e) > e.ttl THEN 0 ELSE e.ttl - Elapsed(e)

IsStale(e) == Remaining(e) = 0
\* Mutant of CanServeStale: the last second of the window counts twice.
CanServeTooStale(e) == IsStale(e) /\ Elapsed(e) <= e.ttl + ServeStaleTtl

CanServeStale(e) == IsStale(e) /\ Elapsed(e) < e.ttl + ServeStaleTtl
NeedPrefetch(e) == Remaining(e) < PrefetchThreshold \/ IsStale(e)

Restorable(e) == Elapsed(e) < e.ttl + ServeStaleTtl + LoadGrace

-----------------------------------------------------------------------------
(* Steps shared by several actions.                                        *)

\* An entry is built of a response that arrived for k.
Note(k, resp) == learned' = [learned EXCEPT ![k][resp] = now]

\* cache.insert: the last one wins.
Insert(k, e) == cache' = [cache EXCEPT ![k] = e]

Stage(c) == IF client[c] = None THEN "idle" ELSE client[c].pc
Awaits(r) == IF task[r] = None THEN "nothing" ELSE task[r].pc

Move(c, pc) == client' = [client EXCEPT ![c].pc = pc]

\* tokio::spawn of the refresh, recursive first where there is such a backend.
\* Nothing looks whether the key is being refreshed already.  With all the slots
\* taken, the refresh is one that fails at once (a bound).
SpawnRefresh(k) ==
    \/ \E r \in Refreshers :
         /\ task[r] = None
         /\ task' = [task EXCEPT ![r] =
              [pc |-> IF HasRecursive THEN "recursive" ELSE "forward", key |-> k]]
    \/ /\ \A r \in Refreshers : task[r] # None
       /\ UNCHANGED task

-----------------------------------------------------------------------------
(* A query.                                                                *)

Init ==
    /\ now = 0
    /\ cache = [k \in Keys |-> None]
    /\ client = [c \in Clients |-> None]
    /\ task = [r \in Refreshers |-> None]
    /\ unread = <<>>
    /\ disk = <<>>
    /\ saving = FALSE
    /\ unsaved = {}
    /\ learned = [k \in Keys |-> [resp \in Responses |-> Never]]
    /\ purgedAt = 0
    /\ underway = {}

Arrive(c, k) ==
    /\ Stage(c) \in {"idle", "answered", "dropped"}
    /\ client' = [client EXCEPT ![c] =
         [pc |-> "lookup", key |-> k, resp |-> None, from |-> "nowhere"]]
    /\ UNCHANGED <<now, cache, task, unread, disk, saving, unsaved, history>>

\* Not in the cache, or expired under FakeIP protection, in which case the
\* entry stays: the hook is pushed and the chain goes on.
Miss(c) ==
    /\ Stage(c) = "lookup"
    /\ LET e == cache[client[c].key]
       IN  e # None => (FakeIpProtection /\ IsStale(e))
    /\ Move(c, "miss")
    /\ UNCHANGED <<now, cache, task, unread, disk, saving, unsaved, history>>

\* Fresh, or stale and still allowed: the stored bytes are the response, the
\* chain stops, and a refresh is spawned where one is due.
Hit(c) ==
    /\ Stage(c) = "lookup"
    /\ LET k == client[c].key
           e == cache[k]
       IN  /\ e # None
           /\ IsStale(e) => (~FakeIpProtection /\ CanServeStale(e))
           /\ client' = [client EXCEPT ![c] =
                [pc |-> "answered", key |-> k, resp |-> e.resp, from |-> "cache"]]
           /\ IF NeedPrefetch(e) /\ (HasRecursive \/ HasForwarder)
                THEN SpawnRefresh(k)
                ELSE UNCHANGED task
    /\ UNCHANGED <<now, cache, unread, disk, saving, unsaved, history>>

\* Too old: handle goes on to invalidate the key, whatever is there by then.
FindTooOld(c) ==
    /\ Stage(c) = "lookup"
    /\ LET e == cache[client[c].key]
       IN  /\ e # None
           /\ IsStale(e) /\ ~CanServeStale(e) /\ ~FakeIpProtection
    /\ Move(c, "expired")
    /\ UNCHANGED <<now, cache, task, unread, disk, saving, unsaved, history>>

Invalidate(c) ==
    /\ Stage(c) = "expired"
    /\ cache' = [cache EXCEPT ![client[c].key] = None]
    /\ Move(c, "miss")
    /\ UNCHANGED <<now, task, unread, disk, saving, unsaved, history>>

\* The rest of the chain sets a response (SERVFAIL when forwarding failed) ...
Resolve(c, resp) ==
    /\ Stage(c) = "miss"
    /\ client' = [client EXCEPT ![c] =
         [pc |-> "hook", key |-> client[c].key, resp |-> resp, from |-> "upstream"]]
    /\ UNCHANGED <<now, cache, task, unread, disk, saving, unsaved, history>>

\* Mutant of ResolveFails: the chain is run again.
ResolveAgain(c) ==
    /\ Stage(c) = "miss"
    /\ Move(c, "lookup")
    /\ UNCHANGED <<now, cache, task, unread, disk, saving, unsaved, history>>

\* ... or fails, or sets none: no hook runs and nothing is sent.
ResolveFails(c) ==
    /\ Stage(c) = "miss"
    /\ Move(c, "dropped")
    /\ UNCHANGED <<now, cache, task, unread, disk, saving, unsaved, history>>

\* on_response: an entry is built of the response ...
BuildEntry(c) ==
    /\ Stage(c) = "hook"
    /\ LET q == client[c]
           ttl == CalculateTtl(q.resp)
       IN  /\ ttl > 0
           /\ Note(q.key, q.resp)
           /\ client' = [client EXCEPT ![c] =
                [pc |-> "insert", key |-> q.key, entry |-> NewEntry(q.resp, ttl)]]
    /\ UNCHANGED <<now, cache, task, unread, disk, saving, unsaved, purgedAt, underway>>

\* ... and inserted, whatever has happened under its key since.
InsertEntry(c) ==
    /\ Stage(c) = "insert"
    /\ LET q == client[c]
       IN  /\ Insert(q.key, q.entry)
           /\ client' = [client EXCEPT ![c] =
                [pc |-> "answered", key |-> q.key, resp |-> q.entry.resp, from |-> "upstream"]]
    /\ UNCHANGED <<now, task, unread, disk, saving, unsaved, history>>

\* A response that is too large, or whose TTL is zero, is not written back.
LeaveUncached(c) ==
    /\ Stage(c) = "hook"
    /\ Move(c, "answered")
    /\ UNCHANGED <<now, cache, task, unread, disk, saving, unsaved, history>>

-----------------------------------------------------------------------------
(* A refresh task.                                                         *)

\* The poller finds an event of the kernel's and spawns a shadow refresh.  The
\* kernel has its own entries, and knows nothing of what is cached here.
SpawnShadow(k) ==
    /\ HasXdp /\ HasRecursive
    /\ \E r \in Refreshers :
         /\ task[r] = None
         /\ task' = [task EXCEPT ![r] = [pc |-> "shadow", key |-> k]]
    /\ UNCHANGED <<now, cache, client, unread, disk, saving, unsaved, history>>

\* The awaited lookup or exchange answers, and an entry is built.  A shadow
\* refresh does so even if its TTL is zero.
RefreshAnswers(r, resp) ==
    /\ Awaits(r) \in Backends
    /\ LET ttl == IF Awaits(r) = "shadow" THEN ShadowTtl(resp) ELSE CalculateTtl(resp)
       IN  /\ Awaits(r) # "shadow" => ttl > 0
           /\ task' = [task EXCEPT ![r] =
                [pc |-> "insert", key |-> task[r].key, entry |-> NewEntry(resp, ttl)]]
    /\ Note(task[r].key, resp)
    /\ UNCHANGED <<now, cache, client, unread, disk, saving, unsaved, purgedAt, underway>>

RefreshInserts(r) ==
    /\ Awaits(r) = "insert"
    /\ Insert(task[r].key, task[r].entry)
    /\ task' = [task EXCEPT ![r] = None]
    /\ UNCHANGED <<now, client, unread, disk, saving, unsaved, history>>

\* The recursive lookup fails: the forwarder is asked, where there is one.
RecursiveFails(r) ==
    /\ Awaits(r) = "recursive"
    /\ task' = [task EXCEPT ![r] = IF HasForwarder THEN [@ EXCEPT !.pc = "forward"] ELSE None]
    /\ UNCHANGED <<now, cache, client, unread, disk, saving, unsaved, history>>

\* Mutant of RefreshGivesUp: the recursive backend is tried once more.
RefreshTriesAgain(r) ==
    /\ Awaits(r) \in Backends
    /\ task' = [task EXCEPT ![r] = [pc |-> "recursive", key |-> @.key]]
    /\ UNCHANGED <<now, cache, client, unread, disk, saving, unsaved, history>>

\* The last backend fails, or the answer's TTL is zero, or it cannot be encoded.
RefreshGivesUp(r) ==
    /\ Awaits(r) \in Backends
    /\ task' = [task EXCEPT ![r] = None]
    /\ UNCHANGED <<now, cache, client, unread, disk, saving, unsaved, history>>

-----------------------------------------------------------------------------
(* The file.                                                               *)

\* File::create truncates what is there, before anything is written.
SaveStart ==
    /\ ~saving
    /\ saving' = TRUE
    /\ disk' = <<>>
    /\ unsaved' = Keys
    /\ UNCHANGED <<now, cache, client, task, unread, history>>

\* Mutant of SaveVisit: the entry has gone when the iteration comes to it.
SaveVisitUnchecked(k) ==
    /\ saving /\ k \in unsaved
    /\ unsaved' = unsaved \ {k}
    /\ disk' = Append(disk, [key |-> k, entry |-> cache[k]])
    /\ UNCHANGED <<now, cache, client, task, unread, saving, history>>

\* The iteration over the live cache comes to k.
SaveVisit(k) ==
    /\ saving /\ k \in unsaved
    /\ unsaved' = unsaved \ {k}
    /\ IF cache[k] # None
       THEN disk' = Append(disk, [key |-> k, entry |-> cache[k]])
       ELSE UNCHANGED disk
    /\ UNCHANGED <<now, cache, client, task, unread, saving, history>>

SaveEnd ==
    /\ saving /\ unsaved = {}
    /\ saving' = FALSE
    /\ UNCHANGED <<now, cache, client, task, unread, disk, unsaved, history>>

\* Mutant of LoadNext: what is restored starts a new life.
LoadNextAsNew ==
    /\ unread # <<>>
    /\ unread' = Tail(unread)
    /\ cache' = [cache EXCEPT ![Head(unread).key] =
         [Head(unread).entry EXCEPT !.timestamp = now]]
    /\ UNCHANGED <<now, client, task, disk, saving, unsaved, history>>

\* The loader restores the next record, with the timestamp it was saved with,
\* over whatever the cache holds for the key.
LoadNext ==
    /\ unread # <<>>
    /\ unread' = Tail(unread)
    /\ LET rec == Head(unread)
       IN  IF Restorable(rec.entry)
           THEN cache' = [cache EXCEPT ![rec.key] = rec.entry]
           ELSE UNCHANGED cache
    /\ UNCHANGED <<now, client, task, disk, saving, unsaved, history>>

\* The file is truncated under the loader: read_exact fails, and the rest is
\* lost.
LoadCutShort ==
    /\ unread # <<>> /\ saving
    /\ unread' = <<>>
    /\ UNCHANGED <<now, cache, client, task, disk, saving, unsaved, history>>

-----------------------------------------------------------------------------
(* The surroundings.                                                       *)

\* What has been built and is about to be inserted.
Built == {<<client[c].key, client[c].entry>> : c \in {d \in Clients : Stage(d) = "insert"}}
           \cup {<<task[r].key, task[r].entry>> : r \in {t \in Refreshers : Awaits(t) = "insert"}}

\* The history remembers a purge once the loader is through.
RememberPurge ==
    IF unread = <<>>
    THEN purgedAt' = now /\ underway' = {p \in Built : p[2].timestamp < now}
    ELSE UNCHANGED <<purgedAt, underway>>

\* Mutant of Purge: what has expired is taken to be gone already.
PurgeFresh ==
    /\ cache' = [k \in Keys |->
         IF cache[k] # None /\ IsStale(cache[k]) THEN cache[k] ELSE None]
    /\ RememberPurge
    /\ UNCHANGED <<now, client, task, unread, disk, saving, unsaved, learned>>

\* POST /cache/purge.
Purge ==
    /\ cache' = [k \in Keys |-> None]
    /\ RememberPurge
    /\ UNCHANGED <<now, client, task, unread, disk, saving, unsaved, learned>>

\* moka drops an entry, at its capacity or after moka_ttl_secs.
Evict(k) ==
    /\ cache[k] # None
    /\ cache' = [cache EXCEPT ![k] = None]
    /\ UNCHANGED <<now, client, task, unread, disk, saving, unsaved, history>>

\* The process dies and is started again: the file, however much of it had
\* been written, is all that is left, and the loader is spawned on it.
Restart ==
    /\ cache' = [k \in Keys |-> None]
    /\ client' = [c \in Clients |-> None]
    /\ task' = [r \in Refreshers |-> None]
    /\ saving' = FALSE
    /\ unsaved' = {}
    /\ unread' = disk
    /\ purgedAt' = 0
    /\ underway' = {}
    /\ UNCHANGED <<now, disk, learned>>

Tick ==
    /\ now < EndOfTime
    /\ now' = now + 1
    /\ UNCHANGED <<cache, client, task, unread, disk, saving, unsaved, history>>

-----------------------------------------------------------------------------

QueryStep(c) ==
    \/ Miss(c)
    \/ Hit(c)
    \/ FindTooOld(c)
    \/ Invalidate(c)
    \/ \E resp \in Responses : Resolve(c, resp)
    \/ ResolveFails(c)
    \/ BuildEntry(c)
    \/ InsertEntry(c)
    \/ LeaveUncached(c)

RefreshStep(r) ==
    \/ \E resp \in Responses : RefreshAnswers(r, resp)
    \/ RefreshInserts(r)
    \/ RecursiveFails(r)
    \/ RefreshGivesUp(r)

SaveStep == (\E k \in Keys : SaveVisit(k)) \/ SaveEnd

LoadStep == LoadNext \/ LoadCutShort

Next ==
    \/ \E c \in Clients : QueryStep(c) \/ (\E k \in Keys : Arrive(c, k))
    \/ \E r \in Refreshers : RefreshStep(r)
    \/ SaveStart
    \/ SaveStep
    \/ LoadStep
    \/ Purge
    \/ \E k \in Keys : SpawnShadow(k) \/ Evict(k)
    \/ Restart
    \/ Tick

\* The runtime polls every ready task, and exchanges end, at the latest by their
\* timeouts.  Nothing is said of the loader and the saver, that queries arrive, that
\* time is seen to pass, or what an upstream says.
Fairness ==
    /\ \A c \in Clients : WF_vars(QueryStep(c))
    /\ \A r \in Refreshers : WF_vars(RefreshStep(r))

Spec == Init /\ [][Next]_vars
FairSpec == Spec /\ Fairness

-----------------------------------------------------------------------------
(* Safety.                                                                 *)

\* The TTLs that an entry of this response may have.
Ttls(resp) == {CalculateTtl(resp)} \cup IF HasXdp THEN {ShadowTtl(resp)} ELSE {}

\* An entry is a response that arrived for that key, no earlier than the entry's
\* timestamp says, and it expires when the code that built it says.
Genuine(k, e) ==
    /\ e.timestamp <= learned[k][e.resp]
    /\ e.ttl \in Ttls(e.resp)

\* Every entry that may come to be served is genuine, wherever it is: in the
\* cache, in the hands of who is about to insert it, in the file, or still to be
\* restored by the loader.
EntriesGenuine ==
    /\ \A k \in Keys : cache[k] # None => Genuine(k, cache[k])
    /\ \A p \in Built : Genuine(p[1], p[2])
    /\ \A i \in 1 .. Len(disk) : Genuine(disk[i].key, disk[i].entry)
    /\ \A i \in 1 .. Len(unread) : Genuine(unread[i].key, unread[i].entry)

\* What was in the cache at a purge stays away for the life of the process: what
\* is there later and is older than the purge was no more than built at the time,
\* by a query or a refresh that had yet to insert it.  (Those do bring an answer
\* from before the purge into the cache after it, as do the queries and refreshes
\* that had yet to build their entry, which is then dated later than the purge.)
PurgeIsFinal ==
    \A k \in Keys :
        cache[k] # None /\ cache[k].timestamp < purgedAt => <<k, cache[k]>> \in underway

\* The same of what is about to be inserted.
LatecomersKnown ==
    \A p \in Built : p[2].timestamp < purgedAt => p \in underway

\* The history lies in the past, and a purge is remembered by a process that has
\* nothing left to load.
HistoryInOrder ==
    /\ \A k \in Keys, resp \in Responses : learned[k][resp] <= now
    /\ purgedAt <= now
    /\ unread # <<>> => purgedAt = 0

\* The inductive invariant from which the safety properties follow.
IInv ==
    /\ TypeOK
    /\ HistoryInOrder
    /\ EntriesGenuine
    /\ PurgeIsFinal
    /\ LatecomersKnown

\* For how many seconds after it was learned a response may be handed out.
LongestTtl(resp) ==
    IF HasXdp /\ ShadowTtl(resp) > CalculateTtl(resp) THEN ShadowTtl(resp) ELSE CalculateTtl(resp)

KeepFor == [resp \in Responses |->
    LongestTtl(resp) + IF FakeIpProtection THEN 0 ELSE ServeStaleTtl]

\* What the client that asked can tell of its query.
Seen(c) ==
    LET q == client[c] IN
    CASE Stage(c) = "idle" -> [st |-> "quiet"]
      [] Stage(c) = "dropped" -> [st |-> "dropped", key |-> q.key]
      [] Stage(c) = "answered" ->
           [st |-> "answered", key |-> q.key, resp |-> q.resp, from |-> q.from]
      [] OTHER -> [st |-> "asking", key |-> q.key]

Asking == [c \in Clients |-> Seen(c)]

Contract == INSTANCE CacheContract WITH asking <- Asking

\* The clients see no more than a caching server may do (CacheContract): a
\* response handed out from the cache was learned for that key, less than its
\* TTL and the stale window ago, and with FakeIP protection less than its TTL,
\* across refreshes, evictions, the file and restarts.
ImplementsContract == Contract!Spec

-----------------------------------------------------------------------------
(* What a step may never do.                                               *)

\* The comment on serve_stale_ttl says "If expired, still serve if within this
\* seconds": a query that finds an expired entry within them does not go on to
\* the upstreams.
ServesStaleAsConfigured ==
    [][ \A c \in Clients :
          LET e == cache[client[c].key] IN
          (FindTooOld(c) \/ Miss(c)) /\ e # None => Elapsed(e) >= e.ttl + ConfiguredStale ]_vars

-----------------------------------------------------------------------------
(* Liveness.                                                               *)

\* No query is stuck or sent round in circles: each is answered or dropped, or
\* the process dies, whatever the loader, a purge or a refresh of the same key does
\* to the entry it found.
QueriesEnd ==
    \A c \in Clients :
        (client[c] # None) ~> (Stage(c) \in {"idle", "answered", "dropped"})

\* A refresh ends, whichever of its backends fail: it keeps no slot for ever.
RefreshesEnd == \A r \in Refreshers : (task[r] # None) ~> (task[r] = None)
=============================================================================
