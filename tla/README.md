# TitanDNS in TLA+

TitanDNS is a DNS forwarder written in Rust: queries go through a chain of plugins (cache, rules,
split routing, forwarding, recursion), the configuration can be changed while it runs, and on Linux
an XDP program may answer from a cache in the kernel. This directory holds the specifications of
the parts whose correctness depends on the order in which things happen. Paths below are relative to
the repository (`src/plugins/cache.rs` is the cache's source); `PROJECT.json` maps every definition to the lines
it translates.

To run a model: `tlc -config DnsCache.cfg MCDnsCache.tla`. To check the proofs: `tlapm DnsCacheProofs.tla`.

| module | what it is |
|---|---|
| `CacheContract` | abstract: what a caching server promises to its clients |
| `DnsCache`, `MCDnsCache` | the answer cache with queries, refresh tasks, file, loader, purge and crashes; it implements `CacheContract` |
| `DnsCacheProofs` | its type correctness, safety and the refinement, proved |
| `Fallback` | one query in the failover between two plugins |
| `FallbackProofs` | its safety, proved |
| `Forward` | several queries in a forward plugin: permits, strategies, races, dropped handlers |
| `ForwardProofs` | its safety, and that every step goes on, proved |
| `HotReload` | a change of the configuration file on its way to every registry |
| `HotReloadProofs` | its safety, proved |
| `Exchange` | what a caller of an upstream may rely on |
| `Transport`, `TransportProofs` | an exchange with one upstream on each transport; whose reply it takes and its types, proved |
| `SmartForward` | split routing of one domain, what it learns and saves |
| `Recommendation`, `Availability` | what readers of AutoPilot's memory and of its health records may rely on |
| `Learning`, `Health`, `AutoPilotProofs` | AutoPilot's memory of a domain and its health record of an upstream; their safety, proved |
| `RateLimit` | the windows of one client, and the cleanup beside them |
| `Server` | the UDP loops with their workers and batches, and the connections |
| `Pipeline`, `Lists` | a query on its way through sequences, fallbacks and plugins |
| `Registry` | the build of the plugins, at the start and at a reload |
| `Resolver` | an iterative lookup |
| `KernelCache` | the answers the XDP program keeps, and who writes them |
| `MCLearning`, `MCService` | the last ten components, side by side, for TLC |
| `MCPipeline` | a program with a step behind its forwarder, for TLC |
| `LearningPartsProofs` | about `MCLearning`: the safety of `SmartForward` and `RateLimit`, and of the whole, proved |
| `ServicePartsProofs` | about `MCService`: the safety of `Server`, `KernelCache`, `Registry` and `Pipeline`, why lookups of `Resolver` end, and the safety of the whole, proved |

## 1. Inventory

For each part: the state it keeps, what changes that state, whom it talks to, what is hard about it, and
what makes it correct. *Modelled*, *partly* or *not modelled* is today's state; section 13 says what is left.

**Answer cache** (`src/plugins/cache.rs`; partly). State: a moka map from (name, type, class) to response bytes,
timestamp and TTL; the persist file. Operations: lookup (`handle`), write-back (`on_response`, a hook
that the server runs before it replies), a refresh task per stale hit, a shadow refresh where the kernel's
cache asks for one, purge (from the API), a loader and a periodic saver, eviction. Hard: refreshes are neither awaited, cancelled nor
deduplicated; an entry is stamped first and inserted afterwards; the loader runs while queries are served; `get` and `invalidate` are separate; the saver truncates the file it
rewrites; ages cross restarts. Correct when: what is served for a name was learned for that name and is no older
than its TTL and the stale window allow (not at all stale under FakeIP protection), what was in the
cache at a purge stays away, and every query and task ends. Nothing in the code keeps an older answer from replacing a younger one,
or a fresh one from being lost to the loader or to an `invalidate`: that costs a query upstream, and is not called an error here. What this plugin
does with the kernel's map (`sync_to_xdp`, the warm-up, the poller and what a shadow refresh writes there) is in `KernelCache`; that a shadow refresh
inserts into the moka map as well is in `DnsCache`.

**Failover** (`src/plugins/fallback.rs`; modelled). State: per query, the futures of two plugins, a timer, the
held outcome of the secondary. Hard: `select!` takes any ready branch, and a branch is guarded by a
flag, not by its future. Correct when: a success is never lost, the secondary is used only after a failure
or the threshold, an error means that both failed, and the query ends.

**Hot reload** (`src/config_watcher.rs`, `src/core/hot_reload.rs`, `src/main.rs`; modelled). State: the watcher's
channels, `last_config_hash`, an `ArcSwap` registry in the main runtime and one in each UDP worker, a broadcast
channel of 16. Hard: the file is read twice (hash, load), it changes while it is read, the broadcast
overwrites what a slow worker has not seen, and the callback blocks in an asynchronous task. Correct when:
the process survives, every registry comes to the configuration in the file, and a broken file changes nothing.

**Plugin registry** (`src/plugin_factory.rs`; modelled). Builds plugins from the configuration: shared
ones once, the others at each reload. Hard: fallbacks and sequences refer to each other and are taken in the order of
a hash map, fallbacks in one pass, sequences in passes until nothing moves. Correct when: nothing that is built calls what is
missing, and what can be built is. (The result does depend on the order: a fallback on a fallback may be left out.)

**Forwarding and upstream exchange** (`src/plugins/forward.rs`, `src/socks5_udp.rs`; partly: `Forward` has the handler, `Transport` the exchange; the bootstrap and warm-up are left).
State: permits, pooled DoT connections, a DoQ connection, one SOCKS5 tunnel behind a mutex. Operations: execution in
order, as a race or by score; exchange over UDP, TCP, DoT, DoH, DoQ with timeouts. Hard: losers of the race are
aborted in the middle of an exchange, late replies stay in a shared socket, pooled connections are dead when taken.
Correct when: a reply answers the question it is returned for, permits come back, a query fails only when all upstreams did.

**Upstream health and learning** (`src/autopilot.rs`, `src/core/health.rs`, `src/health.rs`; partly). State: per
upstream, a flag, counters and the time it became unhealthy, all relaxed atomics; a memory per domain of who answered
fastest, fed by a channel, in a file. Hard: probes and queries record concurrently; the cooldown is read off a time that is
written in a step of its own; a full channel is bypassed; an entry is looked up and inserted in two steps. Correct when: an unhealthy upstream
is never shut out, and one is recommended only on results of its own. Left: the scores.

**Split routing** (`src/plugins/smart_forward.rs`; modelled). State: domain classes (domestic, foreign) learned
over a channel, with an expiry and a file. Hard: `get` and `remove` of an expired class are separate; a full channel is bypassed by tasks;
two stores are written one after the other; the persistence task saves only when the number of classes grew. Correct when: a domestic domain
never goes to FakeIP, no other goes there without a reason, and what routes is what is saved.

**UDP/TCP servers and workers** (`src/server.rs`, `src/server/*`; modelled). State: bounded
queues, batches, a timer. Hard: full queues, partial `sendmmsg`, workers that die, shutdown with work in the queues. Correct when: a request that was
taken comes to an end, a reply does not wait for other traffic, and a full queue costs only the packets that found it full.

**Pipeline** (`src/core/context.rs`, `src/plugins/sequence.rs`, `src/plugins/mod.rs`; modelled): steps with conditions, nested sequences and
fallbacks, a response in parsed or raw form, abort, hooks. Hard: a plugin may leave a response without abort, and branches work on copies. Correct
when: what a cache keeps is what the client was sent. **Matchers, lists and rewriting plugins** (partly): each is an operator of `Pipeline`, and
`Lists` has the lists; the parsing of the files is left. **Recursive resolver** (`src/plugins/recursive_backend.rs`, `src/plugins/smart_resolve.rs`;
partly): referrals, CNAMEs and name servers that may point at each other; correct when every lookup ends. How `smart_resolve` ranks addresses is left.
**XDP kernel cache** (`bpf/titan_filter.c`, `src/bpf.rs`; partly): a kernel map with its own expiry, refresh events over a
ring, three writers in user space; correct when the kernel answers with nothing older than TTL and grace. The parsing of packets is left.
**Rate limiting** (`src/plugins/ratelimit.rs`; modelled): windows per client, and a cleanup beside them; correct when the limit holds.
**Configuration and dashboard API** (`src/api.rs`, `src/config.rs`; partly): purge is an action of `DnsCache`, a change of the
file one of `HotReload`; the rest reads statistics.

Left aside for good: smart refresh, warm-up and the adaptive pool, and the concurrency primitives `Singleflight`
and `LockFreeCache` (nothing in production starts them); statistics, logs and metrics (nothing reads
them back); the sing-box controller (an external process); memory and encoding helpers (bytes).

## 2. The answer cache

`DnsCache` is the cache inside the pipeline. A key stands for the hashed name, type and class; **a response is the set of
the TTLs of its answer records**, which is all the cache looks at (an empty set: no answers, also SERVFAIL and NXDOMAIN).

| model | code |
|---|---|
| `cache` | the moka map; `None` where there is no entry |
| `client[c]` | a query: `lookup` (in `handle`, before `get`), `expired` (before `invalidate`), `miss` (the plugins behind the cache run), `hook` (`on_response` is due), `insert` (its entry is built and not yet inserted), `answered`, `dropped` |
| `task[r]` | a refresh task and the backend it awaits (`recursive`, then `forward`; `shadow` for one the kernel asked for), or the entry it is about to insert |
| `disk`, `saving`, `unsaved` | the file, and the saver between `File::create` and the last entry |
| `unread` | what the loader has still to restore |
| `now` | wall-clock seconds; `SystemTime` does not go back here |
| `learned`, `purgedAt`, `underway` | history, for the properties only: when an entry was last built of a response, when the last purge was, and which older entries were built and not inserted at that moment |

Each action is what happens between two points where another task can get in: `Miss`, `Hit` and `FindTooOld` are
the three outcomes of the one lookup, `Invalidate` is apart because the map is shared with everyone else in
between. `Hit` includes the spawning of the refresh. `Resolve` and `ResolveFails` are the rest of the chain,
`BuildEntry` and `InsertEntry` the hook (`LeaveUncached` where it caches nothing), `RefreshAnswers` and `RefreshInserts` a task's end. **Building an entry and inserting it are two
steps**, since `new_with_bytes` reads the clock and `insert` is awaited after it: between the two anybody else may insert, purge or let a second pass. A shadow refresh (`SpawnShadow`)
comes at any time, because the kernel's entries have a life of their own, and takes the TTL of the records as it is (`ShadowTtl`). `SaveStart` truncates the file and `SaveVisit` adds an entry at a time, as the iteration over a live
map does; a `Restart` in between keeps what had been written. `Restart` loses all but the file and the clock.

*Checked.* `EntriesGenuine`: every entry in the map, in the file, in the loader's hands or about to be inserted is a response that was taken for
that very key, its timestamp is no later than the last time that happened, and its TTL is that of `calculate_ttl` or of a shadow refresh.
`PurgeIsFinal`: what was in the cache at a purge does not come back in the life of the process. The code lets two things through, and the property says so: an entry that had been built
and not inserted at the purge is inserted after it with its old timestamp (it is in `underway`), and an answer that had been fetched and not built is
dated after the purge. So whatever is older than the purge must be in `underway`. (A purge while the loader still runs is not promised
even this: the loader does restore entries after it.) There is no property that a younger entry never gives way to an older one: between `new_with_bytes` and `insert` it may.
`ImplementsContract`: the refinement of `CacheContract`, in which a kept answer is at most `KeepFor` seconds old; it is what a client may rely on, whichever of several writers
came last. `QueriesEnd`, `RefreshesEnd`: liveness.

*Runs.* `cache_domestic` is the `cache_domestic` plugin of `config.example.yaml` in small, with an XDP filter: stale serving, both backends, one
key, one query at a time and one task. A query and a task are two writers with two steps each, beside them the loader is a third; one key is
enough for what entries of one key do to each other, and the theorems hold for any number of keys, queries and tasks. Three instants with TTLs 0 and 1, a stale window of one second and a grace of one
second (for the loader's 3600) cover: fresh, stale, too stale to serve, too old to restore, and an entry stamped in one second and inserted in a later one.
The response with TTL 0 is not cached by a query or a refresh, but is by a shadow refresh. The run has no FakeIP protection; that what is then served is not stale at all
is the theorem `CacheKeepsContract`, which holds for every setting. `cache_recursive_only` refutes `ServesStaleAsConfigured` (section 14).

*Bounds.* `EndOfTime` stops the clock; `Refreshers` is the number of refresh tasks at a time, the code having no limit: with all
slots taken, a further refresh is one that failed at once, which is a behaviour of the code. `UnansweredTtl` stands for the 300 s of a shadow refresh without answers. The theorems below
hold for all values of the three.

*Fairness.* Weak, on each query's steps and each task's: tokio polls every ready task, and every exchange ends by its timeout. Nothing is assumed of arrivals,
the saver and the loader, the clock, or of what an upstream says. (Weak fairness of a query's step does not mean that an upstream answers: `ResolveFails` is such a step.)

## 3. The failover

`Fallback` is one call of `handle_fallback`. `run[r]` is a plugin's run under its timeout of 5 seconds, `polled` the
roles whose future has completed (polling one again panics), `elapsed` the threshold's timer, `cached` the three
values of `secondary_cached`, `allow` is `allow_secondary`, `pc` the `select!` the handler is in. `Finish` and `Elapse`
happen while the handler is suspended; each disjunct of `Poll` is a branch taken in one poll, so any ready branch may win, as
`select!` picks at random. `always_standby` and the kinds of the two plugins are chosen by `Init`: one run covers every setting.
A forward plugin may end with `servfail`, which is a response. The instance is the whole system for one query: nothing
is bounded.

Run `fallback` checks: `ErrorMeansBothFailed`, `SecondaryIsSecond`, `SecondaryOnDemand`, `PanicNeedsFailedSecondary` (the
panic of section 14 takes `always_standby` and a failed secondary, nothing else leads to it), and `QueryEnds` under weak
fairness of the runs (`timeout`), the timer and the polls. Deadlock is not checked, because the end of a query is the end of
the behaviour. `fallback_panic` and `fallback_servfail` refute what the comments say (section 14).

## 4. Hot reload

`HotReload` follows a change of the file: the notify callback and its channel of one (`event`), the watcher's thread and
task (`watcher`), the main loop (`loop`: `select`, `load`, `publish`, `rebuild`), the broadcast (`mailbox[w]` is
what worker `w` has still to see of it, at most `Capacity`, the oldest lost first) and the registries (`main`, `worker[w]`).
A configuration is a model value and is its own hash; `None` is a file that cannot be read.

The callback panics (section 14). Where panics unwind, that drops the only sender of the main loop's channel,
`recv()` answers `None` at once from then on, and the pattern `_ = reload_rx.recv()` takes that for a change: the loop
hashes the file over and over, and reloads work. The same happens in every build when the watcher cannot be
started (`WatchFails`). So all of the loop is reachable, and this is how the module reaches it.

Run `hot_reload`: two workers, a channel of two, two configurations and a content that does not parse, the file changing at
any time. Two workers can be at different places; three publications overrun a channel of two; two
configurations are enough to return to an earlier one. Checked: `NoUpdateLost` (the newest configuration a worker
has or has still to see is the one the main loop published last), `ReloadSettles` (the loop comes to rest on a file
that stays), `FileIsServed` (and everyone serves it). The last one excepts the case that the
file changed between hash and load: then the hash on record may be that of the file while another configuration
runs, and the file is taken for unchanged. The first hash of the process is computed after the first load and has
the same gap, so `Init` allows any content of the file.
Nothing is bounded but the sets. Fairness: weak, for the watcher's thread and task, the main loop and each worker.

## 5. Forwarding

`Forward` is `ForwardPlugin::handle` for several queries at once.

| model | code |
|---|---|
| `free`, stages `waiting` and `granted` | `concurrent_limit`, a semaphore of `concurrent` permits |
| `stage[q]` | where the handler is: `order`, `memory` (the remembered upstream of `execute_smart`) and `single` (the only one it chose) await one exchange, `race` is the loop over spawned tasks |
| `ex[q][s]`, `at[q]` | the exchange with an upstream, or with the remembered one (slot `Memory`), and the one that is awaited |
| `seen[q]`, `best[q]` | the outcomes the handler has taken, and the response it would return now (`best_definitive`, else `best_other`) |
| `blamed[q][s]` | calls of AutoPilot's `record_failure` |

`Ask` takes a permit or queues for one, `Begin` starts the strategy, `InlineEnds` is the end of an awaited exchange, `TaskEnds` that of
a spawned one, `Poll` an outcome the race takes, `RaceOver` the end of the race when none is left. `Leave` gives the permit to a waiting query at
once, as tokio's semaphore does; which one is a choice here (tokio takes the first). `Drop` is the future of the handler being
dropped, by the timeout or the lost `select!` of a failover or by a DoH connection that closes: it takes an awaited
exchange with it, but spawned tasks are detached and go on, now without a permit.

What AutoPilot's heuristics decide is a choice: whom it bans, what it remembers, how it ranks the upstreams, how many it leaves and asks. So the
theorems do not depend on the scores. The DoH upstreams that are left out while the proxy is down are a subset in `BeginRace`. The loops of
`execute_smart`, `execute_dual_strategy` and `execute_graduated_strategy` have the same form, that of the strategy `race`.
`abort_all` stops a task at once: one that comes to its end before it is stopped is one that came to it before.

*Checked.* `PermitsConserved`: no permit is lost or made, and none is idle while a query waits. `BestWins`: a response without an
address is returned from a race only when nothing better came or may still come. `FailsOnlyAtLast`: SERVFAIL is made up only when
every exchange that was begun has failed, in order all of the configuration. `BlameIsTrue`: AutoPilot hears of a failed
exchange once, although the task and the handler both report failures, and of no other; nobody reports the timeouts of a race whose handler is
gone. `StraysAreDropped`: exchanges without a permit belong to dropped handlers only. `QueriesEnd`: liveness.

*Run and bounds.* `forward`: two queries for one permit, so one can wait, be granted a permit while it is being dropped, or be
dropped while it waits; two upstreams, so a race has a winner and a loser and strategy `order` a first and a last one. All three strategies are initial
states. `RaceWidth` is 5 in the code; with two upstreams any width from 2 on is the same. Nothing else is
bounded. *Fairness.* Weak: a ready task is polled, and each exchange is under a timeout. Deadlock is not checked, because queries end.

## 6. An exchange with an upstream

`Transport` is `exchange_bytes` for several queries to one upstream. A *conduit* is where a reply can be read: a UDP port, a connection, or
the SOCKS5 tunnel. `wire[c]` are the replies that can be read from `c`, each named by the query it answers; `stage[q]` is the await a query is at, `via[q]`
its conduit, `pool` the idle DoT connections (or the DoQ connection, which is shared), `got[q]` the reply it took. `Init` chooses the transport.
`Retry` sends again from the same socket; `Truncated` goes on over TCP; `BeginDot` lets the oldest idle connections go and takes the last of
the rest; `Return` puts a connection back after its reply, and only then; `GiveUp` is the timeout, an error, or the future being dropped, and closes a connection nobody
keeps. The tunnel's mutex (`Locked`) is held over a send and its receive, and released in between, when the tunnel is connected. Datagrams get lost, come late and come twice.

`RepliesAreOwn` (in `Exchange`, which holds what a caller sees): nothing on the way compares a reply's id with the query's, so conduits must keep them apart. Over a connection they do. Through the tunnel a
query may get the late reply to another one, but only to one that has ended; over UDP a late reply can only reach the port's next owner (with `reuse_address`).
Three queries for one port, three connections and a pool of one: a connection is reused, dropped and found in the pool by a third.

## 7. What is learned about domains and upstreams

`SmartForward` routes the queries for one domain, one after the other, with the learner, the tasks that bypass a full channel, the file and
restarts beside them. `pc` is where the query is: `memory` (AutoPilot's recommendation), `cache` and `remove` (the class learned for the domain; where there is none or it has expired, whatever is
there once the guard is gone is removed), `probe`, `fallback`, `last`. `class` is `domain_cache`, `persisted` the map the file is written from, `writer` who is between
the two writes. Whether the domain has a domestic suffix (`guarded`) and `prefer_local_on_miss` are chosen by `Init`; what upstreams answer, when entries expire
and whether a save succeeds are choices. Of AutoPilot it takes only what `ConfidenceEarned` promises: a recommendation follows `Confidence` reports.
`DomesticNeverFaked`: whatever was learned, loaded or overwritten, a domestic domain does not get a FakeIP address. `FakedOnEvidence`: no domain does before a
probe for it has failed or found nothing domestic, counting restarts. `ClassesAgree`: at rest, both stores hold the same class, unless an update
bypassed the channel, which is when they may differ.

`Learning` is AutoPilot's memory of one domain, for everyone (`global`) and for one subnet (`client`). Reports go through `channel` to the learner's `buffer`
and are applied one by one; who finds the channel full applies its own result (`applier`). `ApplyGlobal` and `Insert` are two steps, because the lock of
an entry that does not exist is dropped before one is inserted. What a reader is told is in `Recommendation`. `ConfidenceEarned`: an upstream is recommended for a domain, or a subnet, only after that many
results of its own for it.

`Health` is `record_probe`, one action for each access to an atomic; a recorder does the accesses of `record[r]`, in any order where the code orders nothing
between them. What a reader sees is in `Availability`. `NotShutOut`: an upstream that is marked unhealthy has a time from which its cooldown counts, or a recorder is about to write one; else it
would stay out until a probe succeeds by chance. What the module also shows, and nobody promises otherwise: once the cooldown has passed, further failures do not start
another one (`Pass` leaves it `past`; `Swap` notes a time only when it changes the flag).

## 8. Rate limiting

`RateLimit` is one client's entry. A query reads the clock, then locks the entry; the cleanup reads the clock, then visits the entries: both may come with a time that
has passed, by `Lag` at most in the model. `admitted` is history: how many had passed by the end of each instant, so that what passed in a stretch of time is a difference of two of its values. `LimitHolds`: within the length of a window, less that lag, at most two windows' worth of queries pass. Two handlers and a cleanup, windows of 3 instants in 8.

## 9. The server

`Server` has one listener; `mode` says which. In `standard` mode workers take packets from a bounded queue (`tasks`) and reply; in `batch` mode
(`run_udp_linux`) they return replies through a channel to the main loop, which sends them in batches; `Fire` is its timer, `Flush` a `sendmmsg` that may send only the first part
and forgets the rest. `Stop` is the shutdown: what the main loop owns goes with it, the workers go on. In the other modes the queries are those of one connection, in turn (TCP, DoT) or side by side (DoQ, DoH).
What a handler makes of a query is open, also a panic, which in a build that unwinds takes a worker away.

`NoReplyStranded`: there is a timer while there is a batch. `QueriesSettle`: whatever was queued or read ends, as sent, silent, dropped or lost, unless no
worker is left to take it: the main loop keeps a receiver of its own, so the queue stays open then, fills up, and only what finds it full is dropped. *Fairness.* Weak, for workers, the main loop's channel and timer, and answers: tasks are polled, handlers have timeouts. Reading is fair on DoT only,
where the code has a timeout. *Bounds.* Queues of one, batches of two, two workers, three queries: each queue fills, and a batch is full, partial and timed out.

## 10. The pipeline and its registry

`Pipeline` takes queries through the plugins of a program. `ctx` is the `Context` (a response in parsed or raw form, tags, hooks, abort), `frames` the sequences and fallbacks that have
been entered, `status` what the last plugin returned. A plugin is an operator from a context to those it may leave; what a server answers and how a client's address or rate is judged are choices.
`Execute`, `Skip`, `Continue` and `Leave` are `Sequence::handle`; `Branch`, `Settle` and `TimeOut` are a fallback's branches, on copies of the context, one after the
other (they share nothing; `Fallback` has how they race). `Finish` runs the hooks and sends. `Lists` says what a line of a rule file matches, which is not the same for a matcher, a geosite list and an adblock list.

`CachedIsSent`: what a cache writes back is what the client gets, whichever plugin answered and in whichever form, although `adblock` and `ipv6_filter` put their block into the
context and let the chain go on, so that a later step may answer over it. Whatever puts an address into the context, though, ends every sequence the query is in, so that `ttl`, `dns64`,
`ip_matcher` and a `geoip` of the response never find anything to work on, wherever they stand, and a `dnssec` step behind a forwarder never runs. That is not what the plugins are for: run `pipeline_ttl` shows it of a
`ttl` step behind a forwarder (`TtlApplied`, section 14), and the theorem `AnswersEndEveryChain` says that no other program does better (section 15). The two programs in `MCService` are the main and local sequences of
`config.example.yaml`, and one with the plugins that example leaves out, two caches and nested fallbacks. Three questions meet a block, an exception to it and a host; two queries, so that the second finds what the first left.

`Registry` is `create_runtime_registry`: shared plugins once, forwarders, then the fallbacks in one pass and the sequences in passes, in every order a hash map may have, and all of it anew at a `Reload` of another
configuration, except what is shared. A plugin that reads a file may fail to be made. `BuiltIsClosed`: nothing built calls what is missing, every sequence whose steps exist is
there, and a fallback is missing only when what it needs is missing or is built as late as itself; where a name is also that of a sequence or of a shared plugin of the first configuration, that is what the name stands for. Three configurations: a chain, a ring of sequences with a fallback on a fallback, and one whose fallbacks have the names of a sequence and of a shared plugin of the others.

## 11. The resolver and the kernel's cache

`Resolver` is `lookup`: the activations of the iterative lookup are a stack of frames, each with its key, the depth and the CNAME budget that are left, the servers of its level and the name
servers it still resolves. What a server sends is a choice among what the code tells apart. `LookupEnds`: every lookup ends, with name servers and CNAMEs that point at each
other. `AlwaysCloser` is why: each step looks up a name and type for the first time, or leaves a call, or brings the topmost call closer to its end (`Lower`). *Fairness.* Weak, for the whole lookup: each exchange has a timeout. *Bounds.* The budgets are the code's, in small (3, 2 and 2 for 15, 8 and 6), over two names; a referral has one name server.

`KernelCache` has the entries of both caches (`user`, `kernel`) as what they say of their age, the reverse map, the ring, the poller's deduplication, and the writes that
wait for the filter's mutex (`pending`): a sync after an answer, a refresh, the warm-up after the load. `Poll` takes one event more than it uses out of the ring. `OnResponse` writes nothing when the hash is known, so a newer answer does not reach the
kernel while the older one is there. `KernelAgeBounded`: even so, what the kernel answers with is never older than its TTL and the grace of 60 seconds, but for the time (`Lag`) its
write had to wait. Times are small and keep the order of the code's; six seconds see an entry loaded, warmed up, refreshed and expired.

## 12. Two runs for many components

`MCLearning` (run `learning`: `SmartForward`, `Learning`, `Health`, `RateLimit`) and `MCService` (run `service`: `Server`, `Transport`, `KernelCache`, `Registry`, `Resolver`, `Pipeline`) check
components that share no variable: `SmartForward` and `Pipeline` are extended, the others instantiated. A variable `part`, chosen by `Init`, says which one moves; the others stay at one of their initial states. Each component then takes exactly the
behaviours of its own specification, and the run's states are the sum and not the product of theirs. That is sound because no property relates two of them (`EachByItself` in either proof module: a behaviour of the whole is one of each component), and the fairness of a component is stated for its moves (`Serving`,
`ResolverMoves`). `PartsTypeOK` is the conjunction of the type invariants. Deadlock is not checked in either: queries, time, reports and loads run out, and a part that is done has nothing to do.
Both modules state what their constants must be, one named assumption for each component, and TLC evaluates them for the values of the run; the proofs use nothing else. The configurations of `Registry` and the programs of `Pipeline` are constants too: the runs take
the examples, the theorems hold for any that `ConfigsRead` and `ProgramsWired` describe.

How the modules rely on each other: `SmartForward` on `ConfidenceEarned` of `Learning`; `Pipeline` on `Fallback` for the race of a failover, on `RateLimit` for its refusals, on `DnsCache` for what a
cache keeps over time, and on `Registry` for programs whose names resolve (`ProgramsWired`, evaluated by TLC for the programs of the run); `Server` on the timeouts of `Forward`'s and `Resolver`'s exchanges, which are what makes its handlers return; `Forward` on `Transport` for
exchanges that end; `HotReload` and `Registry` are the two halves of a reload.

## 13. What is left to do

All planned modules are written, and each safety property that a passing run checks is a theorem. Of value next: what `AlwaysCloser` and `AlwaysOnward` say of lookups and forwarded queries for
the queries of `Server` and `Fallback`, as far as their liveness rests on it; `Server`'s fairness derived from `Forward`'s liveness instead of being assumed; a composition of `KernelCache` with `DnsCache`, which would relate a purge to the kernel's map, which
a purge does not touch. No module that has proofs declares RECURSIVE operators.

## 14. Where code and words part

| run | what the code does | what the words say |
|---|---|---|
| `cache_recursive_only` (`ServesStaleAsConfigured`) | with `recursive_mode` and no upstreams of its own, the cache has a stale window of 0 and drops the expired entry (`src/plugins/cache.rs:297`) | "If expired, still serve if within this seconds" (`src/config.rs:17`) |
| `fallback_panic` (`HandlerSurvives`) | in standby, `take()` on `Some(None)` enables the branch of a completed future: it is polled again and panics (`src/plugins/fallback.rs:189`) | "secondary runs immediately but only used on failure/timeout" (`fallback.rs:4`), "Both upstreams failed" (`fallback.rs:213`) |
| `fallback_servfail` (`FailsOver`) | a forward plugin turns its failure into a SERVFAIL response, and the failover stops at the primary (`src/plugins/forward.rs:2726`) | "Secondary starts after threshold or when primary fails" (`fallback.rs:3`) |
| `forward_hedge` (`FiresBackup`) | of two upstreams the smart strategy may choose one, and the query fails with it; the code that fires a backup is behind the `return` of the case of one upstream, and cannot be reached (`src/plugins/forward.rs:2134`) | "If no response in hedge_delay, fire backup request to 2nd best" (`forward.rs:1847`) |
| `pipeline_ttl` (`TtlApplied`) | what puts an answer into the context sets abort with it, and every sequence breaks off: the `ttl` step behind a forwarder is not run, and the answer leaves with the TTL it came with (`src/plugins/sequence.rs:40`); `dns64`, `ip_matcher` and `geoip` with `mode: response` fare the same | "修改 DNS 响应的 TTL 值", modifies the TTL of DNS responses (`src/plugins/ttl.rs:3`); "Converts IPv4 addresses to IPv6 using NAT64 prefix" (`src/plugins/dns64.rs:2`); "matches response IPs against them" (`src/plugins/ip_matcher.rs:2`); a `dnssec` step behind a forwarder (`config.example.yaml:504-506`) |
| `hot_reload_release` (`SurvivesReload`) | `blocking_send` in an asynchronous task panics, and the release profile aborts: the first change that is noticed ends the process (`src/main.rs:141`) | "Allows reloading configuration without restarting the service" (`src/config_watcher.rs:2`) |

## 15. What is proved

All theorems hold for every value of the constants that meets the named assumptions of the modules.

**DnsCache** (`DnsCacheProofs`). From `TtlAssumption` (settings and TTLs are natural numbers, that of a shadow refresh without answers too), `SwitchAssumption`
(switches are Booleans) and `NoneAssumption` (`None` is no entry, response, query or task). The inductive invariant is

    IInv == TypeOK /\ HistoryInOrder /\ EntriesGenuine /\ PurgeIsFinal /\ LatecomersKnown

`EntriesGenuine` must speak of the file, of the loader and of entries that are built as well as of the map, because a restart moves the file into the loader's hands
and the loader and the inserts move entries into the map. `PurgeIsFinal` needs `LatecomersKnown` (a built entry that is older than the purge is one of `underway`, so that its insert is allowed)
and `HistoryInOrder` (a purge lies in the past, and is
only remembered by a process that has nothing left to load: otherwise the loader would bring older entries back).
The steps are sorted by what they do to entries, one lemma for each sort: those that touch none, those that drop some, those that
build one (`BuildStep`), those that insert one (`InsertStep`; both shared by the hook and the tasks), and those that move entries between map, file and loader. From
the invariant follow `TypeCorrect`, `EntriesAreGenuine`, `PurgeStaysFinal` and
`CacheKeepsContract`: `Spec => Contract!Spec` under the mapping `asking <- Asking`, `KeepFor <- KeepFor`. A hit maps to
`AnswerKept`, whose guard on the age is where `EntriesGenuine` is used; the building of an entry maps to `Learn`, the end of a hook to `AnswerFetched`, a restart to `Stop`, and what only the server sees to a stutter. That
`calculate_ttl` finds a smallest TTL in a set that may be infinite is a lemma by well-foundedness of the naturals.

**Fallback** (`FallbackProofs`). `IInv` adds to the properties what the code's position tells about the runs (`Progress`) and
what the standby loop remembers (`Remembered`): that a forgotten failure is the only way to a completed
future behind an enabled branch is what makes `PanicsOnlyInStandby` inductive. `ErrorsAreTrue`, `SecondaryComesSecond` and `SecondaryIsOnDemand` are its other
consequences. No assumption is needed.

**Forward** (`ForwardProofs`). From `QueriesAssumption` (finitely many queries) and `SizesAssumption`: for any number of queries,
upstreams and permits, `TypeCorrect`, `PermitsAreConserved`, `BestIsReturned`, `FailuresAreTrue`, `BlameIsJust`, `OnlyDroppedStray`. The
inductive invariant adds `Progress` to the properties: what a handler has asked and heard follows from where it is (in order, exactly the upstreams
behind the current one are unasked; in a race, nothing heard is better than `best`). Its parts other than `PermitsConserved` speak of one
query each, so the proof takes them together as `Local(q)`: a step changes one query, and another one only by
granting it a permit (`StepOf`, `Untouched`). `PermitsConserved` counts the holders with the library's theorems about cardinality.

`QueriesGoOn` says why `QueriesEnd` holds: every step satisfies `AlwaysOnward`, that is, takes a query to a later stage, or begins or ends an exchange, or takes an outcome, each of them for the first time (`Onto`, `NeverBack`, `GoesOn`). Which exchange a step may begin is what `Progress` says of the stage
it leaves, so the theorem rests on the same invariant. What is left of `QueriesEnd` is that a finite number of such steps end (there are finitely many queries, stages and exchanges) and that one is possible until the end (ENABLED).

**HotReload** (`HotReloadProofs`). From `CapacityAssumption`, `ProfileAssumption` and `ContentsAssumption`: `TypeCorrect` and
`WorkersMissNothing`, for any number of workers and any capacity. `NoUpdateLost` is inductive together with the types,
because the newest message is the one a full channel never gives up (`DeliverLast`, `TailLast`).

**Transport** (`TransportProofs`). From `ConduitsDiffer` (ports, connections and the tunnel are distinct), which `MCService` states as an assumption of its instance. The invariant says of a connection that is
not shared that at most one query uses it, that the pool holds none in use and none twice, and that what can be read there answers a query that waits there (`Private`, `Pooled`); of the
tunnel that one query at a time is between send and receive, so that any other reply is to one that has ended (`Tunnelled`). `RepliesAreTheQuerys` follows.

`TransportIsTyped`, with `PoolSize` and `MaxRetries` natural numbers, rests on it too: a pool holds nothing twice, so it takes no more than its size, and the one of DoQ no more than one.

**SmartForward** (`LearningPartsProofs`). From `CapacityAssumption` and `ConfidenceAssumption`. `FakedOnEvidence` needs that before any evidence nothing says *foreign*, in any place a class can be: channel,
writers, both stores, file, reports (`NothingForeign`). `ClassesAgree` needs the order of the two writes: a store that is ahead is ahead by the learner's update (`InTurn`). `TypeCorrect`, `DomesticStaysLocal`, `FakedForAReason`, `StoresAgree`.

**RateLimit** (`LearningPartsProofs`). From `LimiterAssumption`, for any limit, window, lag and number of handlers. `LimitHolds` speaks of any stretch of time, the code of one window: the invariant (`Windows`) splits what was let through since `t` at the start of the window there is.
Since then it is what this window has counted (`Spent`), and before it at most one more window's worth, because a window is only replaced when it has ended; where the cleanup has removed the entry, nothing has been let through for
a whole window but what one window allows. That readings of the clock are late by `Lag` at most (`Recent`) is why `Lag` is taken off the window. The cleanup's step needs it in full: an entry is old at two windows, so one that is removed has ended (`LimitIsKept`).

**Learning and Health** (`AutoPilotProofs`). From finitely many callers and `Needed \in Nat` (`DOMAIN_MEMORY_CONFIDENCE`, as `Confidence` is in `SmartForward`). `ConfidenceIsEarned` counts: results of an upstream reported for a key are in the channel, in the batch, in the hands of an
applier, in the memory, or lost, and never in two places, so that the successes in memory and those still pending never exceed those reported; the same of the file, for the restart
(`Paid`). Appending, taking the head and an applier's change of state are one lemma each about cardinalities. `NobodyIsShutOut` is inductive with the types.

**Pipeline** (`ServicePartsProofs`). From `ProgramsWired`, for any programs and questions. A context has one form of response at most, and an address in it means abort (`ContextSound`); abort means that the sequence on top has broken off, unless a
plugin has just returned (`BrokenOff`); the copies a fallback keeps are sound as well (`FramesSound`). `CachesKeepWhatIsSent` and `AnswersEndEveryChain` follow.

**Server** (`ServicePartsProofs`). From `ServerAssumption`, for any number of queries and workers. `NoReplyStranded` is inductive with the types: each way into an empty batch arms the timer, and only what empties the batch disarms it (`BatchesHaveTimers`).

**KernelCache** (`ServicePartsProofs`). From `KernelAssumption` and `NoneIsNoWarmUp`, for any TTLs, grace and lag. An entry comes into the kernel by a write that waited; what the write holds is fixed when it begins. The invariant bounds it there: a sync and a refresh hand over the
whole TTL at the time of the fetch, the warm-up what was left when it began (`Waiting`, `WarmsUp`), so that an entry expires no later than its TTL, the grace and the lag after the fetch (`Kept`). `KernelAgeIsBounded` follows.

**Registry** (`ServicePartsProofs`). From `ConfigsRead` (the keys of a map differ, and there are finitely many) and `RegistryAssumption`, for any configurations, orders and failures. The invariant says what is known of a name that was tried: a fallback is built or lacked something, which if it is there by now is a fallback or a
sequence itself (`FallbacksTried`); a sequence that waits lacks something still, unless this pass has built one (`SequencesTried`). `progress` is FALSE where the passes end, however they end, and `WhatIsBuiltIsClosed` follows. That the passes leave nobody out is a lemma about orders of a finite set (`OrderHasAll`).

**Resolver** (`ServicePartsProofs`). From `ResolverAssumption`. That no two calls under way are for the same name and type is part of its types and inductive with a nonempty stack. `LookupsComeCloser`: every step satisfies `AlwaysCloser`, for any names and budgets. Of `LookupEnds` this leaves what the provers
do not reach: that the order has no infinite descent (there are finitely many names), and that some step is possible until the end (ENABLED).

**The two wholes.** `EachByItself` projects a behaviour of `AllSpec` to each component, the theorems proved of modules by themselves (`TransportProofs`, `AutoPilotProofs`) are brought to the instances (`SameInit`, `SameStep`, `SameLearning`, `SameHealth`), and `ServicePartsAreTyped`, `ServicePartsAreSafe`,
`PartsAreTyped` and `LearningPartsAreSafe` state what the runs `service` and `learning` check of safety. The last assumes finitely many callers.

Three things in the models were restated for these proofs. `RateLimit` keeps what was let through as a running total, because what a sum over a sliding window is cannot be shown by induction here; `Resolver` writes the lookups for name servers as one sequence (`Lookups`) and not as a fold, for the same reason; and `BuiltIsClosed` excepts
names that a fallback shares with a sequence or with a shared plugin of an earlier configuration: no step of the code keeps them apart, so without that it does not hold of every configuration. The third example configuration has both.

Only model-checked: liveness (`QueriesEnd` of both modules, `RefreshesEnd`, `QueryEnds`, `ReloadSettles`, `FileIsServed`, `QueriesSettle`, `LookupEnds`), which rests on fairness and on ENABLED and is out of the prover's reach. There the
bounds of the runs are the bounds of what is known. What the code was found not to do (section 14) is shown by counterexamples of TLC.

## 16. What is not modelled, and why

In the cache: `dump_to_file`, `load_from_file` and `trigger_shadow_refresh` (nothing calls them); the statistics; the bytes of a
record (a record is read whole or, when the file ends in it, not at all); a clock that is set back, beyond the saturating subtraction
that `Elapsed` keeps; that the refresh through the loader's `spawn_blocking` may itself be killed by shutdown (a
`Restart` covers it). In the failover: the contents of the cloned contexts (`Pipeline` has them). In forwarding: the scores, warm-up, prefetch and ECS, which change no state
of a query, the bootstrap of an upstream's address, `execute_race` and `on_response`, which nothing calls. In an exchange: the bytes, TLS, and the idle time
after which a connection is let go (any time, in the model). In AutoPilot: latencies, scores, the network condition and the schedule of probes, floating-point
heuristics that order candidates; wherever they decide, the models choose. `src/core/health.rs` and `src/health.rs`: nothing in
production asks them. In split routing: the second level of the class cache, which is asked for names with a final dot and filled with names
without one. In the server: how many packets one `recvmmsg` brings, buffers, TLS. In the resolver: packets, and the ranking of addresses. In the kernel: parsing,
checksums, the attach modes, and two CPUs that raise the same event at once (the poller drops the second within its window). In hot reload: signals (they end the
behaviour). The parts that section 1 leaves aside for good are left for the reasons given there.
