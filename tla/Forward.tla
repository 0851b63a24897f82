------------------------------ MODULE Forward ------------------------------
(***************************************************************************)
(* ForwardPlugin::handle (src/plugins/forward.rs) for several queries: the *)
(* semaphore of `concurrent' permits, and the strategies that decide which *)
(* upstreams are asked, one after the other ("inline", awaited by the      *)
(* handler itself) or at once (a race of spawned tasks).                   *)
(*                                                                         *)
(* An exchange with an upstream is a slot of its query: slot u for         *)
(* upstream u of the configuration, slot Memory for the one the domain     *)
(* memory of AutoPilot names.  What the heuristics of AutoPilot prefer is  *)
(* a choice.  Whoever awaits a handler (FallbackPlugin, a DoH connection)  *)
(* may drop it at any time: the exchange it awaits goes with it, the tasks *)
(* of a race do not.                                                       *)
(***************************************************************************)
EXTENDS Naturals, FiniteSets

CONSTANTS
    Queries,
    Count,      \* the number of upstreams
    RaceWidth,  \* how many of them strategy "race" asks, 5 in the code
    Permits     \* `concurrent'

ASSUME QueriesAssumption == IsFiniteSet(Queries)
ASSUME SizesAssumption == Count \in Nat /\ RaceWidth \in Nat /\ Permits \in Nat \ {0}

Upstreams == 1 .. Count
Memory == 0
Slots == Upstreams \cup {Memory}

\* An address; NOERROR or NXDOMAIN without one; any other response code.
Responses == {"address", "definitive", "other"}
Failures == {"error", "timeout"}
Outcomes == Responses \cup Failures

Strategies == {"order", "race", "smart"}

\* Where the handler awaits a single exchange.
Inline == {"order", "memory", "single"}
Holding == {"granted", "race"} \cup Inline
Ended == {"answered", "failed", "refused", "dropped"}

VARIABLES
    strategy,   \* of the plugin
    free,       \* permits of concurrent_limit that nobody holds
    stage,      \* [Queries -> where its handler is]
    at,         \* [Queries -> Slots]: the exchange an inline stage awaits
    ex,         \* [Queries -> [Slots -> the state of the exchange]]
    seen,       \* [Queries -> the slots whose outcome its handler has taken]
    best,       \* [Queries -> the best response taken so far]; Memory if none
    backup,     \* [Queries -> whether execute_smart had a second best]
    blamed      \* [Queries -> [Slots -> how often record_failure was called]]

vars == <<strategy, free, stage, at, ex, seen, best, backup, blamed>>

\* Type invariant: outcomes are taken of exchanges that have ended.
TypeOK ==
    /\ strategy \in Strategies
    /\ free \in 0 .. Permits
    /\ stage \in [Queries -> {"new", "waiting"} \cup Holding \cup Ended]
    /\ at \in [Queries -> Slots]
    /\ ex \in [Queries -> [Slots -> {"none", "running", "aborted"} \cup Outcomes]]
    /\ seen \in [Queries -> SUBSET Slots]
    /\ \A q \in Queries : \A s \in seen[q] : ex[q][s] \in Outcomes
    /\ best \in [Queries -> Slots]
    /\ backup \in [Queries -> BOOLEAN]
    /\ blamed \in [Queries -> [Slots -> Nat]]

Init ==
    /\ strategy \in Strategies
    /\ free = Permits
    /\ stage = [q \in Queries |-> "new"]
    /\ at = [q \in Queries |-> Memory]
    /\ ex = [q \in Queries |-> [s \in Slots |-> "none"]]
    /\ seen = [q \in Queries |-> {}]
    /\ best = [q \in Queries |-> Memory]
    /\ backup = [q \in Queries |-> FALSE]
    /\ blamed = [q \in Queries |-> [s \in Slots |-> 0]]

-----------------------------------------------------------------------------
(* The permits.                                                            *)

Waiting == {q \in Queries : stage[q] = "waiting"}
Holders == {q \in Queries : stage[q] \in Holding}

\* A client that AutoPilot has banned is refused (so is a request with no question,
\* by an error); the others ask for a permit.
Ask(q) ==
    /\ stage[q] = "new"
    /\ \/ stage' = [stage EXCEPT ![q] = "refused"] /\ UNCHANGED free
       \/ /\ free > 0
          /\ free' = free - 1
          /\ stage' = [stage EXCEPT ![q] = "granted"]
       \/ free = 0 /\ stage' = [stage EXCEPT ![q] = "waiting"] /\ UNCHANGED free
    /\ UNCHANGED <<strategy, at, ex, seen, best, backup, blamed>>

\* Mutant of Leave: the permit is counted free and handed over, both.
LeaveTwice(q, end) ==
    /\ free' = free + 1
    /\ \/ Waiting = {} /\ stage' = [stage EXCEPT ![q] = end]
       \/ \E p \in Waiting : stage' = [stage EXCEPT ![q] = end, ![p] = "granted"]

\* The handler ends and its permit goes to a waiting query, if there is one.
Leave(q, end) ==
    \/ /\ Waiting = {}
       /\ free' = free + 1
       /\ stage' = [stage EXCEPT ![q] = end]
    \/ \E p \in Waiting :
          /\ stage' = [stage EXCEPT ![q] = end, ![p] = "granted"]
          /\ UNCHANGED free

GoOn(q, where) == stage' = [stage EXCEPT ![q] = where] /\ UNCHANGED free

-----------------------------------------------------------------------------
(* Which upstreams are asked.  Below, e is ex[q] as the step finds it.     *)

Started(e, S) == [s \in Slots |-> IF s \in S THEN "running" ELSE e[s]]
Starts(q, S, e) == ex' = [ex EXCEPT ![q] = Started(e, S)]

\* The next exchange of strategy "order" after slot s.
OrderOn(q, s, e) ==
    \/ /\ s < Count
       /\ GoOn(q, "order")
       /\ at' = [at EXCEPT ![q] = s + 1]
       /\ Starts(q, {s + 1}, e)
    \/ /\ s = Count
       /\ Leave(q, "failed")
       /\ ex' = [ex EXCEPT ![q] = e]
       /\ UNCHANGED at

\* The tasks of a race are spawned.
RaceAll(q, S, e) ==
    /\ GoOn(q, "race")
    /\ Starts(q, S, e)
    /\ UNCHANGED at

\* The rest of execute_smart: the ranking, what is filtered out of it, and how many
\* of the others are asked, at least one.
Choose(q, e) ==
    \E able \in SUBSET Upstreams : \E picked \in SUBSET able :
        /\ backup' = [backup EXCEPT ![q] = \E u, v \in able : u # v]
        /\ picked = {} => able = {}
        /\ \/ /\ picked = {}
              /\ Leave(q, "failed")
              /\ ex' = [ex EXCEPT ![q] = e]
              /\ UNCHANGED at
           \/ \E u \in picked :
                 /\ picked = {u}
                 /\ GoOn(q, "single")
                 /\ at' = [at EXCEPT ![q] = u]
                 /\ Starts(q, {u}, e)
           \/ /\ \E u, v \in picked : u # v
              /\ RaceAll(q, picked, e)

BeginOrder(q) ==
    /\ strategy = "order"
    /\ OrderOn(q, 0, ex[q])
    /\ UNCHANGED backup

\* DoH upstreams behind the proxy are left out while the proxy is down.
BeginRace(q) ==
    /\ strategy = "race"
    /\ \E S \in SUBSET {u \in Upstreams : u <= RaceWidth} : RaceAll(q, S, ex[q])
    /\ UNCHANGED backup

\* A domain that looks generated is refused; a remembered upstream is tried first.
BeginSmart(q) ==
    /\ strategy = "smart"
    /\ \/ Leave(q, "failed") /\ UNCHANGED <<at, ex, backup>>
       \/ /\ Count > 0
          /\ GoOn(q, "memory")
          /\ at' = [at EXCEPT ![q] = Memory]
          /\ Starts(q, {Memory}, ex[q])
          /\ UNCHANGED backup
       \/ Choose(q, ex[q])

Begin(q) ==
    /\ stage[q] = "granted"
    /\ BeginOrder(q) \/ BeginRace(q) \/ BeginSmart(q)
    /\ UNCHANGED <<strategy, seen, best, blamed>>

-----------------------------------------------------------------------------
(* How exchanges end.                                                      *)

Blame(q, s) == blamed' = [blamed EXCEPT ![q][s] = @ + 1]

\* Mutant of AfterFailure: one failed upstream is enough.
AfterFirstFailure(q, e) ==
    /\ Leave(q, "failed")
    /\ ex' = [ex EXCEPT ![q] = e]
    /\ UNCHANGED <<at, backup>>

\* What the handler does when the exchange it awaited has failed.
AfterFailure(q, e) ==
    \/ stage[q] = "order" /\ OrderOn(q, at[q], e) /\ UNCHANGED backup
    \/ stage[q] = "memory" /\ Choose(q, e)
    \/ /\ stage[q] = "single"
       /\ Leave(q, "failed")
       /\ ex' = [ex EXCEPT ![q] = e]
       /\ UNCHANGED <<at, backup>>

\* An exchange that is awaited inline: any response is returned.
InlineEnds(q) ==
    /\ stage[q] \in Inline
    /\ seen' = [seen EXCEPT ![q] = @ \cup {at[q]}]
    /\ \/ \E response \in Responses :
             /\ ex' = [ex EXCEPT ![q][at[q]] = response]
             /\ best' = [best EXCEPT ![q] = at[q]]
             /\ Leave(q, "answered")
             /\ UNCHANGED <<at, backup, blamed>>
       \/ \E failure \in Failures :
             /\ AfterFailure(q, [ex[q] EXCEPT ![at[q]] = failure])
             /\ Blame(q, at[q])
             /\ UNCHANGED best
    /\ UNCHANGED strategy

\* Is the exchange a task of its own?
Spawned(q, s) == ex[q][s] = "running" /\ ~(stage[q] \in Inline /\ s = at[q])

\* A task ends.  exchange_bytes itself records an error; a timeout is around it.
TaskEnds(q, s) ==
    /\ Spawned(q, s)
    /\ \E outcome \in Outcomes :
          /\ ex' = [ex EXCEPT ![q][s] = outcome]
          /\ IF outcome = "error" THEN Blame(q, s) ELSE UNCHANGED blamed
    /\ UNCHANGED <<strategy, free, stage, at, seen, best, backup>>

-----------------------------------------------------------------------------
(* The loop of a race.                                                     *)

\* Mutant of Stopped: the losers are left alone.
Unstopped(e) == e

\* abort_all.  A task that comes to its end meanwhile is one that came to it before.
Stopped(e) == [s \in Slots |-> IF e[s] = "running" THEN "aborted" ELSE e[s]]

\* Mutant of Better: the first response is good enough.
FirstTaken(q, response) == seen[q] \cap Upstreams = {}

\* best_definitive is kept before best_other, and the first of each.
Better(q, response) ==
    \/ best[q] = Memory
    \/ response = "definitive" /\ ex[q][best[q]] = "other"

\* Mutant of RecordPolled: the handler records an error as well as the task.
RecordPolledFailure(q, s) ==
    IF ex[q][s] \in Failures THEN Blame(q, s) ELSE UNCHANGED blamed

\* The handler records a timeout when it takes it.
RecordPolled(q, s) == IF ex[q][s] = "timeout" THEN Blame(q, s) ELSE UNCHANGED blamed

\* futures.next() has an outcome: an address wins the race.
Poll(q, s) ==
    /\ stage[q] = "race"
    /\ ex[q][s] \in Outcomes
    /\ s \in Upstreams \ seen[q]
    /\ seen' = [seen EXCEPT ![q] = @ \cup {s}]
    /\ RecordPolled(q, s)
    /\ \/ /\ ex[q][s] = "address"
          /\ best' = [best EXCEPT ![q] = s]
          /\ ex' = [ex EXCEPT ![q] = Stopped(ex[q])]
          /\ Leave(q, "answered")
       \/ /\ ex[q][s] \in Responses \ {"address"} /\ Better(q, ex[q][s])
          /\ best' = [best EXCEPT ![q] = s]
          /\ UNCHANGED <<free, stage, ex>>
       \/ /\ ex[q][s] \in Failures \/ (ex[q][s] # "address" /\ ~Better(q, ex[q][s]))
          /\ UNCHANGED <<free, stage, ex, best>>
    /\ UNCHANGED <<strategy, at, backup>>

\* Mutant of RaceOver: the loop waits for a response.
RaceWon(q) ==
    /\ stage[q] = "race"
    /\ \A s \in Upstreams : ex[q][s] = "none" \/ s \in seen[q]
    /\ best[q] # Memory
    /\ Leave(q, "answered")
    /\ UNCHANGED <<strategy, at, ex, seen, best, backup, blamed>>

\* Every task of the race has been heard.
RaceOver(q) ==
    /\ stage[q] = "race"
    /\ \A s \in Upstreams : ex[q][s] = "none" \/ s \in seen[q]
    /\ Leave(q, IF best[q] = Memory THEN "failed" ELSE "answered")
    /\ UNCHANGED <<strategy, at, ex, seen, best, backup, blamed>>

-----------------------------------------------------------------------------

\* The exchange that a dropped handler awaited is dropped with it.
Dropped(q) ==
    [s \in Slots |-> IF stage[q] \in Inline /\ s = at[q] THEN "aborted" ELSE ex[q][s]]

\* Mutant of Drop: the permit of a query that was just granted one is lost.
DropKeepsPermit(q) ==
    /\ \/ /\ stage[q] \in {"waiting", "granted"}
          /\ stage' = [stage EXCEPT ![q] = "dropped"]
          /\ UNCHANGED free
       \/ stage[q] \in Holding \ {"granted"} /\ Leave(q, "dropped")
    /\ ex' = [ex EXCEPT ![q] = Dropped(q)]
    /\ best' = [best EXCEPT ![q] = Memory]
    /\ at' = [at EXCEPT ![q] = Memory]
    /\ UNCHANGED <<strategy, seen, backup, blamed>>

\* The future of the handler is dropped: its permit, or its place among the waiting,
\* is given up; the tasks it has spawned go on.
Drop(q) ==
    /\ \/ /\ stage[q] = "waiting"
          /\ stage' = [stage EXCEPT ![q] = "dropped"]
          /\ UNCHANGED free
       \/ stage[q] \in Holding /\ Leave(q, "dropped")
    /\ ex' = [ex EXCEPT ![q] = Dropped(q)]
    /\ best' = [best EXCEPT ![q] = Memory]
    /\ at' = [at EXCEPT ![q] = Memory]
    /\ UNCHANGED <<strategy, seen, backup, blamed>>

Next ==
    \E q \in Queries :
        \/ Ask(q)
        \/ Begin(q)
        \/ InlineEnds(q)
        \/ RaceOver(q)
        \/ Drop(q)
        \/ \E s \in Slots : TaskEnds(q, s) \/ Poll(q, s)

\* A ready task is polled, and every exchange runs under a timeout.
Fairness ==
    \A q \in Queries :
        /\ WF_vars(Begin(q))
        /\ WF_vars(InlineEnds(q))
        /\ WF_vars(RaceOver(q))
        /\ \A s \in Slots : WF_vars(TaskEnds(q, s)) /\ WF_vars(Poll(q, s))

Spec == Init /\ [][Next]_vars
FairSpec == Spec /\ Fairness

-----------------------------------------------------------------------------
(* Safety.                                                                 *)

\* No permit is lost or made up, however handlers end or are dropped, and none is
\* free while a query waits for one.
PermitsConserved ==
    /\ free + Cardinality(Holders) = Permits
    /\ free > 0 => Waiting = {}

\* "address" before "definitive" before "other" before a failure.
AsGood(response, outcome) ==
    \/ response = "address"
    \/ response = "definitive" /\ outcome # "address"
    \/ response = "other" /\ outcome \notin {"address", "definitive"}

\* Nothing better than the best response came or may still come.
IsBest(q) ==
    /\ ex[q][best[q]] \in Responses
    /\ ex[q][best[q]] # "address" =>
          \A s \in Slots : \/ ex[q][s] = "none"
                           \/ ex[q][s] \in Outcomes /\ AsGood(ex[q][best[q]], ex[q][s])

\* The answer is a response to this query, and one without an address is only
\* given when nothing better came or may still come from the upstreams asked.
BestWins == \A q \in Queries : stage[q] = "answered" => IsBest(q)

AllFailed(q) ==
    /\ \A s \in Slots : ex[q][s] \in Failures \cup {"none"}
    /\ strategy = "order" => \A u \in Upstreams : ex[q][u] # "none"

\* SERVFAIL is made up only when every exchange that was begun has failed; in order,
\* that is every upstream of the configuration.
FailsOnlyAtLast == \A q \in Queries : stage[q] = "failed" => AllFailed(q)

\* AutoPilot hears of each failed exchange once, and of no other; of a timeout, only
\* when there is still a handler that takes it.
BlameIsTrue ==
    \A q \in Queries, s \in Slots :
        blamed[q][s] =
            IF ex[q][s] = "error" \/ (ex[q][s] = "timeout" /\ s \in seen[q]) THEN 1 ELSE 0

\* Upstreams are asked without a permit only for queries that were dropped.
StraysAreDropped ==
    \A q \in Queries, s \in Slots :
        ex[q][s] = "running" => stage[q] \in Holding \cup {"dropped"}

\* Where a handler is tells what it has asked and heard.
Fresh(q) == best[q] = Memory /\ \A s \in Slots : ex[q][s] = "none"

Later(s) == {u \in Upstreams : u > s}

AwaitsOne(q) ==
    /\ best[q] = Memory
    /\ ex[q][at[q]] = "running"
    /\ \A s \in Slots \ {at[q]} : ex[q][s] \in Failures \cup {"none"}
    /\ stage[q] = "memory" => \A u \in Upstreams : u # at[q] /\ ex[q][u] = "none"
    /\ stage[q] = "order" => {u \in Upstreams : ex[q][u] = "none"} = Later(at[q])

AwaitsRace(q) ==
    /\ \A s \in Slots : ex[q][s] # "aborted"
    /\ ex[q][Memory] \in Failures \cup {"none"}
    /\ best[q] # Memory => best[q] \in seen[q] /\ ex[q][best[q]] \in {"definitive", "other"}
    /\ \A u \in seen[q] :
          \/ ex[q][u] \in Failures
          \/ best[q] # Memory /\ AsGood(ex[q][best[q]], ex[q][u])

Progress ==
    \A q \in Queries :
        /\ strategy = "order" => stage[q] \notin {"memory", "single", "race"}
        /\ stage[q] \in {"new", "waiting", "granted", "refused"} => Fresh(q)
        /\ stage[q] \in Inline => AwaitsOne(q)
        /\ stage[q] = "race" => AwaitsRace(q)

\* The inductive invariant.
IInv ==
    /\ TypeOK
    /\ PermitsConserved
    /\ Progress
    /\ BestWins
    /\ FailsOnlyAtLast
    /\ BlameIsTrue
    /\ StraysAreDropped

-----------------------------------------------------------------------------
(* Every step goes on.                                                     *)

\* A handler may be at stage b after it was at stage a.
Onto(a, b) ==
    \/ a = "new"
    \/ a = "waiting" /\ b # "new"
    \/ a = "granted" /\ b \notin {"new", "waiting"}
    \/ a = "memory" /\ b \in {"memory", "single", "race"} \cup Ended
    \/ a \in {"order", "single", "race"} /\ b \in {a} \cup Ended
    \/ a \in Ended /\ b = a

\* No stage comes back, no exchange is begun again or ends otherwise than it has
\* ended, and no outcome is forgotten.
NeverBack(q) ==
    /\ Onto(stage[q], stage'[q])
    /\ seen[q] \subseteq seen'[q]
    /\ \A s \in Slots :
          \/ ex'[q][s] = ex[q][s]
          \/ ex[q][s] = "none" /\ ex'[q][s] = "running"
          \/ ex[q][s] = "running" /\ ex'[q][s] \in Outcomes \cup {"aborted"}

GoesOn(q) == <<stage[q], ex[q], seen[q]>>' # <<stage[q], ex[q], seen[q]>>

\* What QueriesEnd rests on: a step takes some query further and none back, so there
\* is no retry without end, and nothing is asked or heard twice.
Onward == (\A q \in Queries : NeverBack(q)) /\ (\E q \in Queries : GoesOn(q))
AlwaysOnward == [][Onward]_vars

-----------------------------------------------------------------------------
(* What the comments say and the code does not do.                         *)

\* "If no response in hedge_delay, fire backup request to 2nd best": while there is
\* a second best, a query does not fail for want of one upstream.
FiresBackup ==
    \A q \in Queries :
        stage[q] = "failed" /\ backup[q] =>
            \E u, v \in Upstreams : u # v /\ ex[q][u] # "none" /\ ex[q][v] # "none"

-----------------------------------------------------------------------------
(* Liveness.                                                               *)

\* Every query that asks is answered, fails, is refused or is dropped.
QueriesEnd == \A q \in Queries : stage[q] # "new" ~> stage[q] \in Ended
=============================================================================
