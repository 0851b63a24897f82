------------------------------ MODULE Learning ------------------------------
(***************************************************************************)
(* AutoPilot's memory of a domain (src/autopilot.rs): which upstream       *)
(* answers it fastest, for all clients and for those of one subnet.        *)
(* Results come through a channel to the learner, which applies them in    *)
(* batches; whoever finds the channel full applies its own at once.  The   *)
(* memories are saved to a file and loaded from it.                        *)
(*                                                                         *)
(* A latency is only compared and an age only found expired or not: both   *)
(* are choices.  Results above the latency limit are not reported at all.  *)
(***************************************************************************)
EXTENDS Naturals, Sequences, Recommendation

CONSTANTS
    Callers,     \* threads that report results
    Capacity,    \* of the learning channel, 4096 in the code
    Batch,       \* of the learner's buffer, 1024 in the code
    MaxReports   \* bounds the results of one upstream that are reported

VARIABLES
    channel,   \* LEARNING_TX
    buffer, draining,  \* the learner's batch
    applier,   \* [Appliers -> the update it applies]
    file       \* the snapshot; one that is broken off reads as NoMemory

queueVars == <<channel, buffer, draining>>
learningVars == <<memory, queueVars, applier, file, reported>>

Learner == "learner"
Appliers == Callers \cup {Learner}

\* DomainMemory: success_count is 0 where there is none, and counted to Needed.
Nothing == [best |-> "none", count |-> 0]
Memories == [best : Upstreams, count : 1 .. Needed] \cup {Nothing}
NoMemory == [k \in Keys |-> Nothing]

\* LearningUpdate; a Client update goes on to the global memory.
Updates == [key : Keys, upstream : Upstreams]
Idle == [at |-> "idle", upstream |-> "none"]

\* Type invariant.
LearningTypeOK ==
    /\ memory \in [Keys -> Memories]
    /\ channel \in Seq(Updates) /\ Len(channel) <= Capacity
    /\ buffer \in Seq(Updates) /\ Len(buffer) <= Batch
    /\ draining \in BOOLEAN
    /\ applier \in [Appliers ->
          [at : Keys \cup {"insert"}, upstream : Upstreams] \cup {Idle}]
    /\ file \in [Keys -> Memories]
    /\ reported \in [Keys -> [Upstreams -> 0 .. MaxReports]]

Init ==
    /\ memory = NoMemory
    /\ channel = <<>> /\ buffer = <<>> /\ draining = FALSE
    /\ applier = [a \in Appliers |-> Idle]
    /\ file = NoMemory
    /\ reported = [k \in Keys |-> [u \in Upstreams |-> 0]]

-----------------------------------------------------------------------------
(* Reporting.                                                              *)

Counted(n) == IF n < Needed THEN n + 1 ELSE n

\* record_domain_result and record_domain_result_for_client.
Report(c, key, u) ==
    /\ applier[c] = Idle
    /\ reported["global"][u] < MaxReports
    /\ reported' = [k \in Keys |->
          IF k = key \/ k = "global" THEN [reported[k] EXCEPT ![u] = @ + 1]
          ELSE reported[k]]
    /\ \/ /\ Len(channel) < Capacity
          /\ channel' = Append(channel, [key |-> key, upstream |-> u])
          /\ UNCHANGED applier
       \/ /\ Len(channel) = Capacity
          /\ applier' = [applier EXCEPT ![c] = [at |-> key, upstream |-> u]]
          /\ UNCHANGED channel
    /\ UNCHANGED <<memory, buffer, draining, file>>

-----------------------------------------------------------------------------
(* The learner's loop.                                                     *)

\* Mutant of Receive: the batch is drained one update late.
ReceiveLate ==
    /\ ~draining /\ channel # <<>>
    /\ buffer' = Append(buffer, Head(channel))
    /\ channel' = Tail(channel)
    /\ draining' = (Len(buffer') > Batch)
    /\ UNCHANGED <<memory, applier, file, reported>>

Receive ==
    /\ ~draining /\ channel # <<>>
    /\ buffer' = Append(buffer, Head(channel))
    /\ channel' = Tail(channel)
    /\ draining' = (Len(buffer') >= Batch)
    /\ UNCHANGED <<memory, applier, file, reported>>

Tick ==
    /\ ~draining /\ buffer # <<>>
    /\ draining' = TRUE
    /\ UNCHANGED <<memory, channel, buffer, applier, file, reported>>

\* apply_learning_batch takes the next update.
Drain ==
    /\ draining /\ applier[Learner] = Idle
    /\ applier' = [applier EXCEPT
          ![Learner] = [at |-> Head(buffer).key, upstream |-> Head(buffer).upstream]]
    /\ buffer' = Tail(buffer)
    /\ draining' = (buffer' # <<>>)
    /\ UNCHANGED <<memory, channel, file, reported>>

-----------------------------------------------------------------------------
(* Applying an update.                                                     *)

First(u) == [best |-> u, count |-> 1]

\* Mutant of Update: an upstream that replaces another inherits its successes.
UpdateInherited(m, u, faster) ==
    IF m.best = u THEN [m EXCEPT !.count = Counted(@)]
    ELSE IF faster THEN [m EXCEPT !.best = u] ELSE m

\* DomainMemory::update: another upstream replaces the best one if it was faster.
Update(m, u, faster) ==
    IF m.best = u THEN [m EXCEPT !.count = Counted(@)]
    ELSE IF faster THEN First(u) ELSE m

\* apply_client_result_clean, under the lock of the entry.
ApplyClient(a) ==
    /\ applier[a].at = "client"
    /\ \E faster \in BOOLEAN :
          memory' = [memory EXCEPT !["client"] =
             IF @ = Nothing THEN First(applier[a].upstream)
             ELSE Update(@, applier[a].upstream, faster)]
    /\ applier' = [applier EXCEPT ![a].at = "global"]
    /\ UNCHANGED <<queueVars, file, reported>>

\* apply_domain_result_clean: an entry is updated under its lock; where there is none,
\* the lock is dropped before one is inserted.
ApplyGlobal(a) ==
    /\ applier[a].at = "global"
    /\ \/ /\ memory["global"] = Nothing
          /\ applier' = [applier EXCEPT ![a].at = "insert"]
          /\ UNCHANGED memory
       \/ /\ memory["global"] # Nothing
          /\ \E faster \in BOOLEAN :
                memory' = [memory EXCEPT !["global"] = Update(@, applier[a].upstream, faster)]
          /\ applier' = [applier EXCEPT ![a] = Idle]
    /\ UNCHANGED <<queueVars, file, reported>>

Insert(a) ==
    /\ applier[a].at = "insert"
    /\ memory' = [memory EXCEPT !["global"] = First(applier[a].upstream)]
    /\ applier' = [applier EXCEPT ![a] = Idle]
    /\ UNCHANGED <<queueVars, file, reported>>

\* An entry expires or is evicted: by a cleanup, or by a reader, which may then remove
\* one that was inserted since.
Forget(key) ==
    /\ memory[key] # Nothing
    /\ memory' = [memory EXCEPT ![key] = Nothing]
    /\ UNCHANGED <<queueVars, applier, file, reported>>

-----------------------------------------------------------------------------
(* The snapshot.                                                           *)

\* The entries are copied one by one, here at once: no property relates two keys.
Save ==
    /\ file' \in {memory, NoMemory}
    /\ UNCHANGED <<memory, queueVars, applier, reported>>

\* A new process; a file that does not parse is ignored.
Restart ==
    /\ memory' = file
    /\ channel' = <<>> /\ buffer' = <<>> /\ draining' = FALSE
    /\ applier' = [a \in Appliers |-> Idle]
    /\ UNCHANGED <<file, reported>>

Next ==
    \/ \E c \in Callers, k \in Keys, u \in Upstreams : Report(c, k, u)
    \/ Receive \/ Tick \/ Drain
    \/ \E a \in Appliers : ApplyClient(a) \/ ApplyGlobal(a) \/ Insert(a)
    \/ \E k \in Keys : Forget(k)
    \/ Save \/ Restart

Spec == Init /\ [][Next]_learningVars
=============================================================================
