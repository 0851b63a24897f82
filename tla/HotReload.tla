------------------------------ MODULE HotReload ------------------------------
(***************************************************************************)
(* A change of the configuration file, from the file system to the plugins *)
(* that answer queries:                                                    *)
(*   - ConfigWatcher (src/config_watcher.rs): a thread with the file       *)
(*     watcher, and the task that calls on_reload for each change it sees; *)
(*   - the main loop of src/main.rs: hash, compare, load, broadcast,       *)
(*     rebuild;                                                            *)
(*   - the UDP workers, each with a receiver of the broadcast and a        *)
(*     registry of its own (the TCP, DoT, DoQ and DoH servers share the    *)
(*     one of the main loop).                                              *)
(*                                                                         *)
(* on_reload is blocking_send, called by an asynchronous task, which tokio *)
(* refuses with a panic.  Under panic = "abort" the process dies.  Without *)
(* it the watcher's task dies, the only sender of the main loop's channel  *)
(* is dropped with it, and recv() answers None there at once from then on: *)
(* the loop comes to look at the file over and over.  It also does so when *)
(* the watcher could not be started.                                       *)
(*                                                                         *)
(* A configuration is a model value; so is its hash.                       *)
(***************************************************************************)
EXTENDS Integers, Sequences, SequencesExt

CONSTANTS
    Configs,        \* contents of the file that load
    Unloadable,     \* contents that do not
    Workers,        \* UDP worker threads
    Capacity,       \* of the broadcast channel
    PanicAborts,    \* the build profile's panic = "abort"
    None            \* no file, no hash, nothing loaded

ASSUME CapacityAssumption == Capacity \in Nat \ {0}
ASSUME ProfileAssumption == PanicAborts \in BOOLEAN
ASSUME ContentsAssumption == None \notin Configs \cup Unloadable /\ Configs \cap Unloadable = {}

Contents == Configs \cup Unloadable \cup {None}

VARIABLES
    file,       \* what is at the configuration's path
    alive,      \* the process runs
    watcher,    \* "starting", "watching", "noticed" (on_reload is due), "over"
    event,      \* the watcher's channel of one: "empty", "ours", "other"
    loop,       \* the main loop: "select", "load", "publish", "rebuild"
    newHash,    \* new_hash
    lastHash,   \* last_config_hash
    loaded,     \* new_config
    main,       \* the configuration of the main loop's HotReloadManager
    worker,     \* [Workers -> the configuration of its HotReloadManager, or None]
    mailbox     \* [Workers -> what its receiver has still to see]

vars == <<file, alive, watcher, event, loop, newHash, lastHash, loaded, main, worker, mailbox>>

mainVars == <<loop, newHash, lastHash, loaded, main>>
workerVars == <<worker, mailbox>>
watcherVars == <<watcher, event>>

\* A worker whose server has ended has no registry (None) and no receiver.
Serving == {w \in Workers : worker[w] # None}

\* Type invariant: what is served and what is under way are configurations that
\* load, and a channel holds no more than its capacity.
TypeOK ==
    /\ file \in Contents
    /\ alive \in BOOLEAN
    /\ watcher \in {"starting", "watching", "noticed", "over"}
    /\ event \in {"empty", "ours", "other"}
    /\ loop \in {"select", "load", "publish", "rebuild"}
    /\ newHash \in Contents /\ lastHash \in Contents
    /\ loaded \in Configs \cup {None}
    /\ loop \in {"publish", "rebuild"} => loaded \in Configs
    /\ main \in Configs
    /\ worker \in [Workers -> Configs \cup {None}]
    /\ mailbox \in [Workers -> Seq(Configs)]
    /\ \A w \in Workers : Len(mailbox[w]) <= Capacity

-----------------------------------------------------------------------------

\* The instance has been started; the file may have changed, or gone, between
\* the load and the first hash.
Init ==
    /\ main \in Configs
    /\ file \in Contents
    /\ lastHash = file
    /\ alive = TRUE
    /\ watcher = "starting" /\ event = "empty"
    /\ loop = "select" /\ newHash = None /\ loaded = None
    /\ worker = [w \in Workers |-> main]
    /\ mailbox = [w \in Workers |-> <<>>]

-----------------------------------------------------------------------------
(* The directory and its watcher.                                          *)

\* try_send of the notify callback: an event that finds the channel full is gone.
Notify(e) == event' = IF watcher = "watching" /\ event = "empty" THEN e ELSE event

\* An editor or the dashboard's update_config touches the file: it is replaced,
\* truncated, written or removed.
Change ==
    /\ file' \in Contents
    /\ Notify("ours")
    /\ UNCHANGED <<alive, watcher, mainVars, workerVars>>

\* Another file of the directory changes, the temporary one of update_config too.
ChangeOther ==
    /\ Notify("other")
    /\ UNCHANGED <<file, alive, watcher, mainVars, workerVars>>

WatchStarts ==
    /\ alive /\ watcher = "starting"
    /\ watcher' = "watching"
    /\ UNCHANGED <<file, alive, event, mainVars, workerVars>>

\* No runtime, no inotify instance, or no watch: the thread ends, and with it
\* the task, whose own channel is closed.
WatchFails ==
    /\ alive /\ watcher = "starting"
    /\ watcher' = "over"
    /\ UNCHANGED <<file, alive, event, mainVars, workerVars>>

\* The thread takes an event off the channel; one of the file goes on.
TakeEvent ==
    /\ alive /\ watcher = "watching" /\ event # "empty"
    /\ event' = "empty"
    /\ watcher' = IF event = "ours" THEN "noticed" ELSE watcher
    /\ UNCHANGED <<file, alive, mainVars, workerVars>>

\* 100 ms later: on_reload, and blocking_send in it.
OnReload ==
    /\ alive /\ watcher = "noticed"
    /\ watcher' = "over"
    /\ alive' = ~PanicAborts
    /\ UNCHANGED <<file, event, mainVars, workerVars>>

-----------------------------------------------------------------------------
(* The main loop.                                                          *)

\* recv() answers None: the file is hashed, and the loop goes on to load it
\* unless the hash is the last one.  A file that cannot be read has no hash.
Hash ==
    /\ alive /\ loop = "select" /\ watcher = "over"
    /\ IF file # None /\ file = lastHash
       THEN UNCHANGED <<loop, newHash>>
       ELSE loop' = "load" /\ newHash' = file
    /\ UNCHANGED <<file, alive, watcherVars, lastHash, loaded, main, workerVars>>

\* Mutant of Load: what does not parse is taken for a configuration.
LoadUnparsed ==
    /\ alive /\ loop = "load"
    /\ IF file # None
       THEN loop' = "publish" /\ loaded' = file /\ UNCHANGED newHash
       ELSE loop' = "select" /\ newHash' = None /\ UNCHANGED loaded
    /\ UNCHANGED <<file, alive, watcherVars, lastHash, main, workerVars>>

\* load_from_file reads the file again; where that fails, all stays as it was.
Load ==
    /\ alive /\ loop = "load"
    /\ IF file \in Configs
       THEN loop' = "publish" /\ loaded' = file /\ UNCHANGED newHash
       ELSE loop' = "select" /\ newHash' = None /\ UNCHANGED loaded
    /\ UNCHANGED <<file, alive, watcherVars, lastHash, main, workerVars>>

\* Mutant of Deliver: a full channel refuses what is new.
DeliverIfRoom(box, config) ==
    IF Len(box) < Capacity THEN Append(box, config) ELSE box

\* A receiver that lags behind loses what is oldest.
Deliver(box, config) ==
    IF Len(box) < Capacity THEN Append(box, config) ELSE Append(Tail(box), config)

\* The broadcast to the UDP workers.
Publish ==
    /\ alive /\ loop = "publish"
    /\ loop' = "rebuild"
    /\ mailbox' = [w \in Workers |->
         IF w \in Serving THEN Deliver(mailbox[w], loaded) ELSE mailbox[w]]
    /\ UNCHANGED <<file, alive, watcherVars, newHash, lastHash, loaded, main, worker>>

\* Mutant of Apply: what has been applied is not recorded.
ApplyUnrecorded ==
    /\ alive /\ loop = "rebuild"
    /\ main' = loaded
    /\ loop' = "select" /\ newHash' = None /\ loaded' = None
    /\ UNCHANGED <<file, alive, watcherVars, lastHash, workerVars>>

\* The registry is built and swapped in, and the hash recorded: the one from
\* before the load, or one of the file as it is now.
Apply ==
    /\ alive /\ loop = "rebuild"
    /\ main' = loaded
    /\ lastHash' = CASE newHash # None -> newHash
                     [] newHash = None /\ file # None -> file
                     [] OTHER -> lastHash
    /\ loop' = "select" /\ newHash' = None /\ loaded' = None
    /\ UNCHANGED <<file, alive, watcherVars, workerVars>>

-----------------------------------------------------------------------------
(* The UDP workers.                                                        *)

\* Mutant of Receive: the worker subscribes anew after each configuration.
ReceiveAndSubscribe(w) ==
    /\ alive /\ w \in Serving /\ mailbox[w] # <<>>
    /\ worker' = [worker EXCEPT ![w] = Head(mailbox[w])]
    /\ mailbox' = [mailbox EXCEPT ![w] = <<>>]
    /\ UNCHANGED <<file, alive, watcherVars, mainVars>>

\* The next configuration: the worker builds a registry and swaps it in.
Receive(w) ==
    /\ alive /\ w \in Serving /\ mailbox[w] # <<>>
    /\ worker' = [worker EXCEPT ![w] = Head(mailbox[w])]
    /\ mailbox' = [mailbox EXCEPT ![w] = Tail(@)]
    /\ UNCHANGED <<file, alive, watcherVars, mainVars>>

\* The worker's server fails: its thread ends, and nothing starts it again.
ServerEnds(w) ==
    /\ alive /\ w \in Serving
    /\ worker' = [worker EXCEPT ![w] = None]
    /\ mailbox' = [mailbox EXCEPT ![w] = <<>>]
    /\ UNCHANGED <<file, alive, watcherVars, mainVars>>

-----------------------------------------------------------------------------

WatcherStep == WatchStarts \/ WatchFails \/ TakeEvent \/ OnReload
LoopStep == Hash \/ Load \/ Publish \/ Apply

Next ==
    \/ Change
    \/ ChangeOther
    \/ WatcherStep
    \/ LoopStep
    \/ \E w \in Workers : Receive(w) \/ ServerEnds(w)

\* Threads run and ready tasks are polled.  Nothing says that the file changes,
\* that it stays as it is, or that a server fails.
Fairness ==
    /\ WF_vars(WatcherStep)
    /\ WF_vars(LoopStep)
    /\ \A w \in Workers : WF_vars(Receive(w))

Spec == Init /\ [][Next]_vars
FairSpec == Spec /\ Fairness

-----------------------------------------------------------------------------
(* Safety.                                                                 *)

Newest(w) == IF mailbox[w] = <<>> THEN worker[w] ELSE Last(mailbox[w])
Latest == IF loop = "rebuild" THEN loaded ELSE main

\* However far a worker lags behind the broadcast, and however full its channel
\* is, what it comes to in the end is what the main loop published last: the UDP
\* and the TCP side are never left with different configurations.
NoUpdateLost == \A w \in Serving : Newest(w) = Latest

\* "Allows reloading configuration without restarting the service".
SurvivesReload == alive

\* The inductive invariant.
IInv == TypeOK /\ NoUpdateLost

-----------------------------------------------------------------------------
(* Liveness.                                                               *)

\* Once the main loop looks at the file, one that loads and stays is hashed,
\* loaded and recorded, and the loop comes to rest: no content is reloaded for
\* ever, and none is recorded that was not there.
ReloadSettles ==
    \A c \in Configs :
        <>[](alive /\ watcher = "over" /\ file = c) => <>[](lastHash = c /\ loop = "select")

\* A file that loads and stays is served by the main registry and by every
\* worker left, unless the file was another one between the hash and the load,
\* so that the hash on record is not that of the configuration that runs.
FileIsServed ==
    \A c \in Configs :
        <>[](alive /\ watcher = "over" /\ file = c /\ lastHash = main)
            => <>[](main = c /\ \A w \in Serving : worker[w] = c)
=============================================================================
