------------------------------ MODULE Registry ------------------------------
(***************************************************************************)
(* How the plugins of a configuration are built and wired                  *)
(* (src/plugin_factory.rs), at the start and at every reload (src/main.rs).*)
(* Shared plugins are made once, from the first configuration; forwarders, *)
(* fallbacks and sequences anew for each.  Fallbacks and sequences name    *)
(* what they call, and are taken in the order of a hash map.               *)
(*                                                                         *)
(* A configuration is what names what:                                     *)
(*   shared, forwards   sets of names                                      *)
(*   smarts             [name -> the GeoIp plugin it needs]                *)
(*   fallbacks          [name -> the set of its primary and secondary]     *)
(*   sequences          [name -> the set of what its steps execute]        *)
(* Any plugin that reads a file or an address may fail to be made.         *)
(***************************************************************************)
EXTENDS Naturals, FiniteSets, Sequences, SequencesExt

CONSTANTS
    Configs,  \* [name -> a configuration the file may hold]
    MaxIdle,  \* passes without progress that are allowed, 20 in the code
    MaxLoads  \* bound: how often a configuration is loaded

VARIABLES
    config,    \* the name of the configuration being built, or in use
    loads,     \* how many there have been
    stage,     \* how far the build is
    shared,    \* plugins of create_shared_plugins
    registry,  \* plugin_registry
    entries,   \* entry_points: the sequences that are built
    todo,      \* the fallbacks or sequences this pass has yet to try
    waiting,   \* next_pending
    progress,  \* this pass has built a sequence
    idle       \* loop_protect

registryVars ==
    <<config, loads, stage, shared, registry, entries, todo, waiting, progress, idle>>

Config == Configs[config]
Fallbacks == DOMAIN Config.fallbacks
SequenceNames == DOMAIN Config.sequences
AllNames == UNION {c.shared \cup c.forwards \cup DOMAIN c.smarts \cup
                DOMAIN c.fallbacks \cup DOMAIN c.sequences : c \in Range(Configs)}

\* The plugins of a configuration are the keys of one map, its sequences those of another:
\* a sequence may have the name of a plugin, and a plugin that of one of another file.
ConfigsRead ==
    \A g \in DOMAIN Configs :
        LET c == Configs[g] IN
        /\ c.shared \cap (c.forwards \cup DOMAIN c.smarts \cup DOMAIN c.fallbacks) = {}
        /\ c.forwards \cap (DOMAIN c.smarts \cup DOMAIN c.fallbacks) = {}
        /\ DOMAIN c.smarts \cap DOMAIN c.fallbacks = {}
        /\ IsFiniteSet(DOMAIN c.fallbacks) /\ IsFiniteSet(DOMAIN c.sequences)

\* Type invariant.
RegistryTypeOK ==
    /\ config \in DOMAIN Configs
    /\ loads \in 1 .. MaxLoads
    /\ stage \in {"shared", "forwards", "fallbacks", "sequences", "built"}
    /\ shared \subseteq AllNames
    /\ registry \subseteq AllNames /\ entries \subseteq registry
    /\ todo \in Seq(AllNames) /\ waiting \in Seq(AllNames)
    /\ progress \in BOOLEAN
    /\ idle \in 0 .. MaxIdle + 1

Init ==
    /\ config \in DOMAIN Configs
    /\ loads = 1
    /\ stage = "shared"
    /\ shared = {} /\ registry = {} /\ entries = {}
    /\ todo = <<>> /\ waiting = <<>>
    /\ progress = FALSE /\ idle = 0

-----------------------------------------------------------------------------
CreateSharedPlugins ==
    /\ stage = "shared"
    /\ shared' \in SUBSET Config.shared
    /\ stage' = "forwards"
    /\ UNCHANGED <<config, loads, registry, entries, todo, waiting, progress, idle>>

\* A forwarder is made unless its settings are invalid; a smart one also needs its GeoIp
\* plugin, which is a shared one.
ForwardsMade == SUBSET Config.forwards
SmartsMade == SUBSET {s \in DOMAIN Config.smarts : Config.smarts[s] \in shared}

CreateForwards ==
    /\ stage = "forwards"
    /\ \E forwards \in ForwardsMade, smarts \in SmartsMade :
          registry' = shared \cup forwards \cup smarts
    /\ entries' = {}
    /\ todo' \in SetToSeqs(Fallbacks)
    /\ stage' = "fallbacks"
    /\ UNCHANGED <<config, loads, shared, waiting, progress, idle>>

\* There is one pass over the fallbacks: one that needs a later one, or a sequence, is
\* not built.
BuildFallback ==
    /\ stage = "fallbacks" /\ todo # <<>>
    /\ registry' = IF Config.fallbacks[Head(todo)] \subseteq registry
                   THEN registry \cup {Head(todo)} ELSE registry
    /\ todo' = Tail(todo)
    /\ UNCHANGED <<config, loads, stage, shared, entries, waiting, progress, idle>>

StartSequences ==
    /\ stage = "fallbacks" /\ todo = <<>>
    /\ todo' \in SetToSeqs(SequenceNames)
    /\ waiting' = <<>> /\ progress' = FALSE /\ idle' = 0
    /\ stage' = "sequences"
    /\ UNCHANGED <<config, loads, shared, registry, entries>>

\* A sequence is built once all its steps are; else it waits for the next pass.
BuildSequence ==
    /\ stage = "sequences" /\ todo # <<>>
    /\ LET name == Head(todo) IN
       IF Config.sequences[name] \subseteq registry
       THEN /\ registry' = registry \cup {name}
            /\ entries' = entries \cup {name}
            /\ progress' = TRUE
            /\ UNCHANGED waiting
       ELSE /\ waiting' = Append(waiting, name)
            /\ UNCHANGED <<registry, entries, progress>>
    /\ todo' = Tail(todo)
    /\ UNCHANGED <<config, loads, stage, shared, idle>>

\* Mutant of EndPass: there is one pass over the sequences too.
EndPassAtOnce ==
    /\ stage = "sequences" /\ todo = <<>>
    /\ stage' = "built"
    /\ UNCHANGED <<config, loads, shared, registry, entries, todo, waiting, progress, idle>>

\* Another pass over those that wait, in the same order, until none waits or there have
\* been too many without progress.
EndPass ==
    /\ stage = "sequences" /\ todo = <<>>
    /\ idle' = IF progress \/ waiting = <<>> THEN idle ELSE idle + 1
    /\ IF waiting = <<>> \/ idle' > MaxIdle
       THEN stage' = "built" /\ UNCHANGED <<todo, waiting>>
       ELSE todo' = waiting /\ waiting' = <<>> /\ UNCHANGED stage
    /\ progress' = FALSE
    /\ UNCHANGED <<config, loads, shared, registry, entries>>

\* The file holds another configuration: all but the shared plugins is built again.
Reload ==
    /\ stage = "built" /\ loads < MaxLoads
    /\ config' \in DOMAIN Configs \ {config}
    /\ loads' = loads + 1
    /\ stage' = "forwards"
    /\ waiting' = <<>>
    /\ UNCHANGED <<shared, registry, entries, todo, progress, idle>>

Next ==
    \/ CreateSharedPlugins \/ CreateForwards
    \/ BuildFallback \/ StartSequences \/ BuildSequence \/ EndPass
    \/ Reload

Spec == Init /\ [][Next]_registryVars

-----------------------------------------------------------------------------
(* Whatever the order and whatever could not be made, what is wired is     *)
(* closed (plugin_factory.rs:853, 879-926; main.rs:279): nothing built     *)
(* calls what is missing, a sequence is missing only if it waits for       *)
(* something that is, and a fallback only if that, or if what it needs is  *)
(* built as late as it is itself.  Its name may have gone to a sequence, or*)
(* be that of a shared plugin of the first configuration.                  *)
BuiltIsClosed ==
    stage = "built" =>
        /\ \A s \in SequenceNames :
              s \in entries <=> Config.sequences[s] \subseteq registry
        /\ \A f \in Fallbacks :
              LET needs == Config.fallbacks[f] IN
              /\ f \in registry \ (shared \cup entries) => needs \subseteq registry
              /\ f \notin registry =>
                    \/ ~(needs \subseteq registry)
                    \/ needs \cap (Fallbacks \cup SequenceNames) # {}
=============================================================================
