----------------------------- MODULE MCService -----------------------------
(***************************************************************************)
(* Six components that share no state, checked side by side: in each       *)
(* behaviour one of them moves, and the others stay as they are built.     *)
(***************************************************************************)
EXTENDS FiniteSets, Pipeline, Exchange

CONSTANTS
    Workers, QueueSize, ResponseSize, BatchSize,      \* Server
    BindAttempts, Free, Dead,
    Conns, PoolSize, MaxRetries,                      \* Transport
    Names, Ttls, Grace, Threshold, Gap, DedupWindow,  \* KernelCache
    EventsPerPoll, RingSize, Lag, EndOfTime,
    Configs, MaxIdle, MaxLoads,                       \* Registry
    Hosts, MaxDepth, MaxCnames, MaxTry, MaxNs         \* Resolver

\* Configurations: a chain of sequences; a ring of them with a fallback on a fallback; and
\* one whose fallbacks have the names of a shared plugin of the others and of a sequence of
\* its own, one on a sequence, one on a name nothing defines.
ExampleConfigs ==
    [chain |->
     [shared |-> {"geo", "hosts"}, forwards |-> {"fwd"},
      smarts |-> [n \in {"smart"} |-> "geo"],
      fallbacks |-> [n \in {"fb1"} |-> {"fwd", "hosts"}],
      sequences |-> [n \in {"main", "sub", "deep"} |->
          CASE n = "main" -> {"sub", "hosts"} [] n = "sub" -> {"deep", "fb1"}
            [] n = "deep" -> {"fwd", "smart"}]],
     ring |->
     [shared |-> {"geo"}, forwards |-> {"fwd"},
      smarts |-> [n \in {} |-> "geo"],
      fallbacks |-> [n \in {"fb1", "fb2"} |->
          IF n = "fb1" THEN {"fb2", "fwd"} ELSE {"fwd", "geo"}],
      sequences |-> [n \in {"main", "sub", "deep"} |->
          CASE n = "main" -> {"sub"} [] n = "sub" -> {"main"} [] n = "deep" -> {"fb1"}]],
     tail |->
     [shared |-> {"hosts"}, forwards |-> {"fwd"},
      smarts |-> [n \in {"smart"} |-> "geo"],
      fallbacks |-> [n \in {"geo", "sub"} |->
          IF n = "geo" THEN {"main", "fwd"} ELSE {"fwd", "ads"}],
      sequences |-> [n \in {"main", "sub"} |->
          IF n = "main" THEN {"smart", "hosts"} ELSE {"main", "fwd"}]]]

\* Programs: the main, local and proxy sequences of config.example.yaml, with a list that
\* blocks a domestic name; and one that has the plugins the example leaves out, two caches
\* in a row and a fallback in a fallback.  (A fallback's branches are no sequences: those
\* are built after it, see Registry.)
Line(form, of) == [form |-> form, of |-> of]
Always(name) == [conditions |-> {}, exec |-> name]
When(cond, name) == [conditions |-> {cond}, exec |-> name]
HasTag(tag) == [on |-> "tag", tag |-> tag, invert |-> FALSE]

ExampleProgram ==
    [main |-> [kind |-> "sequence", steps |-> <<
        Always("limit"), Always("ipv6"), When([on |-> "qtype", types |-> {"PTR"}], "reject"),
        Always("hosts"), Always("adblock"), When([on |-> "matcher", of |-> "black"], "reject"),
        Always("cn"), When(HasTag("cn"), "local"), Always("ecs"), Always("dga"),
        Always("smart"), Always("dnssec") >>],
     local |-> [kind |-> "sequence", steps |-> <<Always("cache"), Always("failover")>>],
     failover |-> [kind |-> "fallback", primary |-> "upstream", secondary |-> "ali"],
     limit |-> [kind |-> "ratelimit"], ipv6 |-> [kind |-> "ipv6_filter", mode |-> "disable_ipv6"],
     reject |-> [kind |-> "reject", records |-> {}],
     hosts |-> [kind |-> "hosts", list |-> {[type |-> "A", of |-> <<"lan">>]}],
     adblock |-> [kind |-> "adblock", list |->
         {Line("suffix", <<"ads", "cn">>), Line("allowed", <<"ok", "ads", "cn">>)}],
     black |-> [kind |-> "matcher", list |-> {Line("domain", <<"bad", "cn">>)}, mark |-> None],
     cn |-> [kind |-> "geosite", list |-> {Line("domain", <<"cn">>)}, mark |-> "cn"],
     cache |-> [kind |-> "cache"], ecs |-> [kind |-> "ecs", auto |-> TRUE, force |-> FALSE],
     dga |-> [kind |-> "dga", random |-> {<<"lan">>}, dry_run |-> FALSE],
     upstream |-> [kind |-> "forward"], ali |-> [kind |-> "aliapi"],
     smart |-> [kind |-> "smart_forward"], dnssec |-> [kind |-> "dnssec"]]

\* The pattern "cn".
DomesticNames == {<<"x", "ads", "cn">>, <<"ok", "ads", "cn">>}

OtherProgram ==
    [main |-> [kind |-> "sequence", steps |-> <<
        Always("outer"), When([on |-> "client_ip"], "reject"), Always("adblock"),
        When([on |-> "qname", names |-> DomesticNames], "first"), Always("clamp"),
        Always("nat64"), Always("country"), Always("listed"), Always("ali"),
        When([on |-> "tag", tag |-> "cn", invert |-> TRUE], "reject") >>],
     first |-> [kind |-> "sequence", steps |-> <<Always("inner"), Always("either")>>],
     either |-> [kind |-> "fallback", primary |-> "resolve", secondary |-> "nested"],
     nested |-> [kind |-> "fallback", primary |-> "ipv6", secondary |-> "ali"],
     outer |-> [kind |-> "cache"], inner |-> [kind |-> "cache"],
     adblock |-> [kind |-> "adblock", list |-> {Line("suffix", <<"ads", "cn">>)}],
     ipv6 |-> [kind |-> "ipv6_filter", mode |-> "disable_ipv6"],
     clamp |-> [kind |-> "ttl", fixed |-> None, min |-> 1, max |-> None],
     nat64 |-> [kind |-> "dns64", only_if_no_aaaa |-> TRUE],
     country |-> [kind |-> "geoip", mode |-> "response", tag |-> "cn", invert |-> FALSE],
     listed |-> [kind |-> "ip_matcher", mark |-> "cn"],
     resolve |-> [kind |-> "smart_resolve"], ali |-> [kind |-> "aliapi"],
     reject |-> [kind |-> "reject", records |-> {"A"}]]

ExamplePrograms == [example |-> ExampleProgram, other |-> OtherProgram]
ExampleQuestions == {[name |-> <<"x", "ads", "cn">>, type |-> "A"],
                     [name |-> <<"ok", "ads", "cn">>, type |-> "AAAA"],
                     [name |-> <<"lan">>, type |-> "A"]}

VARIABLES
    part,
    mode, binding, running, fate, tasks, worker, responses, batch, timer,
    kind, tries, wire, pool, tunnel,
    now, user, kernel, reverse, ring, dedup, refreshing, pending, warm,
    config, loads, built, shared, registry, entries, todo, waiting, progress, idle,
    resolution, domestic, stack, visited, outcome

serverVars == <<mode, binding, running, fate, tasks, worker, responses, batch, timer>>
transportVars == <<kind, stage, via, tries, wire, pool, tunnel, got>>
kernelVars == <<now, user, kernel, reverse, ring, dedup, refreshing, pending, warm>>
registryVars ==
    <<config, loads, built, shared, registry, entries, todo, waiting, progress, idle>>
lookupVars == <<resolution, domestic, stack, visited, outcome>>
allVars ==
    <<part, serverVars, transportVars, kernelVars, registryVars, lookupVars, pipelineVars>>

Listener == INSTANCE Server
Upstream == INSTANCE Transport
Xdp == INSTANCE KernelCache
Factory == INSTANCE Registry WITH stage <- built
Backend == INSTANCE Resolver WITH Names <- Hosts, mode <- resolution

ASSUME ServerAssumption ==
    /\ QueueSize \in Nat /\ ResponseSize \in Nat
    /\ BatchSize \in Nat \ {0} /\ BindAttempts \in Nat \ {0}

ASSUME ConduitsAreDifferent == Upstream!ConduitsDiffer
ASSUME TransportAssumption == PoolSize \in Nat \ {0} /\ MaxRetries \in Nat

ASSUME KernelAssumption ==
    /\ Ttls \subseteq Nat /\ Grace \in Nat /\ Lag \in Nat
    /\ EventsPerPoll \in Nat /\ RingSize \in Nat /\ EndOfTime \in Nat \ {0}
ASSUME NoneIsNoWarmUp == None \notin [since : Nat, left : SUBSET Names]

ASSUME ConfigsAreRead == Factory!ConfigsRead
ASSUME RegistryAssumption == MaxIdle \in Nat /\ MaxLoads \in Nat \ {0}

ASSUME ResolverAssumption ==
    MaxDepth \in Nat \ {0} /\ MaxCnames \in Nat \ {0} /\ MaxTry \in Nat \ {0}

ASSUME ProgramsAreWired == ProgramsWired
ASSUME PipelineAssumption == MaxTtl \in Nat /\ MaxQueries \in Nat

\* Which part moves is chosen first; what the others start from is then fixed.
AllInit ==
    /\ part \in {"server", "transport", "kernel", "registry", "resolver",
                "pipeline"}
    /\ Listener!Init /\ Upstream!Init /\ Xdp!Init /\ Factory!Init /\ Backend!Init
    /\ Init
    /\ part # "server" => mode = "batch"
    /\ part # "transport" => kind = "udp"
    /\ part # "kernel" => now = 0 /\ user = [n \in Names |-> None]
    /\ part # "registry" => config = "chain"
    /\ part # "resolver" => resolution = "hybrid" /\ ~domestic
    /\ part # "pipeline" => program = "example"
    /\ query = CHOOSE q \in Questions : TRUE

ServerMoves ==
    /\ part = "server" /\ Listener!Next
    /\ UNCHANGED <<part, transportVars, kernelVars, registryVars, lookupVars,
                   pipelineVars>>

TransportMoves ==
    /\ part = "transport" /\ Upstream!Next
    /\ UNCHANGED <<part, serverVars, kernelVars, registryVars, lookupVars,
                   pipelineVars>>

KernelMoves ==
    /\ part = "kernel" /\ Xdp!Next
    /\ UNCHANGED <<part, serverVars, transportVars, registryVars, lookupVars,
                   pipelineVars>>

RegistryMoves ==
    /\ part = "registry" /\ Factory!Next
    /\ UNCHANGED <<part, serverVars, transportVars, kernelVars, lookupVars,
                   pipelineVars>>

ResolverMoves ==
    /\ part = "resolver" /\ Backend!Next
    /\ UNCHANGED <<part, serverVars, transportVars, kernelVars, registryVars,
                   pipelineVars>>

PipelineMoves ==
    /\ part = "pipeline" /\ Next
    /\ UNCHANGED <<part, serverVars, transportVars, kernelVars, registryVars,
                   lookupVars>>

AllNext ==
    \/ ServerMoves \/ TransportMoves \/ KernelMoves \/ RegistryMoves \/ ResolverMoves
    \/ PipelineMoves

\* The fairness of the server and of the resolver, for the part that moves.
Serving(A) ==
    /\ part = "server" /\ A
    /\ UNCHANGED <<part, transportVars, kernelVars, registryVars, lookupVars,
                   pipelineVars>>

ServerProgress ==
    /\ \A w \in Workers :
          /\ WF_allVars(Serving(Listener!Take(w)))
          /\ WF_allVars(Serving(Listener!Handle(w)))
          /\ WF_allVars(Serving(Listener!Respond(w)))
    /\ WF_allVars(Serving(Listener!Collect)) /\ WF_allVars(Serving(Listener!Fire))
    /\ \A q \in Queries :
          /\ WF_allVars(Serving(Listener!Answer(q)))
          /\ WF_allVars(Serving(mode = "dot" /\ Listener!Read(q)))

AllSpec ==
    AllInit /\ [][AllNext]_allVars /\ ServerProgress /\ WF_allVars(ResolverMoves)

-----------------------------------------------------------------------------
\* The type invariants of the six (server.rs, forward.rs, cache.rs, plugin_factory.rs,
\* recursive_backend.rs, context.rs).
PartsTypeOK ==
    /\ Listener!ServerTypeOK
    /\ Upstream!TransportTypeOK
    /\ Xdp!KernelCacheTypeOK
    /\ Factory!RegistryTypeOK
    /\ Backend!ResolverTypeOK
    /\ PipelineTypeOK

\* Server: replies that wait in the batch have a timer that will send them.
NoReplyStranded == Listener!NoReplyStranded

\* Server: what is queued or read comes to an end.
QueriesSettle == Listener!QueriesSettle

\* KernelCache: the age of what the kernel answers with.
KernelAgeBounded == Xdp!KernelAgeBounded

\* Registry: what is wired is closed, in whatever order it was built.
BuiltIsClosed == Factory!BuiltIsClosed

\* Resolver: a lookup ends whatever servers answer.
LookupEnds == Backend!LookupEnds
=============================================================================
