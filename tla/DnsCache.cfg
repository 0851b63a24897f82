\* cache_domestic of config.example.yaml: serves stale, refreshes through the
\* recursive backend and, when that fails, through upstreams of its own; with XDP,
\* the kernel has it refreshed as well.
SPECIFICATION FairSpec
CONSTANTS
    Keys = {k1}
    Clients = {c1}
    Refreshers = {r1}
    Responses <- SomeResponses
    MinTtl = 0
    MaxTtl = 1
    ConfiguredThreshold = 2
    ConfiguredStale = 1
    LoadGrace = 1
    FakeIpProtection = FALSE
    HasForwarder = TRUE
    HasRecursive = TRUE
    HasXdp = TRUE
    UnansweredTtl = 1
    EndOfTime = 2
    None = None
INVARIANTS
    TypeOK
    EntriesGenuine
    PurgeIsFinal
PROPERTIES
    ImplementsContract
    QueriesEnd
    RefreshesEnd
