\* recursive_mode with no upstreams of the cache's own, and a stale window.
SPECIFICATION Spec
CONSTANTS
    Keys = {k1}
    Clients = {c1}
    Refreshers = {r1}
    Responses <- SomeResponses
    MinTtl = 0
    MaxTtl = 2
    ConfiguredThreshold = 2
    ConfiguredStale = 1
    LoadGrace = 1
    FakeIpProtection = FALSE
    HasForwarder = FALSE
    HasRecursive = TRUE
    HasXdp = FALSE
    UnansweredTtl = 1
    EndOfTime = 3
    None = None
PROPERTIES
    ServesStaleAsConfigured
