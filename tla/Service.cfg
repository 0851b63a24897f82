SPECIFICATION AllSpec
\* Every queue, pool and ring has room for one or two, so that it fills up; the times
\* of the kernel cache keep the order of the code's, and leave an entry its whole life.
CONSTANTS
    Queries = {q1, q2, q3}
    Workers = {w1, w2}
    QueueSize = 1
    ResponseSize = 1
    BatchSize = 2
    BindAttempts = 2
    Free = Free
    Dead = Dead
    Ports = {p1}
    Conns = {1, 2, 3}
    Tunnel = Tunnel
    PoolSize = 1
    MaxRetries = 1
    None = None
    Names = {n1}
    Ttls = {0, 2}
    Grace = 2
    Threshold = 2
    Gap = 1
    DedupWindow = 2
    EventsPerPoll = 1
    RingSize = 2
    Lag = 1
    EndOfTime = 6
    Configs <- ExampleConfigs
    MaxIdle = 1
    MaxLoads = 2
    Hosts = {"a", "b"}
    MaxDepth = 3
    MaxCnames = 2
    MaxTry = 2
    MaxNs = 1
    Programs <- ExamplePrograms
    Questions <- ExampleQuestions
    Addresses = {"A", "AAAA"}
    MaxTtl = 1
    MaxQueries = 2
INVARIANTS
    PartsTypeOK
    NoReplyStranded
    RepliesAreOwn
    KernelAgeBounded
    BuiltIsClosed
    CachedIsSent
PROPERTIES
    QueriesSettle
    LookupEnds
\* Queries, time and loads run out.
CHECK_DEADLOCK FALSE
