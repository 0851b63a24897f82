SPECIFICATION AllSpec
\* Full channels and batches are reached with one place and two; Confidence and Needed
\* are both DOMAIN_MEMORY_CONFIDENCE, with the code's value.
CONSTANTS
    Capacity = 1
    Confidence = 2
    Needed = 2
    Upstreams = {"u1", "u2"}
    Callers = {"c1"}
    Batch = 2
    MaxReports = 2
    Recorders = {"r1", "r2", "r3"}
    Threshold = 2
    MaxFailures = 5
    Handlers = {"h1", "h2"}
    MaxQueries = 2
    Window = 3
    Lag = 1
    EndOfTime = 8
    None = None
INVARIANTS
    PartsTypeOK
    DomesticNeverFaked
    FakedOnEvidence
    ClassesAgree
    ConfidenceEarned
    NotShutOut
    LimitHolds
\* The recorders and the rate limiter stop at the bounds of their counters.
CHECK_DEADLOCK FALSE
