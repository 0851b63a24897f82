\* A ttl step at the end of the entry sequence, behind a forwarder.
SPECIFICATION Spec
CONSTANTS
    Programs <- TtlPrograms
    Questions <- TtlQuestions
    Addresses = {"A", "AAAA"}
    MaxTtl = 2
    MaxQueries = 2
    None = None
INVARIANT TtlApplied
\* Queries run out.
CHECK_DEADLOCK FALSE
