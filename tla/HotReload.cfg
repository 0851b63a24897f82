\* A build whose panics unwind (the dev profile), a channel that a slow worker
\* overruns, and a file that changes at any time.
SPECIFICATION FairSpec
CONSTANTS
    Configs = {a, b}
    Unloadable = {bad}
    Workers = {w1, w2}
    Capacity = 2
    PanicAborts = FALSE
    None = None
INVARIANTS
    TypeOK
    NoUpdateLost
PROPERTIES
    ReloadSettles
    FileIsServed
