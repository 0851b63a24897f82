SPECIFICATION Spec
CONSTANTS
    Queries = {q1}
    Count = 2
    RaceWidth = 2
    Permits = 1
INVARIANT FiresBackup
CHECK_DEADLOCK FALSE
