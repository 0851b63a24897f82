SPECIFICATION FairSpec
CONSTANTS
    Queries = {q1, q2}
    Count = 2
    RaceWidth = 2
    Permits = 1
INVARIANTS
    TypeOK
    PermitsConserved
    BestWins
    FailsOnlyAtLast
    BlameIsTrue
    StraysAreDropped
PROPERTY QueriesEnd
CHECK_DEADLOCK FALSE
