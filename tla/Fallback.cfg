\* A query's end is the end of the behaviour.
SPECIFICATION FairSpec
CHECK_DEADLOCK FALSE
INVARIANTS
    TypeOK
    ErrorMeansBothFailed
    SecondaryIsSecond
    SecondaryOnDemand
    PanicNeedsFailedSecondary
PROPERTIES
    QueryEnds
