\* After cleanup, or after a failed start, nothing happens any more.
CHECK_DEADLOCK FALSE
SPECIFICATION FairSpec
CONSTANTS
    MinCounter <- MCMinCounter
    MaxCounter = 1
    Step = 1
    MaxTurn = 12
    MaxBehind = 1
INVARIANTS
    TypeOK
    CountsDetents
    RestInBounds
    ReadsOpenLines
PROPERTIES
    FailsOnlyInInit
    CleanupEnds
