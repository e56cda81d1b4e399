\* The process may abort or end; with nothing more in flight nothing moves.
CHECK_DEADLOCK FALSE
SPECIFICATION FairSpec
CONSTANTS
    Faults = {}
    MaxInFlight = 1
    Commands <- MCCommands
    StaleChannels <- MCStale
INVARIANTS
    TypeOK
    AckNeverStop
    AckAfterApply
    DoneMeansOff
    CleanupAfterListener
PROPERTIES
    AbortOnlyDuringStartup
    StopStops
