\* The process may abort, fail or end: it really stops.
CHECK_DEADLOCK FALSE
SPECIFICATION Spec
CONSTANTS
    Speeds <- MCSpeeds
    Increments <- MCIncrements
    StaleChannels <- MCStale
INVARIANTS
    MotorTypeOK
    DutyMatchesState
    NoPwmFault
PROPERTIES
    ImplementsDriveTrain
    IncrementsAreSafe
