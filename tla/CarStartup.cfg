\* The process may abort or end; with nothing more in flight nothing moves.
CHECK_DEADLOCK FALSE
SPECIFICATION Spec
CONSTANTS
    Faults = {}
    MaxInFlight = 1
    Commands <- MCFewCommands
    StaleChannels <- MCExported
INVARIANT DriversUpWhenUsed
