\* Both programs end, or the car's aborts: the system really stops.
CHECK_DEADLOCK FALSE
SPECIFICATION Spec
CONSTANTS
    Faults = {}
    MaxInFlight = 1
    CarFirst = TRUE
    Modes <- Hardware
    Dialled <- BothWays
    Buttons = {}
    XReadings <- CentredX
    YReadings <- CentredY
    Keys = {}
    MaxKeyed = 0
    Step = 50
    MinCounter <- MCMinCounter
    MaxCounter = 100
    StaleChannels <- MCExported
INVARIANT SkipMeansUpdated
