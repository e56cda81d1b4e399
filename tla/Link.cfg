\* Both programs end, or the car's aborts: the system really stops.
CHECK_DEADLOCK FALSE
SPECIFICATION FairSpec
CONSTANTS
    Faults = {}
    MaxInFlight = 2
    CarFirst = TRUE
    Modes <- BothModes
    Dialled <- Forwards
    Buttons = {}
    XReadings <- CentredX
    YReadings <- CentredY
    Keys = {"e"}
    MaxKeyed = 2
    Step = 50
    MinCounter <- MCMinCounter
    MaxCounter = 100
    StaleChannels <- MCExported
INVARIANTS
    TypeOK
    StopIsLast
    SkipMeansUpdated
    KeysObeyed
PROPERTIES
    Converges
    QuitStopsCar
