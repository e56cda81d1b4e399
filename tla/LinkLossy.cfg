\* Both programs end, or the car's aborts: the system really stops.
CHECK_DEADLOCK FALSE
SPECIFICATION LossyFairSpec
CONSTANTS
    Faults = {"lose"}
    MaxInFlight = 1
    CarFirst = TRUE
    Modes <- Hardware
    Dialled <- ToTheEnd
    Buttons = {}
    XReadings <- CentredX
    YReadings <- CentredY
    Keys = {}
    MaxKeyed = 0
    Step = 50
    MinCounter <- MCMinCounter
    MaxCounter = 100
    StaleChannels <- MCExported
PROPERTY RestIsAcked
