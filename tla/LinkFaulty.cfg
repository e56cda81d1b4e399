\* Both programs end, or the car's aborts: the system really stops.
CHECK_DEADLOCK FALSE
SPECIFICATION Spec
CONSTANTS
    Faults = {"lose", "duplicate", "reorder"}
    MaxInFlight = 2
    CarFirst = TRUE
    Modes <- BothModes
    Dialled <- Forwards
    Buttons = {"encoder", "joystick"}
    XReadings <- CentredX
    YReadings <- Steering
    Keys = {"w", "space"}
    MaxKeyed = 1
    Step = 50
    MinCounter <- MCMinCounter
    MaxCounter = 100
    StaleChannels <- MCExported
INVARIANTS
    StopsOnlyOnQuit
    SteersInRange
