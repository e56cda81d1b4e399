\* The stream ends.
CHECK_DEADLOCK FALSE
SPECIFICATION Spec
CONSTANTS
    Colours = {0, 25, 60}
    Times = {3, 5, 6, 10, 11, 16}
    MaxFrames = 12
INVARIANTS
    TypeOK
    FarFramesReport
PROPERTIES
    ImplementsCrashReports
    FiveInARow
