\* The program ends, or waits for a stream that does not come.
CHECK_DEADLOCK FALSE
SPECIFICATION ControllerFairSpec
CONSTANTS
    MaxFrames = 3
    None = None
    Pages <- TwoPages
    Workers = 2
    Loads <- Uses
INVARIANTS
    ControllerTypeOK
    LockHeldInside
    FreedUnused
    InputsOpenWhenUsed
    ReadsOwnVideo
PROPERTIES
    DrawsNewFrames
    ShowsLatest
    ReadersEnd
    ToldUnlessDead
