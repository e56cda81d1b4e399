\* The program ends, or waits for a stream that does not come.
CHECK_DEADLOCK FALSE
SPECIFICATION FairSpec
CONSTANT MaxFrames = 2
PROPERTY CleanupEnds
