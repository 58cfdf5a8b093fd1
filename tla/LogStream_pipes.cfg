SPECIFICATION FairSpec
CONSTANTS
    MaxLines = 4
    PipeCap = 1
    ChanCap = 1
    BatchSize = 2
    MaxFaults = 1
INVARIANTS AllStored
CHECK_DEADLOCK FALSE
PROPERTIES KeepsLog StreamEnds WritesFlow LinesArrive
