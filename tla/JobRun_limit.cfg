SPECIFICATION FairSpec
CONSTANTS
    MaxTries = 1
    MaxFaults = 0
PROPERTIES HardDeadline
CHECK_DEADLOCK FALSE
