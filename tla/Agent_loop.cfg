SPECIFICATION FairSpec
CONSTANTS
    Concurrency = 2
    MaxBackoff = 3
    MaxWork = 4
    MaxFaults = 1
INVARIANTS ClaimedFits NoMissedSlot StopsClean
PROPERTIES WorkIsFetched ShutdownEnds
CHECK_DEADLOCK FALSE
