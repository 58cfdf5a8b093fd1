SPECIFICATION FairSpec
CONSTANTS
    MaxEntries = 3
    Limit = 2
    MaxTimeouts = 2
INVARIANTS PrintedOnce SkippedOverlapped PrintedInOrder
CHECK_DEADLOCK FALSE
PROPERTIES StopsCaughtUp StoredIsPrinted
