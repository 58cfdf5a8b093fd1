SPECIFICATION Spec
CONSTANTS
    e1 = e1
    e2 = e2
    c1 = c1
    c2 = c2
    c3 = c3
    NoExec = NoExec
    Execs <- TwoExecs
    Calls <- TwoCalls
    Prio <- SamePrio
    TenantSets <- Dedicated
    BatchLimit = 2
    MaxRetries = 0
    AttemptCap = 2
    MaxFaults = 2
    MaxCuts = 1
SYMMETRY CallSymmetry
INVARIANTS FinishedIsDequeued QueueOrDLQ FailedIsInDLQ
CHECK_DEADLOCK FALSE
