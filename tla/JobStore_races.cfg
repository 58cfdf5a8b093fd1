SPECIFICATION FairSpec
CONSTANTS
    e1 = e1
    e2 = e2
    c1 = c1
    c2 = c2
    c3 = c3
    NoExec = NoExec
    Execs <- OneExec
    Calls <- ThreeCalls
    Prio <- SamePrio
    TenantSets <- AllTenants
    BatchLimit = 1
    MaxRetries = 1
    AttemptCap = 4
    MaxFaults = 1
    MaxCuts = 1
INVARIANTS TypeOK NothingLost DLQAfterRetries HoldersBounded DeliveriesBounded
PROPERTIES KeepsLifecycle EverySubmittedFinishes
CHECK_DEADLOCK FALSE
