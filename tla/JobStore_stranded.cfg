SPECIFICATION Spec
CONSTANTS
    e1 = e1
    e2 = e2
    c1 = c1
    c2 = c2
    c3 = c3
    NoExec = NoExec
    Execs <- OneExec
    Calls <- TwoCalls
    Prio <- SamePrio
    TenantSets <- AllTenants
    BatchLimit = 1
    MaxRetries = 0
    AttemptCap = 2
    MaxFaults = 1
    MaxCuts = 1
INVARIANTS SomeoneWillConclude
CHECK_DEADLOCK FALSE
