SPECIFICATION FairSpec
CONSTANTS
    Execs = {e1, e2, e3}
    Resubmitted = {e3}
    Tasks = {t1, t2}
    MaxConcurrent = 1
    MaxRetries = 1
    MaxFaults = 1
INVARIANTS EventsAreTrue LastDecides
PROPERTIES SuccessAnswered
CHECK_DEADLOCK FALSE
