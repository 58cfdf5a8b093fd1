SPECIFICATION FairSpec
CONSTANTS
    Execs = {e1}
    Resubmitted = {}
    Tasks = {t1}
    MaxConcurrent = 1
    MaxRetries = 0
    MaxFaults = 0
PROPERTIES FailureAnswered
CHECK_DEADLOCK FALSE
