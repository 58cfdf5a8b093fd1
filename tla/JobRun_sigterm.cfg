SPECIFICATION Spec
CONSTANTS
    MaxTries = 1
    MaxFaults = 0
INVARIANTS SigtermSparesJobs
CHECK_DEADLOCK FALSE
