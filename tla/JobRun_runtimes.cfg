SPECIFICATION EndingSpec
CONSTANTS
    MaxTries = 2
    MaxFaults = 3
INVARIANTS SuccessIsTrue FailureIsFounded NoneLeftRunning HeldUntilReported
PROPERTIES Returns KeepsClaim
CHECK_DEADLOCK FALSE
