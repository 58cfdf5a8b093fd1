SPECIFICATION FairSpec
CONSTANTS
    Requests = {r1, r2}
    Rates = {0, 1, 2}
    Quotas = {0, 1}
    Keep = Keep
    NoLimiter = NoLimiter
    NoRequest = NoRequest
    MaxUpdates = 2
    MaxRunning = 1
INVARIANTS OldLimiterExcused LimitersBounded UpdatesKept LockedWhileAdmitting
CHECK_DEADLOCK FALSE
PROPERTIES UpdatesTakeEffect RequestsAnswered
