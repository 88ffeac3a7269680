CONSTANTS
    MaxSessions = 1
    MaxEpoch = 1
    MaxChanges = 3
    MaxRequests = 1
    MaxSeq = 4
    MaxLink = 2
    Batch = 1
SPECIFICATION Spec
INVARIANT NewestReachesHost
CHECK_DEADLOCK FALSE
