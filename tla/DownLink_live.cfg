CONSTANTS
    MaxSessions = 1
    MaxEpoch = 1
    MaxChanges = 2
    MaxRequests = 1
    MaxSeq = 4
    MaxLink = 2
    Batch = 1
SPECIFICATION FairSpec
INVARIANT ExpiredWereWritten
PROPERTIES EventuallyCurrent EventuallyDelivered
CHECK_DEADLOCK FALSE
