CONSTANTS
    MaxSessions = 2
    MaxEpoch = 1
    MaxSeq = 1
    MaxFresh = 0
    MaxInbox = 1
    MaxRestarts = 0
    Window = 2
    QueueCap = 10
    BufCap = 1
    BufHighWater = 2
SPECIFICATION Spec
INVARIANT AckedIsIngested
CHECK_DEADLOCK FALSE
