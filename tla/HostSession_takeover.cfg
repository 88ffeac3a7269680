CONSTANTS
    MaxSessions = 2
    MaxEpoch = 2
    MaxSeq = 3
    MaxFresh = 2
    MaxInbox = 1
    MaxRestarts = 1
    Window = 2
    QueueCap = 1
    BufCap = 1
    BufHighWater = 2
SPECIFICATION Spec
INVARIANTS
    HostDropsOnlyIngested LastSeqHonest GapPullContiguous SeenInOrder
    GapPullSorted EventsFollowTheirReset OnlineWhileServed
PROPERTY BufferSurvivesReconnect
CHECK_DEADLOCK FALSE
