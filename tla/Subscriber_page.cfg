SPECIFICATION FairSpec
CONSTANTS
    Hosts = {h1, h2}
    FirstHost = h1
    Broadcasters = {b1}
    RingCap = 1
    Slack = 1
    ChCap = 1
    Threshold = 2
    BatchMax = 2
    MaxEvents = 3
    MaxBroadcasts = 1
    MaxEpoch = 1
    MaxRetargets = 1
INVARIANTS CriticalDropAnnounced SilentDropsBounded ResetPrecedesEvents
PROPERTY EventuallyDrained
CHECK_DEADLOCK FALSE
