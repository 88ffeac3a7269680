CONSTANTS
    MaxSessions = 2
    MaxEpoch = 2
    MaxChanges = 2
    MaxRequests = 0
    MaxSeq = 3
    MaxLink = 2
    Batch = 1
SPECIFICATION Spec
INVARIANTS OneAudienceFrame HostHoldsNewest
CHECK_DEADLOCK FALSE
