CONSTANTS
    Reqs = {r1, r2}
    MaxSessions = 1
    MaxEpoch = 1
    MaxChunks = 2
    MaxPending = 2
    MaxParked = 1
    MaxTombstones = 1
SPECIFICATION Spec
SYMMETRY RequestSymmetry
INVARIANTS AnswerIntact ParkedWithinBudget
CHECK_DEADLOCK FALSE
