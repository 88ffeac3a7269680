CONSTANTS
    Reqs = {r1, r2}
    MaxSessions = 2
    MaxEpoch = 2
    MaxChunks = 1
    MaxPending = 1
    MaxParked = 1
    MaxTombstones = 1
SPECIFICATION Spec
SYMMETRY RequestSymmetry
INVARIANTS TombstonesAreVerdicts OneOutcome
PROPERTY DoneIsSticky
CHECK_DEADLOCK FALSE
