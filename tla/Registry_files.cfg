SPECIFICATION Spec
CONSTANTS
    Handlers = {p1, p2}
    Users = {u1}
    Names = {local}
    Codes = {k1, k2, k3}
    MaxHosts = 2
    MaxTokens = 2
    MaxMints = 2
    MaxCrashes = 1
SYMMETRY RegistrySymmetry
INVARIANTS OneTokenPerHost AcknowledgedDurable CodeIsOneShot NoOrphanHost
CHECK_DEADLOCK FALSE
