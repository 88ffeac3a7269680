SPECIFICATION Spec
CONSTANTS
    Sockets = {p1, p2}
    Hosts = {h1, h2}
    Users = {u1}
    Guests = {g1}
    Sessions = {s1, s2}
    ViewCap = 1
    MaxConnects = 2
    MaxFrames = 1
    MaxEdits = 2
    MaxTime = 2
SYMMETRY PageSymmetry
INVARIANTS DisplayedIsStreamed WithdrawnPagesKicked ScopeFollowsOwnership AckedUserReceives
CHECK_DEADLOCK FALSE
