SPECIFICATION Spec
CONSTANTS
    Callers = {c1, c2}
    Depth = 2
    Units = 2
    MaxLink = 1
    MaxGroups = 2
    MaxTicks = 1
    MaxHostProbes = 1
    MaxFrames = 2
SYMMETRY CallerSymmetry
INVARIANTS FramesIntact JoinersNotStranded AwaitedProbeOnTheWay ControlWaitsOneUnit
CHECK_DEADLOCK FALSE
