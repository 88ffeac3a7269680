CONSTANTS
    Payload = {a, b}
    Base = 1
    Window = 1
    MaxFrames = 3
SPECIFICATION FairSpec
INVARIANTS TypeOK RetainedUntilApplied AppliedInOrderOnce ParkedBehindGap
PROPERTIES ImplementsFifo EventuallyReleased
