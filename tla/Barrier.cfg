SPECIFICATION FairSpec
CONSTANTS
    Channel = {c1, c2}
    MaxFrames = 2
    MaxHeld = 1
    MaxGeneration = 1
    MaxTakeovers = 1
    MaxRestarts = 1
INVARIANTS TypeOK ReleasedIsHeld WaitersAreAboveTheMark
PROPERTIES FencedIsSilent ImplementsWireRelease
    HeldBatchesLeave CommitsAreOffered
CHECK_DEADLOCK FALSE
