SPECIFICATION RotationSpec
CONSTANTS
    Channel = {c1}
    MaxFrames = 2
    MaxHeld = 2
    MaxGeneration = 2
    MaxTakeovers = 1
    MaxRestarts = 1
INVARIANTS RotationTypeOK ReleasedIsHeld NeverFencedByItself LeftSetIsRetiredOrOwed
PROPERTIES ImplementsWireRelease
CHECK_DEADLOCK FALSE
