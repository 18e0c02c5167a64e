\* One record: an attempt is given up while its request is still on the way.
SPECIFICATION Spec
CONSTANTS
    Guardian = {g1, g2, g3}
    Required = 2
    Device = {a, b}
    FirstWriter = a
    MaxLog = 1
    MaxEpoch = 2
    MaxKeys = 1
    MaxWork = 2
    MaxRestoring = 1
SYMMETRY GuardianSymmetry
CHECK_DEADLOCK FALSE
INVARIANTS GrantedKeyIsOnDisk
