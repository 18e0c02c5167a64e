\* Two records: the guard of an attempt moves twice while its requests are late.
SPECIFICATION Spec
CONSTANTS
    Guardian = {g1, g2, g3}
    Required = 2
    Device = {a, b}
    FirstWriter = a
    MaxLog = 2
    MaxEpoch = 2
    MaxKeys = 1
    MaxWork = 3
    MaxRestoring = 1
SYMMETRY GuardianSymmetry
CHECK_DEADLOCK FALSE
INVARIANTS OneQuorumPerTakeover
