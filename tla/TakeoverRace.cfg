\* Two devices restore at the same time.
SPECIFICATION Spec
CONSTANTS
    Guardian = {g1, g2, g3}
    Required = 2
    Device = {a, b, c}
    FirstWriter = a
    MaxLog = 0
    MaxEpoch = 2
    MaxKeys = 2
    MaxWork = 2
    MaxRestoring = 2
SYMMETRY Symmetry
CHECK_DEADLOCK FALSE
INVARIANTS OneWriterPerEpoch
