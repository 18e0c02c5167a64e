\* One restoring device: two records and one attempt, or one record and two.
SPECIFICATION Spec
CONSTANTS
    Guardian = {g1, g2, g3}
    Required = 2
    Device = {a, b}
    FirstWriter = a
    MaxLog = 2
    MaxEpoch = 2
    MaxKeys = 2
    MaxWork = 3
    MaxRestoring = 1
SYMMETRY GuardianSymmetry
CHECK_DEADLOCK FALSE
INVARIANTS TypeOK DurableRecordSurvives
PROPERTY GuardiansKeepDurableRecords
