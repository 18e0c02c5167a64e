\* Two parts of one payment over one outgoing channel.
SPECIFICATION Spec
CONSTANTS
    Part = {p1, p2}
    None = None
    MaxAdds = 3
    MaxFaults = 2
SYMMETRY PartSymmetry
INVARIANTS
    TypeOK
    NeverRefundsWhatItPaid
    OneLegPerPart
    PaidIsRemembered
    NextBlockCollects
    NextBlockRefunds
CHECK_DEADLOCK FALSE
