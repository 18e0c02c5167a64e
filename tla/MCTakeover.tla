----------------------------- MODULE MCTakeover -----------------------------
EXTENDS Takeover, TLC

\* The guardians are interchangeable: nothing names one of them.
GuardianSymmetry == Permutations(Guardian)

\* So are the devices that only restore.
Symmetry == Permutations(Guardian) \cup Permutations(Device \ {FirstWriter})

=============================================================================
