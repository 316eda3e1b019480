----------------------- MODULE MCCapabilityRegistry -----------------------
EXTENDS CapabilityRegistry, TLC

CONSTANTS r1, r2, reserved
MCRight == {r1, r2, reserved}
MCKnownRight == {r1, r2}
\* The known rights are interchangeable; the reserved bit is not one of them.
MCSymmetry == Permutations(MCKnownRight)
===========================================================================
