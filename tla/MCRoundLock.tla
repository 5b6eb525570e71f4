----------------------------- MODULE MCRoundLock -----------------------------
EXTENDS RoundLock, TLC

CONSTANTS p1, p2, p3

ThreeProcs == {p1, p2, p3}
Both == {TRUE, FALSE}
Symmetry == Permutations(Procs)
=============================================================================
