----------------------------- MODULE MCQueueFold -----------------------------
EXTENDS QueueFold, TLC

CONSTANTS e1, e2

TwoEntries == {e1, e2}
Symmetry == Permutations(Entries)
=============================================================================
