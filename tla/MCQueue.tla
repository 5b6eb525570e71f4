------------------------------- MODULE MCQueue -------------------------------
(* Small instances of Queue for TLC. *)
EXTENDS Queue, TLC

CONSTANTS c1, c2, r1, r2, e1, e2, e3

TwoClients == {c1, c2}
OneClient  == {c1}
TwoRunners == {r1, r2}
TwoEntries   == {e1, e2}
ThreeEntries == {e1, e2, e3}

Codes == {0, 1, 2}
NoUsageExit == {0, 1}
Maxes == {1, 3}

Symmetry == Permutations(Clients) \cup Permutations(Runners) \cup Permutations(Entries)
=============================================================================
