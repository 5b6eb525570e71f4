------------------------------ MODULE MCMetrics ------------------------------
EXTENDS Metrics, TLC

CONSTANTS p1, p2

TwoProcs == {p1, p2}
TwoRounds == {1, 2}
AllJobs == {"record", "read", "backfill", "force"}
Both == {TRUE, FALSE}

\* The processes are interchangeable: jobs and rounds are handed out in one
\* order only.
Rank == [record |-> 1, read |-> 2, backfill |-> 3, force |-> 4]
Ordered ==
    /\ Rank[job[p1]] <= Rank[job[p2]]
    /\ job[p2] = "record" => Current(p1) <= Current(p2)
MCInit == Init /\ Ordered
MCSpec == MCInit /\ [][Next]_vars /\ \A p \in Procs : WF_vars(LockStep(p) \/ FileStep(p))
=============================================================================
