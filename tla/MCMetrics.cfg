SPECIFICATION MCSpec
CONSTANTS
    p1 = p1  p2 = p2
    NoProc = NoProc
    OldPid = OldPid
    Procs <- TwoProcs
    Rounds <- TwoRounds
    Jobs <- AllJobs
    Kinds <- Both
    MaxFaults = 1
CHECK_DEADLOCK FALSE
INVARIANTS
    ReportedKept
    ConvergenceGrounded
PROPERTIES
    SoloRunRepairs
    EveryRunEnds
