SPECIFICATION Spec
CONSTANTS
    p1 = p1  p2 = p2  p3 = p3
    NoProc = NoProc
    OldPid = OldPid
    Procs <- ThreeProcs
    Kinds <- Both
    MaxInodes = 7
    MaxFaults = 2
SYMMETRY Symmetry
CHECK_DEADLOCK FALSE
INVARIANTS
    ExclusiveUntilBreach
    SignedByOwner
    NeverWedged
