SPECIFICATION Spec
CONSTANTS
    r1 = r1  r2 = r2  h1 = h1  h2 = h2
    Garbage = Garbage
    NoFile = NoFile
    Nothing = Nothing
    Recorders = {r1, r2}
    Harnesses = {h1, h2}
    Stages = {"fanout", "synthesis"}
    Tools <- ToolList
    Unnamed <- NumberList
    OpsTools = {"v18-run-ops"}
    MaxEvents = 3
    MaxTears = 2
SYMMETRY Symmetry
CHECK_DEADLOCK FALSE
INVARIANT EachRunItsLog
