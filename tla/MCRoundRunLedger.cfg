SPECIFICATION Spec
CONSTANTS
    p1 = p1  p2 = p2
    tiny = tiny  big = big  other = other
    NoProc = NoProc
    Procs = {p1, p2}
    Strict = {p2}
    Files = {tiny, big}
    Others = {other}
    Bytes <- Size
    Attempts <- SomeAttempts
    Modes = {"wait", "background"}
    MaxFaults = 2
CHECK_DEADLOCK FALSE
PROPERTIES
    SignedOffForGood
