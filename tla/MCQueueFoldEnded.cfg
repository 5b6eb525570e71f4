SPECIFICATION Spec
CONSTANTS
    e1 = e1
    e2 = e2
    Entries <- TwoEntries
    NoEntry = NoEntry
    MaxLines = 5
SYMMETRY Symmetry
CHECK_DEADLOCK FALSE
PROPERTY EndedStays
