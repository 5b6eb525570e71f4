SPECIFICATION InTurn
CONSTANTS
    e1 = e1
    e2 = e2
    Entries <- TwoEntries
    NoEntry = NoEntry
    MaxLines = 5
    Configs <- SmallConfigs
    BusyCode = 12
SYMMETRY Symmetry
CHECK_DEADLOCK FALSE
INVARIANTS
    ReadersAgree
    SelectionIsOldest
    WithinBudgets
    ReturnHonest
