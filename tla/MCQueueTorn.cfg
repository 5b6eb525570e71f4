SPECIFICATION Spec
CONSTANTS
    c1 = c1  c2 = c2  r1 = r1  r2 = r2  e1 = e1  e2 = e2  e3 = e3
    NoEntry = NoEntry
    NoProc = NoProc
    Clients <- TwoClients
    Runners <- TwoRunners
    Entries <- ThreeEntries
    MaxCancels = 0
    MaxFaults = 1
    MaxChoices <- Maxes
    ExitCodes <- Codes
    UseFlock = TRUE
    TornWrites = TRUE
SYMMETRY Symmetry
INVARIANT AlwaysLegible
