SPECIFICATION FairSpec
CONSTANTS
    c1 = c1  c2 = c2  r1 = r1  r2 = r2  e1 = e1  e2 = e2  e3 = e3
    NoEntry = NoEntry
    NoProc = NoProc
    Clients <- OneClient
    Runners <- TwoRunners
    Entries <- TwoEntries
    MaxCancels = 0
    MaxFaults = 1
    MaxChoices <- Maxes
    ExitCodes <- NoUsageExit
    UseFlock = FALSE
    TornWrites = TRUE
PROPERTIES
    InvocationReturns
    RoundSettles
INVARIANT AddDurable
