SPECIFICATION Spec
CONSTANTS
    p1 = p1  p2 = p2
    gemini = gemini  claude = claude  xai = xai  deepseek = deepseek
    NoFile = NoFile
    Text = Text
    Nothing = Nothing
    Missing = Missing
    Required = {gemini}
    Optional = {claude, xai, deepseek}
    MinOptional = 1
    MinTotal = 2
    Eligible = {"success"}
    Procs = {p1, p2}
    Adapters = {xai, deepseek}
    ProviderOf <- Provider
    CliAdapters = {claude}
    Skew = 1
    Worlds <- SomeWorlds
    MaxTime = 1
    MaxActive = 2
SYMMETRY Symmetry
CHECK_DEADLOCK FALSE
INVARIANTS
    RequiredDelivered
