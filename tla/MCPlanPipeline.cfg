SPECIFICATION Spec
CONSTANTS
    p1 = p1  p2 = p2  p3 = p3
    gemini = gemini  claude = claude  codex = codex
    NoFile = NoFile
    Torn = Torn
    Nothing = Nothing
    Operator = Operator
    Procs = {p1, p2, p3}
    Routes <- SomeRoutes
    Listing <- SortedSlots
    Sourceless = {codex}
    Deposits = {gemini}
    MaxActive = 2
    MaxKills = 1
SYMMETRY Symmetry
INVARIANTS
    CompleteUnlessMishap
    SynthesisGrounded
PROPERTIES
    AnsweredOnce
