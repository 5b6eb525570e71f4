SPECIFICATION OneAtATime
CONSTANTS
    a = a  b = b  d = d  c1 = c1  c2 = c2  t = t  e1 = e1  e2 = e2
    NoFile = NoFile
    Nothing = Nothing
    Items = {a, b, d}
    Plans <- SomePlans
    Slug <- Slugs
    Exporters = {e1, e2}
    MaxEdits = 0
CHECK_DEADLOCK FALSE
INVARIANTS
    RetryMakesNoTwins
