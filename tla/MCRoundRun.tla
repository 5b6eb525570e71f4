----------------------------- MODULE MCRoundRun -----------------------------
EXTENDS RoundRun

CONSTANTS p1, p2, tiny, big, other

Size(f) == IF f = tiny THEN 8 ELSE 400
Line(path, status, bytes) == [path |-> path, status |-> status, bytes |-> bytes]

\* No report; both files; the big one cut, refused and then uploaded by a
\* second attempt, or uploaded and then refused; a file nobody asked for.
SomeAttempts ==
    {<<>>,
     <<Line(tiny, "success", 0), Line(big, "success", 390)>>,
     <<Line(tiny, "success", 8), Line(big, "success", 100)>>,
     <<Line(tiny, "success", 8), Line(big, "failed", 400), Line(big, "success", 400)>>,
     <<Line(tiny, "success", 8), Line(big, "success", 400), Line(big, "failed", 400)>>,
     <<Line(other, "success", 8), Line(tiny, "success", 8), Line(big, "success", 400)>>}
=============================================================================
