--------------------------- MODULE MCPlanPipeline ---------------------------
EXTENDS PlanPipeline, TLC

CONSTANTS p1, p2, p3, gemini, claude, codex

\* A browser slot, whose result somebody may save, and a slot that has an
\* adapter; perhaps one more that the pipeline has no source for, or no slot.
Route(required, optional) == [first |-> required, required |-> required, optional |-> optional]
SomeRoutes == {Route(<<gemini>>, <<claude>>), Route(<<gemini>>, <<claude, codex>>), Route(<<>>, <<>>)}
SortedSlots == <<claude, codex, gemini>>
Symmetry == Permutations(Procs)
=============================================================================
