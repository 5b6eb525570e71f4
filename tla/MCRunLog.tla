------------------------------ MODULE MCRunLog ------------------------------
EXTENDS RunLog, TLC

CONSTANTS r1, r2, h1, h2

\* Two commands of the pipeline and the two uses of run-ops.
ToolList == <<"plan-pipeline", "plan-pipeline", "v18-run-ops", "v18-run-ops">>
NumberList == <<"command_1", "command_2", "command_3", "command_4">>
Symmetry == Permutations(Recorders) \cup Permutations(Harnesses)
=============================================================================
