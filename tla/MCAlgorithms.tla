---------------------------- MODULE MCAlgorithms ----------------------------
(***************************************************************************)
(* The two parts that are algorithms rather than processes, on all small   *)
(* inputs: the readers of the queue's log on every short file, and the     *)
(* retry loop on every small configuration.  They have nothing in common,  *)
(* so that one of them rests while the other goes.                         *)
(***************************************************************************)
EXTENDS QueueFold, OracleRetry, TLC

CONSTANTS e1, e2

TwoEntries == {e1, e2}
Symmetry == Permutations(Entries)

\* Small attempts and waits, with every budget being the one that runs out
\* first in some configuration, the caps below and above the first backoff,
\* and the zero values the code accepts.
SmallConfigs ==
    [attempts : 1..3, backoff : {0, 2}, busyAttempts : {1, 2, 4},
     busyBackoff : {0, 3}, busySleep : {0, 2, 8}, busyWait : {0, 1, 5}]

LoopRests == config = (CHOOSE c \in Configs : TRUE) /\ invocations = 0
FileRests == log = <<>> /\ ~torn

BothRest == Init /\ RetryInit

InTurn ==
    /\ BothRest
    /\ [][\/ Next /\ LoopRests /\ UNCHANGED loopVars
          \/ RetryNext /\ FileRests /\ UNCHANGED fileVars]_<<fileVars, loopVars>>
=============================================================================
