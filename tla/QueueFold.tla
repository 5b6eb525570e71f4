------------------------------ MODULE QueueFold ------------------------------
(***************************************************************************)
(* Every file of at most MaxLines lines that the readers of the queue may  *)
(* meet: any events of any entries in any order, lines that do not parse,  *)
(* and a torn tail.                                                        *)
(***************************************************************************)
EXTENDS QueueReaders

CONSTANT MaxLines

ASSUME FoldAssumption == MaxLines \in Nat /\ NoEntry \notin Entries

Init == log = <<>> /\ torn = FALSE

\* Anything that may be appended to the file, by apr or by anybody else.
AppendLine ==
    /\ Len(log) < MaxLines
    /\ \E l \in Lines : log' = Append(log, IF torn THEN Garbage ELSE l)
    /\ torn' = FALSE

Tear == ~torn /\ torn' = TRUE /\ UNCHANGED log

Next == AppendLine \/ Tear

Spec == Init /\ [][Next]_fileVars
=============================================================================
