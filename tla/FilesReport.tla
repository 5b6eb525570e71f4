----------------------------- MODULE FilesReport -----------------------------
(***************************************************************************)
(* verify-files-report.py: whether oracle says that it uploaded the files  *)
(* that the run's manifest has, as operators on the lines of its log.  A   *)
(* line says of a path its status and its bytes; everything else in the    *)
(* log is skipped.                                                         *)
(***************************************************************************)
EXTENDS Integers, Sequences

CONSTANTS Files,    \* the files of the manifest that are not skipped
          Others,   \* other paths that oracle may name
          Bytes(_)  \* the sizes of the files

ReportLines == [path : Files \cup Others, status : STRING, bytes : Nat]

\* The lines about a path.
LinesOf(lines, path) == {i \in DOMAIN lines : lines[i].path = path}
Paths(lines) == {lines[i].path : i \in DOMAIN lines}

LastLineKeepingFirst(lines, path) ==
    lines[CHOOSE i \in LinesOf(lines, path) : \A j \in LinesOf(lines, path) : i <= j]

\* reported_map keeps the last line of a path.
LastLine(lines, path) ==
    lines[CHOOSE i \in LinesOf(lines, path) : \A j \in LinesOf(lines, path) : j <= i]

\* Sizes may differ by 5 % or 10 bytes: an empty upload of a tiny file passes.
Differs(bytes, expected) ==
    LET distance == IF bytes > expected THEN bytes - expected ELSE expected - bytes
    IN distance > 10 /\ 20 * distance > expected

Missing(lines) ==
    {f \in Files : f \notin Paths(lines) \/ LastLine(lines, f).status # "success"}
Extra(lines) == Paths(lines) \ Files
SizeMismatches(lines) ==
    {f \in Files \cap Paths(lines) : Differs(LastLine(lines, f).bytes, Bytes(f))}

\* No line at all counts as an oracle without reports, and not as a mismatch.
Trust(lines) ==
    [supported |-> lines # <<>>,
     ok |-> lines = <<>> \/ Missing(lines) \cup Extra(lines) \cup SizeMismatches(lines) = {}]

\* --strict makes a mismatch an error.
VerifierFails(lines, strict) == strict /\ ~Trust(lines).ok
=============================================================================
