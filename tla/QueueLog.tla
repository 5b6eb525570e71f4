------------------------------ MODULE QueueLog ------------------------------
(***************************************************************************)
(* The queue event log of one workflow (.apr/queue/<wf>.events.jsonl) and  *)
(* what its readers make of it.  lib/queue.sh never stores a status: every *)
(* reader folds the whole file.  A newline-terminated line of the file is  *)
(* an event record, or Garbage when it does not parse; "torn" says the     *)
(* file ends in bytes without a newline, left by an interrupted write.     *)
(*                                                                         *)
(* The code folds line by line (Fold below).  A status depends     *)
(* only on which events of the entry follow its last enqueue, which is how *)
(* Status states it: that form has no recursion, so it can be used in      *)
(* proofs, and module QueueFold compares the two on every small log.       *)
(***************************************************************************)
EXTENDS Naturals, Sequences

CONSTANT Entries        \* entry ids (q_<uuid4>)

Kinds == {"enqueue", "start", "finish", "fail", "cancel"}

Event(k, e) == [kind |-> k, entry |-> e]
Events == [kind : Kinds, entry : Entries]

\* A newline-terminated line that json.loads rejects.
Garbage == [kind |-> "garbage"]
Lines == Events \cup {Garbage}

Terminal == {"done", "failed", "canceled"}
Statuses == {"unknown", "queued", "running"} \cup Terminal
-----------------------------------------------------------------------------
(* Reading the file. *)

\* An unparseable line raises unless it is the last one of the file; a torn
\* tail counts as a line, so a garbage line in front of it raises too.
Unreadable(log, torn) ==
    \E i \in 1..Len(log) :
        /\ log[i] = Garbage
        /\ i < Len(log) \/ torn

Has(log, k, e) == \E i \in 1..Len(log) : log[i] = Event(k, e)

\* Line i is about e and no later line enqueues e again.
Counts(log, i, e) ==
    /\ i \in 1..Len(log)
    /\ log[i] \in {Event(k, e) : k \in Kinds}
    /\ \A j \in i+1..Len(log) : log[j] # Event("enqueue", e)

Seen(log, k, e) == \E i \in 1..Len(log) : log[i] = Event(k, e) /\ Counts(log, i, e)

\* Line i holds the last verdict of the runner on e.
Verdict(log, k, e) ==
    \E i \in 1..Len(log) :
        /\ log[i] = Event(k, e)
        /\ \A j \in i+1..Len(log) :
               log[j] \notin {Event("finish", e), Event("fail", e), Event("enqueue", e)}

Status(log, e) ==
    IF Seen(log, "cancel", e) THEN "canceled"
    ELSE IF Verdict(log, "finish", e) THEN "done"
    ELSE IF Verdict(log, "fail", e) THEN "failed"
    ELSE IF Seen(log, "start", e) THEN "running"
    ELSE IF Has(log, "enqueue", e) THEN "queued"
    ELSE "unknown"

\* The position of the first line about e: next_queued's "order".
Mentioned(log, e) == \E i \in 1..Len(log) : log[i] \in {Event(k, e) : k \in Kinds}
Before(log, e, f) ==
    \E i \in 1..Len(log) :
        /\ log[i] \in {Event(k, e) : k \in Kinds}
        /\ \A j \in 1..i : log[j] \notin {Event(k, f) : k \in Kinds}

\* Wrong variants: no order; an entry left "running" is taken up again.
SelectedAny(log, torn, e) == ~Unreadable(log, torn) /\ Status(log, e) = "queued"
SelectedAgain(log, torn, e) ==
    ~Unreadable(log, torn) /\ Status(log, e) \in {"queued", "running"}

\* Some entry can be selected, and e is the one next_queued prints.
Selected(log, torn, e) ==
    /\ ~Unreadable(log, torn)
    /\ Status(log, e) = "queued"
    /\ \A f \in Entries \ {e} : Status(log, f) = "queued" => Before(log, e, f)
-----------------------------------------------------------------------------
(* The code's own form: one pass over the lines. *)

\* One line of the fold of apr_lib_queue_derive.
Apply(s, k) ==
    CASE k = "enqueue" -> "queued"
      [] k = "start"   -> IF s \in Terminal THEN s ELSE "running"
      [] k = "finish"  -> IF s = "canceled" THEN s ELSE "done"
      [] k = "fail"    -> IF s = "canceled" THEN s ELSE "failed"
      [] k = "cancel"  -> "canceled"

Fold(log, e) ==
    LET after[i \in 0..Len(log)] ==
            IF i = 0 THEN "unknown"
            ELSE IF log[i] = Garbage THEN after[i-1]
            ELSE IF log[i].entry # e THEN after[i-1]
            ELSE Apply(after[i-1], log[i].kind)
    IN after[Len(log)]
=============================================================================
