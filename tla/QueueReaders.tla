---------------------------- MODULE QueueReaders ----------------------------
(***************************************************************************)
(* The readers of the queue's log in lib/queue.sh and apr, in the code's   *)
(* own line-by-line form, of the file as it is.  The code has the fold     *)
(* five times (derive, its fallback in bash, status_summary, next_queued,  *)
(* apr_queue_state_json); they have to agree, with each other and with the *)
(* recursion-free definitions of QueueLog that the model of the queue uses.*)
(***************************************************************************)
EXTENDS QueueLog

CONSTANT NoEntry    \* no entry is selected

VARIABLES
    log,    \* the newline-terminated lines of the events file
    torn    \* the file ends in a partial line

fileVars == <<log, torn>>

\* status_summary writes the rule for one line differently from derive.
SummaryStep(prev, k) ==
    CASE k = "enqueue" -> "queued"
      [] k = "start"   -> IF prev \in Terminal THEN prev ELSE "running"
      [] k = "finish"  -> IF prev # "canceled" THEN "done" ELSE "canceled"
      [] k = "fail"    -> IF prev # "canceled" THEN "failed" ELSE "canceled"
      [] k = "cancel"  -> "canceled"

\* by_id of status_summary and of apr_queue_state_json after the whole log.
ById(s) ==
    LET by_id[i \in 0..Len(s)] ==
            IF i = 0 THEN [e \in Entries |-> "unknown"]
            ELSE IF s[i] = Garbage THEN by_id[i-1]
            ELSE [by_id[i-1] EXCEPT ![s[i].entry] = SummaryStep(@, s[i].kind)]
    IN by_id[Len(s)]

\* What derive does without python3: a loop of bash over the lines, which knows
\* a line by the texts of its entry_id and of its event.  It parses nothing, so
\* that it also reads what is left of a line that was cut short: it is used
\* here on undamaged files only.
FallbackStepReviving(s, k) ==
    CASE k = "enqueue" -> "queued"
      [] k = "start"   -> IF s \notin {"done", "canceled"} THEN "running" ELSE s
      [] k = "finish"  -> IF s # "canceled" THEN "done" ELSE s
      [] k = "fail"    -> IF s # "canceled" THEN "failed" ELSE s
      [] k = "cancel"  -> "canceled"

FallbackStep(s, k) ==
    CASE k = "enqueue" -> "queued"
      [] k = "start"   -> IF s \notin {"done", "failed", "canceled"} THEN "running" ELSE s
      [] k = "finish"  -> IF s # "canceled" THEN "done" ELSE s
      [] k = "fail"    -> IF s # "canceled" THEN "failed" ELSE s
      [] k = "cancel"  -> "canceled"

Fallback(s, e) ==
    LET status[i \in 0..Len(s)] ==
            IF i = 0 THEN "unknown"
            ELSE IF s[i].entry = e THEN FallbackStep(status[i-1], s[i].kind)
            ELSE status[i-1]
    IN status[Len(s)]

Lists(q, e) == \E i \in DOMAIN q : q[i] = e

\* The order in which next_queued meets the ids for the last, or for the first,
\* time (a wrong variant, and the code's).
OrderLatest(s) ==
    LET order[i \in 0..Len(s)] ==
            IF i = 0 THEN <<>>
            ELSE IF s[i] = Garbage THEN order[i-1]
            ELSE Append(SelectSeq(order[i-1], LAMBDA e : e # s[i].entry), s[i].entry)
    IN order[Len(s)]

Order(s) ==
    LET order[i \in 0..Len(s)] ==
            IF i = 0 THEN <<>>
            ELSE IF s[i] = Garbage \/ Lists(order[i-1], s[i].entry) THEN order[i-1]
            ELSE Append(order[i-1], s[i].entry)
    IN order[Len(s)]

\* The first of them that the log leaves queued.
NextQueued(s, t) ==
    LET order == Order(s)
        queued == {i \in DOMAIN order : Fold(s, order[i]) = "queued"}
    IN IF Unreadable(s, t) \/ queued = {} THEN NoEntry
       ELSE order[CHOOSE i \in queued : \A j \in queued : i <= j]

-----------------------------------------------------------------------------
(* Properties. *)

\* No append was cut short: nothing repairs the end of the file, so that a
\* partial line swallows the next event (queue.sh:97).
Intact == ~torn /\ \A i \in DOMAIN log : log[i] # Garbage

\* The readers agree, and with the reference: the line-by-line folds of derive,
\* and of "apr queue status" and status_summary, compute Status of every entry;
\* so does derive without python3 (queue.sh:231-254), if no append was cut short.
ReadersAgree ==
    \A e \in Entries :
        /\ Fold(log, e) = Status(log, e) /\ ById(log)[e] = Status(log, e)
        /\ Intact => Fallback(log, e) = Status(log, e)

\* next_queued prints e exactly when e is the oldest queued entry of a
\* readable log; otherwise it fails.
SelectionIsOldest ==
    \A e \in Entries : NextQueued(log, torn) = e <=> Selected(log, torn, e)

\* What docs/schemas/queue-events.md:122-130 and 217 say of an entry that is
\* done, failed or canceled: later events do not alter its derived status, but
\* for a cancel.  The readers do not see to it (a finish after a fail, or a
\* repeated enqueue, does); the queue does, by never writing such an event.
EndedStays ==
    [][\A e \in Entries : Fold(log, e) \in Terminal =>
          Fold(log', e) \in {Fold(log, e), "canceled"}]_fileVars

\* Readers tolerate what a crash in the middle of an append leaves: the partial
\* line is ignored (queue-events.md:159, 171-175, 193 and 216), so that no reader
\* of a file that only apr wrote stops at a line it cannot parse.
AlwaysLegible == ~Unreadable(log, torn)
=============================================================================
