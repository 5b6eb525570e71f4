-------------------------------- MODULE Queue --------------------------------
(***************************************************************************)
(* The per-workflow queue: "apr queue add" and "apr queue cancel" by       *)
(* clients, "apr queue run" by runners, all appending to one event log     *)
(* under one lock (lib/queue.sh, cmd_queue_* in apr).                      *)
(*                                                                         *)
(* A process is one invocation of apr.  It waits for the lock, runs its    *)
(* critical section, and gives the lock up; a runner repeats that for one  *)
(* entry after another, and HOLDS THE LOCK while the round it started      *)
(* (a child "apr run") executes.                                           *)
(*                                                                         *)
(* What can go wrong: a lock wait times out; an append fails or is cut     *)
(* short; a process is killed anywhere, and the critical section of a      *)
(* runner may be killed while the round it started lives on, in which case *)
(* that child has inherited the flock.                                     *)
(*                                                                         *)
(* The operators named ...Unchecked, ...Raw, ...Never, ...Nothing and      *)
(* ...Cloexec are wrong variants of the definition that follows them, kept *)
(* to see that a property notices; no action of the model uses them.       *)
(***************************************************************************)
EXTENDS QueueReaders, FiniteSets

CONSTANTS
    Clients,        \* processes that add and cancel
    Runners,        \* processes that run "apr queue run"
    MaxCancels,     \* bound on cancel invocations
    MaxFaults,      \* bound on kills and failed appends
    MaxChoices,     \* the --max values a runner may be given (--once is 1)
    ExitCodes,      \* what the child "apr run" may exit with
    UseFlock,       \* flock is installed; otherwise the mkdir lock is used
    TornWrites,     \* an interrupted append may leave a prefix of its line
    NoProc          \* no process

Procs == Clients \cup Runners

\* Who owns the lock: a process, nobody, the orphaned child of a killed
\* runner, or nobody alive (a lock directory its owner never removed).
Orphan == "orphan"
Abandoned == "abandoned"
Owners == Procs \cup {NoProc, Orphan, Abandoned}

ASSUME QueueAssumption ==
    /\ Clients \cap Runners = {}
    /\ NoEntry \notin Entries
    /\ NoProc \notin Procs
    /\ {Orphan, Abandoned} \cap (Procs \cup {NoProc}) = {}
    /\ MaxCancels \in Nat /\ MaxFaults \in Nat
    /\ MaxChoices \subseteq Nat \ {0}
    /\ ExitCodes \subseteq Nat
    /\ UseFlock \in BOOLEAN /\ TornWrites \in BOOLEAN

VARIABLES
    lock,       \* owner of the lock file (or lock directory)
    pc,         \* where each process is
    op,         \* what each process was invoked for: "add", "cancel", "run"
    entry,      \* the entry each process is working on
    rc,         \* return code of the critical section
    max,        \* a runner's --max
    done,       \* a runner's "processed" so far
    report,     \* what the last invocation of a process told its user
    orphans,    \* entries whose round outlived the runner that started it
    issued,     \* entry ids ever generated
    spawned,    \* how often the round of an entry was started
    cancels,    \* cancel invocations so far
    faults      \* kills and failed appends so far

procVars  == <<pc, op, entry, rc, max, done, report>>
ghostVars == <<issued, spawned, cancels, faults>>
vars == <<log, torn, lock, pc, op, entry, rc, max, done, report, orphans,
          issued, spawned, cancels, faults>>

Ops  == {"none", "add", "cancel", "run"}
\* "wait" for the lock; "locked": in the critical section; "started": the
\* start event is written; "running": the child executes; "unlock": the
\* critical section returned.
PCs  == {"idle", "wait", "locked", "started", "running", "unlock"}
Reports == {"none", "ok", "busy", "notfound", "empty", "failed", "drained"}

TypeOK ==
    /\ log \in Seq(Lines) /\ torn \in BOOLEAN
    /\ lock \in Owners
    /\ pc \in [Procs -> PCs] /\ op \in [Procs -> Ops]
    /\ entry \in [Procs -> Entries \cup {NoEntry}]
    /\ rc \in [Procs -> Nat] /\ max \in [Procs -> Nat] /\ done \in [Procs -> Nat]
    /\ report \in [Procs -> Reports]
    /\ orphans \subseteq Entries /\ issued \subseteq Entries
    /\ spawned \in [Entries -> Nat]
    /\ cancels \in Nat /\ faults \in Nat

Init ==
    /\ log = <<>> /\ torn = FALSE
    /\ lock = NoProc
    /\ pc = [p \in Procs |-> "idle"] /\ op = [p \in Procs |-> "none"]
    /\ entry = [p \in Procs |-> NoEntry]
    /\ rc = [p \in Procs |-> 0]
    /\ max = [p \in Procs |-> 0] /\ done = [p \in Procs |-> 0]
    /\ report = [p \in Procs |-> "none"]
    /\ orphans = {} /\ issued = {}
    /\ spawned = [e \in Entries |-> 0]
    /\ cancels = 0 /\ faults = 0
-----------------------------------------------------------------------------
(* apr_lib_queue_append: printf '%s\n' >> file.                            *)

\* The append succeeds.  Nothing looks at the end of the file first, so a
\* torn tail and the new line become one line that does not parse.
Append1(line) ==
    /\ log' = Append(log, IF torn THEN Garbage ELSE line)
    /\ torn' = FALSE
    /\ UNCHANGED faults

\* The append returns 1: nothing, or only a prefix of the line, was written.
AppendFails ==
    /\ faults < MaxFaults /\ faults' = faults + 1
    /\ torn' \in (IF TornWrites THEN {torn, TRUE} ELSE {torn})
    /\ UNCHANGED log

\* The critical section of p returns r once its append is over.
Appends(p, line, r) ==
    /\ \/ Append1(line) /\ rc' = [rc EXCEPT ![p] = r]
       \/ AppendFails /\ rc' = [rc EXCEPT ![p] = 1]
    /\ pc' = [pc EXCEPT ![p] = "unlock"]
-----------------------------------------------------------------------------
(* Invocations. *)

BeginAddUnchecked(p, e) ==
    /\ pc[p] = "idle"
    /\ issued' = issued \cup {e}
    /\ pc' = [pc EXCEPT ![p] = "wait"] /\ op' = [op EXCEPT ![p] = "add"]
    /\ entry' = [entry EXCEPT ![p] = e]
    /\ report' = [report EXCEPT ![p] = "none"]
    /\ UNCHANGED <<fileVars, lock, rc, max, done, orphans, spawned, cancels, faults>>

\* cmd_queue_add: the id is a fresh uuid.
BeginAdd(p, e) ==
    /\ pc[p] = "idle" /\ e \notin issued
    /\ issued' = issued \cup {e}
    /\ pc' = [pc EXCEPT ![p] = "wait"] /\ op' = [op EXCEPT ![p] = "add"]
    /\ entry' = [entry EXCEPT ![p] = e]
    /\ report' = [report EXCEPT ![p] = "none"]
    /\ UNCHANGED <<fileVars, lock, rc, max, done, orphans, spawned, cancels, faults>>

\* cmd_queue_cancel: the id comes from the user, so any id will do.
BeginCancel(p, e) ==
    /\ pc[p] = "idle"
    /\ cancels < MaxCancels /\ cancels' = cancels + 1
    /\ pc' = [pc EXCEPT ![p] = "wait"] /\ op' = [op EXCEPT ![p] = "cancel"]
    /\ entry' = [entry EXCEPT ![p] = e]
    /\ report' = [report EXCEPT ![p] = "none"]
    /\ UNCHANGED <<fileVars, lock, rc, max, done, orphans, issued, spawned, faults>>

\* cmd_queue_run --max m.
BeginRun(p, m) ==
    /\ pc[p] = "idle"
    /\ pc' = [pc EXCEPT ![p] = "wait"] /\ op' = [op EXCEPT ![p] = "run"]
    /\ entry' = [entry EXCEPT ![p] = NoEntry]
    /\ max' = [max EXCEPT ![p] = m] /\ done' = [done EXCEPT ![p] = 0]
    /\ report' = [report EXCEPT ![p] = "none"]
    /\ UNCHANGED <<fileVars, lock, rc, orphans, ghostVars>>
-----------------------------------------------------------------------------
(* apr_lib_queue_with_lock. *)

AcquireUnchecked(p) ==
    /\ pc[p] = "wait"
    /\ lock' = p
    /\ pc' = [pc EXCEPT ![p] = "locked"]
    /\ UNCHANGED <<fileVars, op, entry, rc, max, done, report, orphans, ghostVars>>

Acquire(p) ==
    /\ pc[p] = "wait" /\ lock = NoProc
    /\ lock' = p
    /\ pc' = [pc EXCEPT ![p] = "locked"]
    /\ UNCHANGED <<fileVars, op, entry, rc, max, done, report, orphans, ghostVars>>

ClientReportRaw(p, r) == IF r = 0 THEN "ok" ELSE "error"

\* What the command tells its user for return code r of the locked section.
\* After a cancel it reads the log once more, and fails if it cannot.
ClientReport(p, r) ==
    CASE r = 0 -> IF op[p] = "cancel" /\ Unreadable(log, torn) THEN "failed" ELSE "ok"
      [] r = 44 /\ op[p] = "cancel" -> "notfound"
      [] OTHER -> "busy"

ClientReturns(p, r) ==
    /\ pc' = [pc EXCEPT ![p] = "idle"]
    /\ report' = [report EXCEPT ![p] = ClientReport(p, r)]
    /\ rc' = [rc EXCEPT ![p] = 0]
    /\ UNCHANGED <<max, done>>

\* The loop of cmd_queue_run ends when 2 is taken for an empty queue, when
\* anything else but 0 is taken for a failed round, and after max rounds.
RunnerReport(r) ==
    CASE r = 0 -> "drained"
      [] r = 2 -> "empty"
      [] OTHER -> "failed"

RunnerReturns(p, r) ==
    /\ rc' = [rc EXCEPT ![p] = 0]
    /\ IF r = 0 /\ done[p] + 1 < max[p]
       THEN /\ pc' = [pc EXCEPT ![p] = "wait"]
            /\ done' = [done EXCEPT ![p] = @ + 1]
            /\ UNCHANGED <<max, report>>
       ELSE /\ pc' = [pc EXCEPT ![p] = "idle"]
            /\ report' = [report EXCEPT ![p] = RunnerReport(r)]
            /\ max' = [max EXCEPT ![p] = 0] /\ done' = [done EXCEPT ![p] = 0]

Returns(p, r) ==
    \/ op[p] = "run" /\ RunnerReturns(p, r)
    \/ op[p] # "run" /\ ClientReturns(p, r)

TimeoutNever(p) ==
    /\ pc[p] = "wait" /\ lock # NoProc /\ FALSE
    /\ UNCHANGED vars

\* 30 seconds went by while somebody else owned the lock.
Timeout(p) ==
    /\ pc[p] = "wait" /\ lock # NoProc
    /\ Returns(p, 1)
    /\ UNCHANGED <<fileVars, lock, op, entry, orphans, ghostVars>>

\* The subshell exits and fd 9 closes, or the lock directory is removed.
Release(p) ==
    /\ pc[p] = "unlock"
    /\ lock' = NoProc
    /\ Returns(p, rc[p])
    /\ UNCHANGED <<fileVars, op, entry, orphans, ghostVars>>
-----------------------------------------------------------------------------
(* Critical sections. *)

AddLockedUnchecked(p) ==
    /\ pc[p] = "locked" /\ op[p] = "add"
    /\ Append1(Event("enqueue", entry[p])) \/ AppendFails
    /\ pc' = [pc EXCEPT ![p] = "unlock"]
    /\ UNCHANGED <<lock, op, entry, rc, max, done, report, orphans, issued, spawned, cancels>>

AddLocked(p) ==
    /\ pc[p] = "locked" /\ op[p] = "add"
    /\ Appends(p, Event("enqueue", entry[p]), 0)
    /\ UNCHANGED <<lock, op, entry, max, done, report, orphans, issued, spawned, cancels>>

\* _apr_queue_cancel_locked: only an id that derives to "unknown" is refused.
\* When the log cannot be read the derived status is empty, not "unknown".
CancelUnknown(p) ==
    /\ pc[p] = "locked" /\ op[p] = "cancel"
    /\ ~Unreadable(log, torn) /\ Status(log, entry[p]) = "unknown"
    /\ rc' = [rc EXCEPT ![p] = 44]
    /\ pc' = [pc EXCEPT ![p] = "unlock"]
    /\ UNCHANGED <<fileVars, lock, op, entry, max, done, report, orphans, ghostVars>>

CancelLocked(p) ==
    /\ pc[p] = "locked" /\ op[p] = "cancel"
    /\ Unreadable(log, torn) \/ Status(log, entry[p]) # "unknown"
    /\ Appends(p, Event("cancel", entry[p]), 0)
    /\ UNCHANGED <<lock, op, entry, max, done, report, orphans, issued, spawned, cancels>>

\* _apr_lib_queue_run_once_locked, no entry selected: every failure of
\* next_queued is taken for an empty queue.
RunNothing(p) ==
    /\ pc[p] = "locked" /\ op[p] = "run"
    /\ \A e \in Entries : ~Selected(log, torn, e)
    /\ entry' = [entry EXCEPT ![p] = NoEntry]
    /\ rc' = [rc EXCEPT ![p] = 2]
    /\ pc' = [pc EXCEPT ![p] = "unlock"]
    /\ UNCHANGED <<fileVars, lock, op, max, done, report, orphans, ghostVars>>

RunSelect(p, e) ==
    /\ pc[p] = "locked" /\ op[p] = "run"
    /\ Selected(log, torn, e)
    /\ entry' = [entry EXCEPT ![p] = e]
    /\ \/ /\ Append1(Event("start", e))
          /\ pc' = [pc EXCEPT ![p] = "started"]
          /\ UNCHANGED rc
       \/ /\ AppendFails
          /\ rc' = [rc EXCEPT ![p] = 1]
          /\ pc' = [pc EXCEPT ![p] = "unlock"]
    /\ UNCHANGED <<lock, op, max, done, report, orphans, issued, spawned, cancels>>

\* The child "apr run <round> -w <workflow> --wait" is started.
Spawn(p) ==
    /\ pc[p] = "started"
    /\ pc' = [pc EXCEPT ![p] = "running"]
    /\ spawned' = [spawned EXCEPT ![entry[p]] = @ + 1]
    /\ UNCHANGED <<fileVars, lock, op, entry, rc, max, done, report, orphans,
                   issued, cancels, faults>>

RunRecordNothing(p, c) ==
    /\ pc[p] = "running"
    /\ rc' = [rc EXCEPT ![p] = c]
    /\ pc' = [pc EXCEPT ![p] = "unlock"]
    /\ UNCHANGED <<fileVars, lock, op, entry, max, done, report, orphans, ghostVars>>

\* The child exits with code c and the verdict is recorded.
RunRecord(p, c) ==
    /\ pc[p] = "running"
    /\ Appends(p, Event(IF c = 0 THEN "finish" ELSE "fail", entry[p]), c)
    /\ UNCHANGED <<lock, op, entry, max, done, report, orphans, issued, spawned, cancels>>
-----------------------------------------------------------------------------
(* Kills. *)

\* flock dies with its last open descriptor; a lock directory does not.
LockAfterDeath(p) ==
    IF lock # p THEN lock ELSE IF UseFlock THEN NoProc ELSE Abandoned

\* p is where its next step is an append.
Writing(p) ==
    \/ pc[p] = "running"
    \/ /\ pc[p] = "locked"
       /\ \/ op[p] = "add"
          \/ op[p] = "cancel" /\ (Unreadable(log, torn) \/ Status(log, entry[p]) # "unknown")
          \/ op[p] = "run" /\ \E e \in Entries : Selected(log, torn, e)

\* The process and everything below it is gone (Ctrl-C, power loss), perhaps
\* in the middle of an append.
Kill(p) ==
    /\ pc[p] # "idle" /\ faults < MaxFaults
    /\ faults' = faults + 1
    /\ torn' \in (IF TornWrites /\ Writing(p) THEN {torn, TRUE} ELSE {torn})
    /\ lock' = LockAfterDeath(p)
    /\ pc' = [pc EXCEPT ![p] = "idle"] /\ op' = [op EXCEPT ![p] = "none"]
    /\ entry' = [entry EXCEPT ![p] = NoEntry]
    /\ rc' = [rc EXCEPT ![p] = 0]
    /\ max' = [max EXCEPT ![p] = 0] /\ done' = [done EXCEPT ![p] = 0]
    /\ UNCHANGED <<log, report, orphans, issued, spawned, cancels>>

\* A surviving round keeps the fd 9 it inherited; a lock directory has no heir.
OrphanedLockCloexec == IF UseFlock THEN NoProc ELSE Abandoned
OrphanedLock == IF UseFlock THEN Orphan ELSE Abandoned

\* Only the locked subshell dies and the round it started goes on.  The
\* runner sees 137.
KillSubshell(p) ==
    /\ pc[p] = "running" /\ faults < MaxFaults
    /\ faults' = faults + 1
    /\ orphans' = orphans \cup {entry[p]}
    /\ lock' = OrphanedLock
    /\ Returns(p, 137)
    /\ UNCHANGED <<fileVars, op, entry, issued, spawned, cancels>>

OrphanExit(e) ==
    /\ e \in orphans
    /\ orphans' = orphans \ {e}
    /\ lock' = IF lock = Orphan THEN NoProc ELSE lock
    /\ UNCHANGED <<fileVars, procVars, ghostVars>>
-----------------------------------------------------------------------------
ClientStep(p) ==
    \/ AddLocked(p) \/ CancelUnknown(p) \/ CancelLocked(p)

RunnerStep(p) ==
    \/ RunNothing(p)
    \/ \E e \in Entries : RunSelect(p, e)
    \/ Spawn(p)
    \/ \E c \in ExitCodes : RunRecord(p, c)

LockStep(p) == Acquire(p) \/ Timeout(p) \/ Release(p)

Invoke ==
    \/ \E p \in Clients, e \in Entries : BeginAdd(p, e) \/ BeginCancel(p, e)
    \/ \E p \in Runners, m \in MaxChoices : BeginRun(p, m)

Next ==
    \/ Invoke
    \/ \E p \in Procs : LockStep(p) \/ ClientStep(p) \/ RunnerStep(p)
    \/ \E p \in Procs : Kill(p) \/ KillSubshell(p)
    \/ \E e \in Entries : OrphanExit(e)

Spec == Init /\ [][Next]_vars

\* Every process goes on taking steps, and every round that was started ends:
\* apr is a sequential script, flock gives up after 30 s, and oracle has a
\* timeout of its own.  Nobody has to invoke apr again, and no kill is due.
Fairness ==
    /\ \A p \in Procs : WF_vars(LockStep(p) \/ ClientStep(p) \/ RunnerStep(p))
    /\ \A e \in Entries : WF_vars(OrphanExit(e))

FairSpec == Spec /\ Fairness
-----------------------------------------------------------------------------
(* Properties. *)

\* The entries whose round is under way: started by a live runner, or left
\* behind by one whose critical section was killed.
Active == {entry[p] : p \in {q \in Runners : pc[q] \in {"started", "running"}}} \cup orphans

\* At most one round of the workflow executes at any time, whichever runner
\* started it and even when that runner is dead: the lock is held across the
\* round, and an orphaned round keeps the descriptor (queue.sh:113-123).
SerialRounds ==
    /\ \A p, q \in Runners :
           pc[p] \in {"started", "running"} /\ pc[q] \in {"started", "running"} => p = q
    /\ \A p \in Runners : pc[p] \in {"started", "running"} => orphans = {}
    /\ \A e, f \in orphans : e = f

\* The round of an entry is started at most once, across competing runners,
\* kills at any point, failed appends, cancels and later invocations: the
\* start event is in the log before the child exists (queue.sh:509-522).
RunOnce == \A e \in Entries : spawned[e] <= 1

\* An "add" that reported success is seen by every later reader, whatever was
\* killed, timed out or failed before or after it: only an append that was cut
\* short can lose it.
AddDurable ==
    Intact => \A p \in Clients : op[p] = "add" /\ report[p] = "ok" =>
                Status(log, entry[p]) # "unknown"

\* A child is only ever started for an entry that every reader derives as
\* running at that moment: no cancel, verdict or other runner got in between
\* selecting the entry and starting its round.
SpawnsOnlyRunning ==
    [][\A e \in Entries : spawned'[e] > spawned[e] => Status(log, e) = "running"]_vars

\* Every invocation of apr comes back to its user.
InvocationReturns == \A p \in Procs : pc[p] # "idle" ~> pc[p] = "idle"

\* An entry whose round was started gets a verdict (or is canceled by its
\* user later), unless a kill or a failed append intervened.
RoundSettles ==
    \A e \in Entries :
        Status(log, e) = "running" ~> Status(log, e) \in Terminal \/ faults > 0

\* What the queue promises to its users: module QueueContract.
Contract == INSTANCE QueueContract WITH
    status <- [e \in Entries |-> Status(log, e)],
    ahead  <- [e \in Entries |-> {f \in Entries \ {e} :
                  Mentioned(log, e) /\ Mentioned(log, f) /\ Before(log, f, e)}],
    active <- Active

\* The log, the lock and the processes implement that promise.
ImplementsContract == Contract!Spec
=============================================================================
