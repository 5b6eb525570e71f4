------------------------------- MODULE Metrics -------------------------------
(***************************************************************************)
(* The analytics file of one workflow (metrics_* and                       *)
(* update_convergence_metrics in apr): recorders (the end of a foreground  *)
(* round), readers (stats, dashboard) and backfills share one JSON file.   *)
(*                                                                         *)
(* Rounds and convergence are written by read-modify-write under a lock:   *)
(* flock, or a file created with O_EXCL that holds the owner's pid.  What  *)
(* is NOT under the lock: creating and migrating the file on behalf of a   *)
(* reader or a backfill, the reset of "backfill --force", and reading the  *)
(* rounds that a convergence is then computed from.                        *)
(*                                                                         *)
(* The file is replaced by rename, so a write is one step.  Its contents   *)
(* are the rounds it has and the rounds its convergence was computed from. *)
(* Definitions marked "wrong variant" are never used by an action.         *)
(***************************************************************************)
EXTENDS Naturals, FiniteSetsExt

CONSTANTS
    Procs,      \* invocations of apr, each with one job
    Rounds,     \* the rounds that have an output file
    Jobs,       \* subset of {"record", "read", "backfill", "force"}
    Kinds,      \* {TRUE}: flock is installed, {FALSE}: it is not
    MaxFaults,  \* bound on kills and failed writes
    NoProc, OldPid  \* nobody; a process that died long ago

ASSUME MetricsAssumption ==
    /\ Rounds \subseteq Nat /\ MaxFaults \in Nat /\ Kinds \subseteq BOOLEAN
    /\ Jobs \subseteq {"record", "read", "backfill", "force"}
    /\ NoProc \notin Procs /\ OldPid \notin Procs /\ NoProc # OldPid

VARIABLES
    useFlock,   \* which branch of metrics_lock this host takes
    job, todo,  \* what each process is for, and the rounds it has to write
    stage, pc,  \* the function it is in, and where in it
    buf,        \* the JSON it holds in a variable
    seen,       \* the rounds it computes the convergence from
    file,       \* metrics.json
    owner,      \* the process that holds the flock
    note,       \* the lock file of the fallback: who created and signed it
    suspect,    \* the pid a process has read in it, about to look for its owner
    reported,   \* rounds whose write was reported as a success
    swallowed,  \* rounds whose write failed without being noticed
    erased,     \* an unlocked write removed rounds
    breach,     \* a lock file was taken from a live owner
    solo,       \* the process that had the metrics to itself, without a failure
    faults

jobVars   == <<useFlock, job>>
lockVars  == <<owner, note, suspect, breach>>
ghostVars == <<reported, swallowed, erased, solo, faults>>
vars == <<useFlock, job, todo, stage, pc, buf, seen, file, owner, note, suspect,
          reported, swallowed, erased, breach, solo, faults>>

\* "old" and "new" are the schema's versions; "broken" is no JSON at all.
Files == [version : {"none", "broken", "old", "new"}, rounds : SUBSET Rounds, conv : SUBSET Rounds]
NoFile == [version |-> "none", rounds |-> {}, conv |-> {}]
Broken == [version |-> "broken", rounds |-> {}, conv |-> {}]
Default == [version |-> "new", rounds |-> {}, conv |-> {}]

NoNote == [by |-> NoProc, signed |-> FALSE]
Notes == [by : Procs \cup {OldPid}, signed : BOOLEAN] \cup {NoNote}

\* "init": metrics_init of a backfill; "wipe": its reset; "round":
\* metrics_write_round; "read": metrics_read of calculate_convergence;
\* "conv": metrics_write_convergence; "show": metrics_read for display.
Locked == {"round", "conv"}
Stages == Locked \cup {"none", "init", "wipe", "read", "show"}
\* "look" and "put" are metrics_init, "load" and "store" the read and the
\* write, "unlock" and "abort" the return with and without success.
Ended == {"over", "dead"}
PCs == {"idle", "lock", "sign", "stale", "look", "put", "load", "store",
        "unlock", "abort"} \cup Ended

TypeOK ==
    /\ useFlock \in BOOLEAN /\ job \in [Procs -> Jobs]
    /\ todo \in [Procs -> SUBSET Rounds]
    /\ stage \in [Procs -> Stages] /\ pc \in [Procs -> PCs]
    /\ buf \in [Procs -> Files] /\ seen \in [Procs -> SUBSET Rounds]
    /\ file \in Files /\ owner \in Procs \cup {NoProc} /\ note \in Notes
    /\ suspect \in [Procs -> Procs \cup {NoProc, OldPid}]
    /\ reported \subseteq Rounds /\ swallowed \subseteq Rounds
    /\ erased \in BOOLEAN /\ breach \in BOOLEAN
    /\ solo \subseteq Procs /\ faults \in Nat

\* A file of an older version or a current one, whose convergence may be behind,
\* or what was left of one, or none; and perhaps the lock file of a process that died.
Init ==
    /\ useFlock \in Kinds
    /\ job \in [Procs -> Jobs]
    /\ todo \in [Procs -> SUBSET Rounds]
    /\ \A p \in Procs : CASE job[p] = "record" -> \E r \in Rounds : todo[p] = {r}
                          [] job[p] = "read"   -> todo[p] = {}
                          [] OTHER             -> todo[p] = Rounds
    /\ stage = [p \in Procs |-> "none"] /\ pc = [p \in Procs |-> "idle"]
    /\ buf = [p \in Procs |-> NoFile] /\ seen = [p \in Procs |-> {}]
    /\ file \in {NoFile, Broken}
                \cup {f \in Files : f.version \in {"old", "new"} /\ f.conv \subseteq f.rounds}
    /\ owner = NoProc
    /\ note \in (IF useFlock THEN {NoNote}
                 ELSE {NoNote, [by |-> OldPid, signed |-> TRUE]})
    /\ suspect = [p \in Procs |-> NoProc]
    /\ reported = {} /\ swallowed = {} /\ erased = FALSE /\ breach = FALSE
    /\ solo = {} /\ faults = 0

Active == {p \in Procs : pc[p] \notin Ended \cup {"idle"}}
Alive(p) == p \in Active
Stale(p) == suspect[p] # NoProc /\ ~Alive(suspect[p])

Goto(p, s, l) ==
    /\ stage' = [stage EXCEPT ![p] = s]
    /\ pc' = [pc EXCEPT ![p] = l]
Step(p, l) == Goto(p, stage[p], l)
Enter(p, s) == Goto(p, s, IF s \in Locked THEN "lock" ELSE "look")
Fault == faults < MaxFaults /\ faults' = faults + 1
Current(p) == Min(todo[p])
-----------------------------------------------------------------------------
(* Jobs. *)

\* "stats" and "dashboard" want a file, "backfill" wants none, unless --force
\* resets the one there is.
Begin(p) ==
    /\ pc[p] = "idle"
    /\ solo' = IF Active = {} THEN {p} ELSE {}
    /\ \/ job[p] = "record" /\ Enter(p, "round") /\ UNCHANGED buf
       \/ /\ job[p] = "read"
          /\ IF file = NoFile THEN Goto(p, "none", "over") ELSE Enter(p, "show")
          /\ UNCHANGED buf
       \/ /\ job[p] = "backfill"
          /\ IF file = NoFile THEN Enter(p, "init") ELSE Goto(p, "none", "over")
          /\ UNCHANGED buf
       \/ /\ job[p] = "force"
          /\ IF file = NoFile
             THEN Enter(p, "init") /\ UNCHANGED buf
             ELSE Goto(p, "wipe", "put") /\ buf' = [buf EXCEPT ![p] = Default]
    /\ UNCHANGED <<jobVars, todo, seen, file, lockVars, reported, swallowed, erased, faults>>

\* Wrong variant: the convergence is computed before the round is written.
AdvanceEarly(p) ==
    LET s == stage[p]
        left == IF s = "round" THEN todo[p] \ {Current(p)} ELSE todo[p]
    IN /\ todo' = [todo EXCEPT ![p] = left]
       /\ \/ s \in {"init", "wipe", "round"} /\ left # {} /\ Enter(p, "round")
          \/ s \in {"init", "wipe", "round"} /\ left = {} /\ Enter(p, "conv")
          \/ s = "read" /\ Enter(p, "conv")
          \/ s = "conv" /\ job[p] = "record" /\ Enter(p, "show")
          \/ s = "conv" /\ job[p] # "record" /\ Goto(p, "none", "over")
          \/ s = "show" /\ Goto(p, "none", "over")

\* What follows the function p is in: all its rounds one by one, then the
\* convergence, and, after a round, a look at its confidence.
Advance(p) ==
    LET s == stage[p]
        left == IF s = "round" THEN todo[p] \ {Current(p)} ELSE todo[p]
    IN /\ todo' = [todo EXCEPT ![p] = left]
       /\ \/ s \in {"init", "wipe", "round"} /\ left # {} /\ Enter(p, "round")
          \/ s \in {"init", "wipe", "round"} /\ left = {} /\ Enter(p, "read")
          \/ s = "read" /\ Enter(p, "conv")
          \/ s = "conv" /\ job[p] = "record" /\ Enter(p, "show")
          \/ s = "conv" /\ job[p] # "record" /\ Goto(p, "none", "over")
          \/ s = "show" /\ Goto(p, "none", "over")

\* What follows where it fails.  A round is warned of and the next one taken.
\* Anything else ends the job, under "set -e" or by its return; but "backfill
\* --all" masks errexit and goes on.
Fail(p) ==
    \/ stage[p] \in {"init", "wipe", "round"} /\ Advance(p)
    \/ stage[p] # "round" /\ Goto(p, "none", "over") /\ UNCHANGED todo
-----------------------------------------------------------------------------
(* metrics_lock and metrics_unlock. *)

\* Wrong variant: nobody waits for the owner.
FlockShared(p) ==
    /\ useFlock /\ pc[p] = "lock"
    /\ owner' = p
    /\ Step(p, "look")
    /\ UNCHANGED <<jobVars, todo, buf, seen, file, note, suspect, breach, ghostVars>>

\* flock -x blocks.
Flock(p) ==
    /\ useFlock /\ pc[p] = "lock" /\ owner = NoProc
    /\ owner' = p
    /\ Step(p, "look")
    /\ UNCHANGED <<jobVars, todo, buf, seen, file, note, suspect, breach, ghostVars>>

\* set -C; echo $$ > file: create it, then write the pid.
Create(p) ==
    /\ ~useFlock /\ pc[p] = "lock" /\ note = NoNote /\ ~Stale(p)
    /\ note' = [by |-> p, signed |-> FALSE]
    /\ suspect' = [suspect EXCEPT ![p] = NoProc]
    /\ Step(p, "sign")
    /\ UNCHANGED <<jobVars, todo, buf, seen, file, owner, breach, ghostVars>>

Sign(p) ==
    /\ pc[p] = "sign"
    /\ note' = IF note.by = p THEN [note EXCEPT !.signed = TRUE] ELSE note
    /\ Step(p, "look")
    /\ UNCHANGED <<jobVars, todo, buf, seen, file, owner, suspect, breach, ghostVars>>

\* cat of the lock file; a reading that leads to nothing is left out.
ReadNote(p) ==
    /\ ~useFlock /\ pc[p] = "lock"
    /\ note.signed /\ note.by # suspect[p]
    /\ suspect' = [suspect EXCEPT ![p] = note.by]
    /\ UNCHANGED <<jobVars, todo, stage, pc, buf, seen, file, owner, note, breach, ghostVars>>

\* kill -0 of the pid that was read, whatever the lock file says by then.
FindStale(p) ==
    /\ ~useFlock /\ pc[p] = "lock" /\ Stale(p)
    /\ Step(p, "stale")
    /\ UNCHANGED <<jobVars, todo, buf, seen, file, lockVars, ghostVars>>

\* rm -f, whoever created the file meanwhile.
RemoveStale(p) ==
    /\ pc[p] = "stale"
    /\ breach' = (breach \/ Alive(note.by))
    /\ note' = NoNote
    /\ suspect' = [suspect EXCEPT ![p] = NoProc]
    /\ Step(p, "lock")
    /\ UNCHANGED <<jobVars, todo, buf, seen, file, owner, ghostVars>>

LockFailsNever(p) == FALSE /\ UNCHANGED vars

\* 50 tries, 5 seconds, while others come and go or one keeps the file.
LockFails(p) ==
    /\ ~useFlock /\ pc[p] = "lock" /\ ~Stale(p)
    /\ \/ Active # {p}
       \/ note # NoNote /\ (~note.signed \/ Alive(note.by))
    /\ Fail(p)
    /\ solo' = solo \ {p}
    /\ UNCHANGED <<jobVars, buf, seen, file, lockVars, reported, swallowed, erased, faults>>

Unlock(p) ==
    /\ pc[p] \in {"unlock", "abort"}
    /\ owner' = (IF owner = p THEN NoProc ELSE owner)
    /\ note' = NoNote
    /\ reported' = IF stage[p] = "round" /\ pc[p] = "unlock"
                   THEN reported \cup {Current(p)} ELSE reported
    /\ IF pc[p] = "abort" THEN Fail(p) ELSE Advance(p)
    /\ UNCHANGED <<jobVars, buf, seen, file, suspect, breach, swallowed, erased, solo, faults>>
-----------------------------------------------------------------------------
(* metrics_init, with or without the lock. *)

\* The file is missing, is to be migrated, or is left alone.
Look(p) ==
    /\ pc[p] = "look"
    /\ \/ /\ file = NoFile
          /\ buf' = [buf EXCEPT ![p] = Default] /\ Step(p, "put")
          /\ UNCHANGED todo
       \/ /\ file.version = "old"
          /\ buf' = [buf EXCEPT ![p] = [file EXCEPT !.version = "new"]] /\ Step(p, "put")
          /\ UNCHANGED todo
       \/ /\ file.version = "new"
          /\ IF stage[p] = "init" THEN Advance(p) ELSE Step(p, "load") /\ UNCHANGED todo
          /\ UNCHANGED buf
    /\ UNCHANGED <<jobVars, seen, file, lockVars, ghostVars>>

\* What is no JSON cannot be migrated.
MigrateFails(p) ==
    /\ pc[p] = "look" /\ file.version = "broken"
    /\ IF stage[p] \in Locked THEN Step(p, "abort") /\ UNCHANGED todo ELSE Fail(p)
    /\ solo' = solo \ {p}
    /\ UNCHANGED <<jobVars, buf, seen, file, lockVars, reported, swallowed, erased, faults>>

\* The rename puts in place what was looked at before.
Put(p) ==
    /\ pc[p] = "put"
    /\ file' = buf[p]
    /\ erased' = (erased \/ ~(file.rounds \subseteq buf[p].rounds))
    /\ IF stage[p] \in {"init", "wipe"} THEN Advance(p) ELSE Step(p, "load") /\ UNCHANGED todo
    /\ UNCHANGED <<jobVars, buf, seen, lockVars, reported, swallowed, solo, faults>>

PutFails(p) ==
    /\ pc[p] = "put" /\ Fault
    /\ IF stage[p] \in Locked THEN Step(p, "abort") /\ UNCHANGED todo ELSE Fail(p)
    /\ solo' = solo \ {p}
    /\ UNCHANGED <<jobVars, buf, seen, file, lockVars, reported, swallowed, erased>>
-----------------------------------------------------------------------------
(* Reading and writing. *)

\* Wrong variant: the round being recorded counts even if it is not there.
LoadCounting(p) ==
    /\ pc[p] = "load"
    /\ buf' = [buf EXCEPT ![p] = file]
    /\ \/ /\ stage[p] \in Locked /\ Step(p, "store") /\ UNCHANGED todo
          /\ seen' = [seen EXCEPT ![p] = @ \cup todo[p]]
       \/ /\ stage[p] = "read" /\ Advance(p)
          /\ seen' = [seen EXCEPT ![p] = @ \cup file.rounds]
       \/ stage[p] = "show" /\ Advance(p) /\ UNCHANGED seen
    /\ UNCHANGED <<jobVars, file, lockVars, ghostVars>>

\* cat metrics.json; calculate_convergence is a function of what was read.
Load(p) ==
    /\ pc[p] = "load"
    /\ buf' = [buf EXCEPT ![p] = file]
    /\ \/ stage[p] \in Locked /\ Step(p, "store") /\ UNCHANGED <<seen, todo>>
       \/ stage[p] = "read" /\ Advance(p) /\ seen' = [seen EXCEPT ![p] = file.rounds]
       \/ stage[p] = "show" /\ Advance(p) /\ UNCHANGED seen
    /\ UNCHANGED <<jobVars, file, lockVars, ghostVars>>

Store(p) ==
    /\ pc[p] = "store"
    /\ file' = IF stage[p] = "round"
               THEN [buf[p] EXCEPT !.rounds = @ \cup {Current(p)}]
               ELSE [buf[p] EXCEPT !.conv = seen[p]]
    /\ Step(p, "unlock")
    /\ UNCHANGED <<jobVars, todo, buf, seen, lockVars, ghostVars>>

\* The status of this write is not looked at: the function goes on to report
\* success, unless the convergence of a backfill runs under "set -e".
StoreFails(p) ==
    /\ pc[p] = "store" /\ Fault
    /\ \/ Step(p, "unlock") /\ UNCHANGED owner
       \/ /\ stage[p] = "conv" /\ job[p] # "record"
          /\ Goto(p, "none", "over")
          /\ owner' = (IF owner = p THEN NoProc ELSE owner)
    /\ swallowed' = IF stage[p] = "round" THEN swallowed \cup {Current(p)} ELSE swallowed
    /\ solo' = solo \ {p}
    /\ UNCHANGED <<jobVars, todo, buf, seen, file, note, suspect, breach, reported, erased>>

\* The flock dies with its process, the lock file does not.
Kill(p) ==
    /\ p \in Active /\ Fault
    /\ Goto(p, "none", "dead")
    /\ owner' = (IF owner = p THEN NoProc ELSE owner)
    /\ UNCHANGED <<jobVars, todo, buf, seen, file, note, suspect, breach, reported,
                   swallowed, erased, solo>>
-----------------------------------------------------------------------------
LockStep(p) ==
    \/ Flock(p) \/ Create(p) \/ Sign(p) \/ ReadNote(p) \/ FindStale(p)
    \/ RemoveStale(p) \/ LockFails(p) \/ Unlock(p)

FileStep(p) ==
    \/ Look(p) \/ MigrateFails(p) \/ Put(p) \/ PutFails(p) \/ Load(p) \/ Store(p) \/ StoreFails(p)

Next == \E p \in Procs : Begin(p) \/ LockStep(p) \/ FileStep(p) \/ Kill(p)

Spec == Init /\ [][Next]_vars

\* apr is a sequential script; nobody has to begin, and no fault is due.
FairSpec == Spec /\ \A p \in Procs : WF_vars(LockStep(p) \/ FileStep(p))
-----------------------------------------------------------------------------
(* Properties. *)

\* A round that was reported as written stays in the file, whatever other
\* writers do: every locked write starts from what the file has.  Excepted
\* are the three holes of the code: an unlocked creation, migration or reset
\* that erased rounds, a lock file taken from a live owner, and a write whose
\* failure nobody looked at.
ReportedKept == ~erased /\ ~breach => reported \ swallowed \subseteq file.rounds

\* The convergence never vouches for rounds the file does not have: they were
\* read before the lock was taken, but nothing removes rounds in between.
ConvergenceGrounded == ~erased /\ ~breach => file.conv \subseteq file.rounds

\* A recorder or backfill that has the metrics to itself and none of whose steps
\* fails leaves them in order, whatever overlapping or killed processes left
\* behind before: the file is migrated and its convergence is that of all its
\* rounds.  What is no JSON fails it, and stays as it is but for "--force".
SoloRunRepairs ==
    [][\A p \in solo : stage[p] = "conv" /\ stage'[p] # "conv" /\ pc'[p] # "dead" /\ p \in solo' =>
           file.version = "new" /\ file.conv = file.rounds]_vars

\* No command hangs on the metrics: a blocking flock is freed by its owner or
\* with it, and the fallback gives up.
EveryRunEnds == \A p \in Procs : pc[p] # "idle" ~> pc[p] \in Ended
=============================================================================
