------------------------------- MODULE RoundRun -------------------------------
(***************************************************************************)
(* run_round of apr: competing invocations of "apr run N" for one workflow *)
(* round, which share the round's ledger file, its output file, its lock   *)
(* and its Oracle session.                                                 *)
(*                                                                         *)
(* Each invocation looks at the session and the output, writes the ledger  *)
(* "started", takes the lock, runs oracle, and in the foreground validates *)
(* (and tries to recover) the output, records metrics and writes the       *)
(* ledger "finished".  The EXIT trap releases the lock.  In the background *)
(* the child keeps the lock and nothing is done once oracle ends.          *)
(*                                                                         *)
(* The lock is taken here to be exclusive while it is held; how far the    *)
(* code achieves that is the subject of module RoundLock.  The Oracle CLI  *)
(* and its sessions are external.                                          *)
(***************************************************************************)
EXTENDS FilesReport, FiniteSets

CONSTANTS
    Procs,      \* invocations; each runs once and has a run_id of its own
    Strict,     \* those that run with APR_STRICT_ATTACHMENTS=1
    Attempts,   \* what the attempts of one oracle run may report, in order
    MaxFaults,  \* bound on TERM signals and kills
    Modes,      \* subset of {"wait", "background"}
    NoProc

ASSUME RunAssumption ==
    /\ NoProc \notin Procs /\ Strict \subseteq Procs /\ MaxFaults \in Nat
    /\ Modes \subseteq {"wait", "background"}
    /\ Attempts \subseteq Seq(ReportLines)

VARIABLES
    pc,         \* where each invocation is
    mode,       \* --wait or background
    force,      \* --force, or a user who agrees to overwrite the output
    code,       \* its exit code
    holds,      \* APR_LOCK_* is set: its trap will release the lock
    kid,        \* its oracle runs detached from it
    lock,       \* the round's lock
    ledger,     \* the run ledger: who wrote it and its state
    log,        \* the round's run log: whose it is, and the lines of its reports
    output,     \* the round's output file: "none", "short" or "good"
    metrics,    \* invocations that recorded the round's metrics
    signed,     \* invocations that wrote a finished ledger
    termed,     \* invocations that got a TERM
    faults

vars == <<pc, mode, force, code, holds, kid, lock, ledger, log, output, metrics,
          signed, termed, faults>>

PCs == {"new", "checked", "started", "ready", "locked", "oracle", "validate",
        "recover", "metrics", "finish", "forked", "exit", "over", "dead"}

\* The exit codes of run_round: success, partial failure (or a checker that
\* failed), a detached oracle that is gone at once, not started, and whatever
\* oracle said.
OK == 0
Partial == 1
Dependency == 3
Config == 4
OracleCode == 9
Codes == {OK, Partial, Dependency, Config, OracleCode}

\* A ledger has the trust signals and the files report, once it is finished.
NoLog == [run |-> NoProc, lines |-> <<>>]
Unverified == [supported |-> FALSE, ok |-> FALSE]
NoLedger == [run |-> NoProc, state |-> "none", trust |-> Unverified, report |-> NoLog]
Trusts == [supported : BOOLEAN, ok : BOOLEAN]
Logs == [run : Procs \cup {NoProc}, lines : Seq(ReportLines)]
Ledgers == [run : Procs \cup {NoProc}, state : {"none", "started", "finished"},
            trust : Trusts, report : Logs]

TypeOK ==
    /\ pc \in [Procs -> PCs] /\ mode \in [Procs -> Modes]
    /\ force \in [Procs -> BOOLEAN] /\ code \in [Procs -> Codes]
    /\ holds \in [Procs -> BOOLEAN] /\ kid \in [Procs -> BOOLEAN]
    /\ lock \in Procs \cup {NoProc}
    /\ ledger \in Ledgers /\ log \in Logs
    /\ output \in {"none", "short", "good"}
    /\ metrics \subseteq Procs /\ signed \subseteq Procs /\ termed \subseteq Procs
    /\ faults \in Nat

Init ==
    /\ pc = [p \in Procs |-> "new"]
    /\ mode \in [Procs -> Modes] /\ force \in [Procs -> BOOLEAN]
    /\ code = [p \in Procs |-> OK]
    /\ holds = [p \in Procs |-> FALSE] /\ kid = [p \in Procs |-> FALSE]
    /\ lock = NoProc /\ ledger = NoLedger /\ log = NoLog
    /\ output \in {"none", "short", "good"}
    /\ metrics = {} /\ signed = {} /\ termed = {} /\ faults = 0

Goto(p, l) == pc' = [pc EXCEPT ![p] = l]
\* Wrong variant: a status that apr does not document.
ExitRaw(p, c) == pc' = [pc EXCEPT ![p] = "exit"] /\ code' = [code EXCEPT ![p] = c + 128]
Exit(p, c) == pc' = [pc EXCEPT ![p] = "exit"] /\ code' = [code EXCEPT ![p] = c]
request == <<mode, force>>
history == <<metrics, signed, termed, faults>>
-----------------------------------------------------------------------------
(* Before the lock. *)

\* A session that oracle status lists under the run's slug ends the run with
\* success.  It tells little of the round: oracle status may fail, a run with
\* the implementation has another slug, and the sessions of other projects with
\* a workflow of that name are listed too.  An existing output ends the run with
\* a configuration error (or, when its user declines, success) unless --force
\* or its user allows to overwrite it.
Check(p) ==
    /\ pc[p] = "new"
    /\ \/ Exit(p, OK)
       \/ output # "none" /\ ~force[p] /\ \E c \in {OK, Config} : Exit(p, c)
       \/ (output = "none" \/ force[p]) /\ Goto(p, "checked") /\ UNCHANGED code
    /\ UNCHANGED <<request, holds, kid, lock, ledger, log, output, history>>

WriteStarted(p) ==
    /\ pc[p] = "checked"
    /\ ledger' = [NoLedger EXCEPT !.run = p, !.state = "started"]
    /\ Goto(p, "started")
    /\ UNCHANGED <<request, code, holds, kid, lock, log, output, history>>

\* prompt_quality_check may refuse the prompt after the ledger was written.
PromptCheck(p) ==
    /\ pc[p] = "started"
    /\ \/ Goto(p, "ready") /\ UNCHANGED code
       \/ Exit(p, Config)
    /\ UNCHANGED <<request, holds, kid, lock, ledger, log, output, history>>

LockRound(p) ==
    /\ pc[p] = "ready"
    /\ \/ /\ lock = NoProc
          /\ lock' = p /\ holds' = [holds EXCEPT ![p] = TRUE]
          /\ Goto(p, "locked") /\ UNCHANGED code
       \/ /\ lock # NoProc
          /\ Exit(p, Config) /\ UNCHANGED <<lock, holds>>
    /\ UNCHANGED <<request, kid, ledger, log, output, history>>
-----------------------------------------------------------------------------
(* Foreground. *)

\* The output of all attempts goes to one log, which is cut first.
StartForeground(p) ==
    /\ pc[p] = "locked" /\ mode[p] = "wait"
    /\ log' = [run |-> p, lines |-> <<>>]
    /\ Goto(p, "oracle")
    /\ UNCHANGED <<request, code, holds, kid, lock, ledger, output, history>>

\* Oracle (after its retries) fails, perhaps having written something, or
\* reports success, perhaps having written nothing or too little.
OracleEnds(p) ==
    /\ pc[p] = "oracle"
    /\ \/ Exit(p, OracleCode) /\ output' \in {output, "short"}
       \/ Goto(p, "validate") /\ UNCHANGED code /\ output' \in {output, "short", "good"}
    /\ \E lines \in Attempts : log' = [run |-> p, lines |-> lines]
    /\ UNCHANGED <<request, holds, kid, lock, ledger, history>>

\* Wrong variant: whatever oracle left is taken as valid.
ValidateNothing(p) ==
    /\ pc[p] = "validate"
    /\ Goto(p, "metrics")
    /\ UNCHANGED <<request, code, holds, kid, lock, ledger, log, output, history>>

Validate(p) ==
    /\ pc[p] = "validate"
    /\ Goto(p, IF output = "good" THEN "metrics" ELSE "recover")
    /\ UNCHANGED <<request, code, holds, kid, lock, ledger, log, output, history>>

\* 30 s later: reattach to the session and write a .recovery file.  A valid
\* one replaces the output, any other is removed and the run fails.
Recover(p) ==
    /\ pc[p] = "recover"
    /\ \/ output' = "good" /\ Goto(p, "metrics") /\ UNCHANGED code
       \/ UNCHANGED output /\ Exit(p, Partial)
    /\ UNCHANGED <<request, holds, kid, lock, ledger, log, history>>

RecordMetrics(p) ==
    /\ pc[p] = "metrics"
    /\ metrics' \in {metrics, metrics \cup {p}}
    /\ Goto(p, "finish")
    /\ UNCHANGED <<request, code, holds, kid, lock, ledger, log, output, signed, termed, faults>>

\* Wrong variant: a failed check is ignored and the run exits with 0.
WriteFinishedIgnoring(p) ==
    /\ pc[p] = "finish"
    /\ \/ ledger' = [NoLedger EXCEPT !.run = p, !.state = "finished"] /\ signed' = signed \cup {p}
       \/ UNCHANGED <<ledger, signed>>
    /\ Exit(p, OK)
    /\ UNCHANGED <<request, holds, kid, lock, log, output, metrics, termed, faults>>

Finished(p) == [run |-> p, state |-> "finished", trust |-> Trust(log.lines), report |-> log]

\* verify-files-report.py finds a mismatch that is an error, or fails, and under
\* "set -e" the script ends there; any other mismatch is noted in the ledger.
WriteFinished(p) ==
    /\ pc[p] = "finish"
    /\ \/ /\ ~VerifierFails(log.lines, p \in Strict)
          /\ ledger' = Finished(p)
          /\ signed' = signed \cup {p}
          /\ Exit(p, OK)
       \/ Exit(p, Partial) /\ UNCHANGED <<ledger, signed>>
    /\ UNCHANGED <<request, holds, kid, lock, log, output, metrics, termed, faults>>
-----------------------------------------------------------------------------
(* Background: the child has the lock from the fork on. *)

\* Wrong variant: the parent's trap still releases the lock.
StartBackgroundKeeping(p) ==
    /\ pc[p] = "locked" /\ mode[p] = "background"
    /\ kid' = [kid EXCEPT ![p] = TRUE]
    /\ Goto(p, "forked")
    /\ UNCHANGED <<request, code, holds, lock, ledger, log, output, history>>

\* The child is forked and the lock handed to it.
StartBackground(p) ==
    /\ pc[p] = "locked" /\ mode[p] = "background"
    /\ kid' = [kid EXCEPT ![p] = TRUE]
    /\ holds' = [holds EXCEPT ![p] = FALSE]
    /\ Goto(p, "forked")
    /\ UNCHANGED <<request, code, lock, ledger, log, output, history>>

\* Half a second later the parent looks whether the child is still there.
CheckBackground(p) ==
    /\ pc[p] = "forked"
    /\ Exit(p, IF kid[p] THEN OK ELSE Dependency)
    /\ UNCHANGED <<request, holds, kid, lock, ledger, log, output, history>>

\* The detached oracle of p ends, and with it the last lock descriptor.
KidExit(p) ==
    /\ kid[p]
    /\ kid' = [kid EXCEPT ![p] = FALSE]
    /\ lock' = IF lock = p THEN NoProc ELSE lock
    /\ output' \in {output, "short", "good"}
    /\ UNCHANGED <<pc, request, code, holds, ledger, log, history>>
-----------------------------------------------------------------------------
(* The end of a run. *)

\* Wrong variant: a trap that frees nothing.
ReleaseLockNever(p) == UNCHANGED lock

\* release_lock acts on what this process acquired and did not hand over.
ReleaseLock(p) == lock' = IF holds[p] /\ lock = p THEN NoProc ELSE lock

\* cleanup_temp on EXIT.  It also means to turn a "started" ledger into
\* "failed", but looks for '"state": "started"' while the ledger is written
\* without that space, so it never does.
Trap(p) ==
    /\ pc[p] = "exit"
    /\ ReleaseLock(p)
    /\ holds' = [holds EXCEPT ![p] = FALSE]
    /\ Goto(p, "over")
    /\ UNCHANGED <<request, code, kid, ledger, log, output, history>>

\* cleanup_temp on TERM: the lock is released and the script carries on.
Term(p) ==
    /\ pc[p] \notin {"new", "oracle", "exit", "over", "dead"}
    /\ faults < MaxFaults /\ faults' = faults + 1
    /\ termed' = termed \cup {p}
    /\ ReleaseLock(p)
    /\ holds' = [holds EXCEPT ![p] = FALSE]
    /\ UNCHANGED <<pc, request, code, kid, ledger, log, output, metrics, signed>>

\* kill -9: the lock is freed with the process, unless oracle is running.
Kill(p) ==
    /\ pc[p] \notin {"new", "over", "dead"}
    /\ faults < MaxFaults /\ faults' = faults + 1
    /\ kid' = [kid EXCEPT ![p] = @ \/ pc[p] = "oracle"]
    /\ lock' = IF lock = p /\ ~kid'[p] THEN NoProc ELSE lock
    /\ holds' = [holds EXCEPT ![p] = FALSE]
    /\ Goto(p, "dead")
    /\ UNCHANGED <<request, code, ledger, log, output, metrics, signed, termed>>
-----------------------------------------------------------------------------
Step(p) ==
    \/ Check(p) \/ WriteStarted(p) \/ PromptCheck(p) \/ LockRound(p)
    \/ StartForeground(p) \/ OracleEnds(p) \/ Validate(p) \/ Recover(p)
    \/ RecordMetrics(p) \/ WriteFinished(p)
    \/ StartBackground(p) \/ CheckBackground(p) \/ KidExit(p) \/ Trap(p)

Next == \E p \in Procs : Step(p) \/ Term(p) \/ Kill(p)

Spec == Init /\ [][Next]_vars

\* apr is a sequential script and oracle ends; signals are not due.
FairSpec == Spec /\ \A p \in Procs : WF_vars(Step(p))
-----------------------------------------------------------------------------
(* Properties. *)

Oracles == {p \in Procs : pc[p] = "oracle" \/ kid[p]}

\* At most one oracle works on the round, counting detached and orphaned ones,
\* and whatever a foreground run does after its oracle (validation, recovery,
\* metrics, ledger) it does alone and under the lock, unless a TERM released
\* the lock of a run that went on (apr:583).
UnderLock ==
    /\ termed = {} => \A p, q \in Oracles : p = q
    /\ \A p \in Procs \ termed :
         pc[p] \in {"validate", "recover", "metrics", "finish"} =>
             /\ lock = p /\ ~kid[p]
             /\ termed = {} => Oracles = {}

\* A run is recorded as finished, and its metrics are recorded, only while
\* the output it vouches for is valid: no competitor, detached oracle or
\* orphan spoils it after it was validated.
RecordsOnlyGood ==
    [][(signed' # signed \/ metrics' # metrics) /\ termed = {} => output = "good"]_vars

\* A foreground run exits with 0 only if it signed the ledger off, or found
\* a session of that name (apr:5291-5304) and never got past the checks.
SuccessIsSigned ==
    \A p \in Procs : mode[p] = "wait" /\ pc[p] \in {"exit", "over"} /\ code[p] = OK =>
        p \in signed \/ (ledger.run # p /\ p \notin metrics)

\* The round can be run again: every lock is freed in the end, by the run
\* that took it, by its trap, or by the end of its detached oracle.
LockFreed == lock # NoProc ~> lock = NoProc

\* What a finished ledger says of the attachments is about the run that signed
\* it: the report is from its own log, although all runs of the round use one
\* file, and if it is trusted, then the last attempt that mentions a file says
\* that it was uploaded, whole or nearly so.  A strict run signs nothing else.
AttachmentsTrusted ==
    ledger.state = "finished" /\ termed = {} =>
        /\ ledger.report.run = ledger.run
        /\ ledger.trust.ok /\ ledger.trust.supported =>
             \A f \in Files : \E i \in DOMAIN ledger.report.lines :
               LET line == ledger.report.lines[i] IN
               /\ line.path = f /\ line.status = "success" /\ ~Differs(line.bytes, Bytes(f))
               /\ \A j \in DOMAIN ledger.report.lines : j > i => ledger.report.lines[j].path # f
        /\ ledger.run \in Strict => ledger.trust.ok

\* "Update ledger with failed state if it was left hanging" (apr:546): a
\* foreground run that came to its end, through its trap, does not leave the
\* ledger it wrote at "started".  The code does not keep it.
NoneLeftHanging ==
    \A p \in Procs : mode[p] = "wait" /\ pc[p] = "over" /\ ledger.run = p => ledger.state # "started"

\* "A round may not move from a terminal state back to started"
\* (run-ledger-schema.md:69-70), when nobody asked to run it again: the ledger
\* that signs a round off stays, whatever a competitor does that looked at the
\* round before.  The code does not keep it, since it writes the ledger before
\* it takes the lock.
SignedOffForGood ==
    [][(\A p \in Procs : ~force[p]) /\ ledger.state = "finished" => ledger' = ledger]_vars
=============================================================================
