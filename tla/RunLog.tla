------------------------------- MODULE RunLog -------------------------------
(***************************************************************************)
(* events.jsonl, the log of a planning run, and the programs that share    *)
(* its directory: run-state-machine.py and whoever records a stage with it *)
(* append events, v18-run-ops.py folds the log into a status, a report and *)
(* the stage to resume at, and mock-e2e-profiles.py writes the whole log   *)
(* from the commands it has run.  The harness names its directory by the   *)
(* second it started in, so that two of them may work in the same one.     *)
(***************************************************************************)
EXTENDS Naturals, Sequences, FiniteSets, SequencesExt

CONSTANTS Recorders,   \* programs that append events to a planning run
          Harnesses,   \* runs of the harness, all within one second
          Stages,      \* the stages that are recorded
          Tools,       \* command_matrix: the tool of each command of a profile
          Unnamed,     \* command_1, command_2, ...: stages without a tool
          OpsTools,    \* the tools that are v18-run-ops.py
          Garbage,     \* a line that is no JSON
          NoFile, Nothing,
          MaxEvents, MaxTears

\* command_matrix ends with the report.
ASSUME MatrixIsList ==
    /\ Tools \in Seq(Range(Tools)) /\ Tools # <<>>
    /\ Unnamed \in Seq(Range(Unnamed)) /\ Len(Unnamed) = Len(Tools)
    /\ OpsTools \subseteq Range(Tools) /\ Last(Tools) \in OpsTools
ASSUME BoundsAreNumbers == {MaxEvents, MaxTears} \subseteq Nat
ASSUME FewRecorders == IsFiniteSet(Recorders)

VARIABLES kind,     \* "planning" or "e2e": whose directory it is
          log,      \* the lines of events.jsonl, or NoFile
          cut,      \* whether its last line lacks the newline
          report,   \* reports/run_report.json: the status it quotes
          recorded, \* the events whose append has reported success (observation)
          tears,    \* appends that were cut short (observation)
          rec,      \* what each recorder does
          har,      \* what each harness does
          summary   \* profile-summary.json: [by, status]

vars == <<kind, log, cut, report, recorded, tears, rec, har, summary>>

\* VALID_STAGES: nothing tells the outcomes other than these two apart.
Outcomes == {"running", "success", "failed"}
Results == {"good", "refused", "notok", "silent"}

Recorded == Stages \cup Range(Tools) \cup Range(Unnamed) \cup {"run_lifecycle"}
EventSet == [n : Nat, stage : Recorded, outcome : Outcomes]
Statuses == [current : Recorded, completed : SUBSET Recorded, failed : SUBSET Recorded]
Commands == [tool : Range(Tools), result : Results]
Summaries == [by : Harnesses, status : {"pass", "fail"}]

ASSUME MarkersAreApart ==
    /\ Garbage \notin EventSet /\ Nothing \notin EventSet \cup Statuses
    /\ NoFile \notin Seq(EventSet \cup {Garbage}) \cup Statuses \cup Summaries

TypeOK ==
    /\ kind \in {"planning", "e2e"}
    /\ log \in Seq(EventSet \cup {Garbage}) \cup {NoFile}
    /\ cut \in BOOLEAN
    /\ report \in Statuses \cup {NoFile}
    /\ recorded \in Seq(EventSet)
    /\ tears \in Nat
    /\ rec \in [Recorders -> EventSet \cup {Nothing}]
    /\ har \in [Harnesses -> [pc : {"idle", "run", "write_events", "summarise", "ended", "aborted"},
                             done : Seq(Commands)]]
    /\ \A h \in Harnesses : Len(har[h].done) <= Len(Tools)
    /\ summary \in Summaries \cup {NoFile}

-----------------------------------------------------------------------------
(* Reading the log.                                                        *)

Event(n, stage, outcome) == [n |-> n, stage |-> stage, outcome |-> outcome]

\* A line that does not parse is skipped, wherever it stands.
ReadableUpTo(lines) ==
    IF Garbage \in Range(lines) THEN SubSeq(lines, 1, SelectInSeq(lines, LAMBDA l : l = Garbage) - 1)
    ELSE lines
Readable(lines) ==
    LET kept == {i \in DOMAIN lines : lines[i] # Garbage}
    IN [k \in 1..Cardinality(kept) |->
           lines[CHOOSE i \in kept : Cardinality({j \in kept : j <= i}) = k]]
Events == IF log = NoFile THEN <<>> ELSE Readable(log)

\* get_run_status: the last event, and every stage that has ever succeeded
\* and every one that has ever failed.
RunStatus(events) ==
    IF events = <<>> THEN Nothing
    ELSE [current |-> Last(events).stage,
          completed |-> {e.stage : e \in {x \in Range(events) : x.outcome = "success"}},
          failed |-> {e.stage : e \in {x \in Range(events) : x.outcome = "failed"}}]

\* reconstruct_state: the last event of each stage.
ReconstructFirst(events) ==
    [s \in {e.stage : e \in Range(events)} |->
        events[CHOOSE i \in DOMAIN events :
                 events[i].stage = s /\ \A j \in 1..(i - 1) : events[j].stage # s]]
Reconstruct(events) ==
    [s \in {e.stage : e \in Range(events)} |->
        events[CHOOSE i \in DOMAIN events :
                 events[i].stage = s /\ \A j \in (i + 1)..Len(events) : events[j].stage # s]]

-----------------------------------------------------------------------------
(* run-state-machine.py.                                                   *)

Room == Len(recorded) + tears < MaxEvents
NextEvent(stage, outcome) ==
    Event(Len(recorded) + tears + Cardinality({q \in Recorders : rec[q] # Nothing}), stage, outcome)

\* append_event creates the file and does not look at its end: what a torn
\* append left and the new event become one line.
OnFile == IF log = NoFile THEN <<>> ELSE log
WithLine(line) == IF cut THEN [OnFile EXCEPT ![Len(OnFile)] = Garbage] ELSE Append(OnFile, line)

Appended(line) ==
    /\ log' = WithLine(line)
    /\ cut' = FALSE

\* --action init lays out the directory with an empty log; the first event
\* is an append of its own, which others may come before and a kill prevent.
CreateLayout ==
    /\ kind = "planning" /\ log = NoFile
    /\ log' = <<>>
    /\ UNCHANGED <<kind, cut, report, recorded, tears, rec, har, summary>>

\* The append of --action event and the one of init.  The event is on disk
\* before its program says so.
RecordEvent(r, stage, outcome) ==
    /\ kind = "planning" /\ Room /\ rec[r] = Nothing
    /\ Appended(NextEvent(stage, outcome))
    /\ rec' = [rec EXCEPT ![r] = NextEvent(stage, outcome)]
    /\ UNCHANGED <<kind, report, recorded, tears, har, summary>>

Confirm(r) ==
    /\ rec[r] # Nothing
    /\ recorded' = Append(recorded, rec[r])
    /\ rec' = [rec EXCEPT ![r] = Nothing]
    /\ UNCHANGED <<kind, log, cut, report, tears, har, summary>>

\* A full disk or a kill cuts the write short, at the latest before the newline.
TornEvent(r, stage, outcome) ==
    /\ kind = "planning" /\ Room /\ rec[r] = Nothing
    /\ tears < MaxTears
    /\ tears' = tears + 1
    /\ \E line \in {Garbage, NextEvent(stage, outcome)} : log' = WithLine(line)
    /\ cut' = TRUE
    /\ UNCHANGED <<kind, report, recorded, rec, har, summary>>

-----------------------------------------------------------------------------
(* v18-run-ops.py.                                                         *)

\* --action status, resume and retry fail on a log without events and change
\* nothing; --action report writes the status down.
OpsSucceed == RunStatus(Events) # Nothing

WriteReport ==
    /\ OpsSucceed
    /\ report' = RunStatus(Events)

Report ==
    /\ kind = "planning"
    /\ WriteReport
    /\ UNCHANGED <<kind, log, cut, recorded, tears, rec, har, summary>>

-----------------------------------------------------------------------------
(* mock-e2e-profiles.py.                                                   *)

\* run_command: the exit code, whether stdout is an envelope, and its "ok".
Ran(tool, result) == [tool |-> tool, result |-> result]
Succeeded(c) == c.result \in {"good", "notok"}

\* The stage is the tool that the envelope names, so that the commands of one
\* tool share it, or the number of the command if there is no envelope.
StageOf(i, c) == IF c.result = "silent" THEN Unnamed[i] ELSE c.tool

\* write_events turns every command into an event; an envelope that says
\* "not ok" with exit code 0 is a success here and a failure of the profile.
LogOf(commands) ==
    [i \in DOMAIN commands |->
        Event(i, StageOf(i, commands[i]), IF Succeeded(commands[i]) THEN "success" ELSE "failed")]

Failures(commands) == {i \in DOMAIN commands : commands[i].result # "good"}

NextTool(h) == Tools[Len(har[h].done) + 1]
HarnessGoes(h, pc) == har' = [har EXCEPT ![h].pc = pc]

StartProfile(h) ==
    /\ kind = "e2e" /\ har[h].pc = "idle"
    /\ HarnessGoes(h, "run")
    /\ UNCHANGED <<kind, log, cut, report, recorded, tears, rec, summary>>

\* The log is written before the first command that reads it, if it is not
\* there, and once more at the end.  write_text empties the file first.
WantsLog(h) ==
    \/ Len(har[h].done) = Len(Tools)
    \/ Len(har[h].done) < Len(Tools) /\ NextTool(h) \in OpsTools /\ log = NoFile

EmptyLog(h) ==
    /\ har[h].pc = "run" /\ WantsLog(h)
    /\ log' = <<>>
    /\ HarnessGoes(h, "write_events")
    /\ UNCHANGED <<kind, cut, report, recorded, tears, rec, summary>>

\* It empties the file only when it opens it: if another harness has written in
\* between, the end of a log that is longer in bytes outlasts this one, cut into
\* somewhere.
Leftovers(mine) ==
    IF OnFile = <<>> \/ Len(OnFile) < Len(mine) THEN {<<>>}
    ELSE LET beyond == SubSeq(OnFile, Len(mine) + 1, Len(OnFile))
         IN {beyond, <<Garbage>> \o beyond}

WritesOver(h, mine) ==
    /\ har[h].pc = "write_events"
    /\ \E rest \in Leftovers(mine) : log' = mine \o rest
    /\ HarnessGoes(h, IF Len(har[h].done) = Len(Tools) THEN "summarise" ELSE "run")
    /\ UNCHANGED <<kind, cut, report, recorded, tears, rec, summary>>

WriteEventsEarly(h) == WritesOver(h, LogOf(Front(har[h].done)))
WriteEvents(h) == WritesOver(h, LogOf(har[h].done))

\* A command that reads the log succeeds or fails by what is there; another
\* one may end in any way.
RunCommand(h) ==
    /\ har[h].pc = "run" /\ ~WantsLog(h)
    /\ LET tool == NextTool(h) IN
       \E result \in IF tool \notin OpsTools THEN Results
                     ELSE IF OpsSucceed THEN {"good"} ELSE {"refused"} :
         /\ har' = [har EXCEPT ![h].done = Append(@, Ran(tool, result))]
         /\ report' = IF Len(har[h].done) + 1 = Len(Tools) /\ OpsSucceed THEN RunStatus(Events) ELSE report
    /\ UNCHANGED <<kind, log, cut, recorded, tears, rec, summary>>

\* artifact_summary: an artifact that is not there is an error, and so is a
\* slot without a result, except that a codex slot needs none.
ArtifactErrors(absent, slots) == absent \cup (slots \ {"with_result", "codex"})

\* The transcript, the comparison and the artifacts; then the summary.
Summarise(h) ==
    /\ har[h].pc = "summarise"
    /\ \E absent \in SUBSET {"plan_ir"}, slots \in SUBSET {"with_result", "codex", "without_result"} :
         summary' = [by |-> h,
                     status |-> IF ArtifactErrors(absent, slots) = {} /\ Failures(har[h].done) = {}
                                THEN "pass" ELSE "fail"]
    /\ HarnessGoes(h, "ended")
    /\ UNCHANGED <<kind, log, cut, report, recorded, tears, rec>>

\* A command that takes longer than 120 s raises TimeoutExpired, which main
\* does not catch; a kill ends the harness anywhere.
Abort(h) ==
    /\ har[h].pc \notin {"idle", "ended", "aborted"}
    /\ HarnessGoes(h, "aborted")
    /\ UNCHANGED <<kind, log, cut, report, recorded, tears, rec, summary>>

Init ==
    /\ kind \in {"planning", "e2e"}
    /\ log = NoFile
    /\ cut = FALSE
    /\ report = NoFile
    /\ recorded = <<>>
    /\ tears = 0
    /\ rec = [r \in Recorders |-> Nothing]
    /\ har = [h \in Harnesses |-> [pc |-> "idle", done |-> <<>>]]
    /\ summary = NoFile

Next ==
    \/ CreateLayout \/ Report
    \/ \E r \in Recorders :
         \/ \E stage \in Stages \cup {"run_lifecycle"}, outcome \in Outcomes :
              RecordEvent(r, stage, outcome) \/ TornEvent(r, stage, outcome)
         \/ Confirm(r)
    \/ \E h \in Harnesses :
         \/ StartProfile(h) \/ EmptyLog(h) \/ WriteEvents(h)
         \/ RunCommand(h) \/ Summarise(h) \/ Abort(h)

Spec == Init /\ [][Next]_vars

-----------------------------------------------------------------------------
(* Properties.                                                             *)

\* An event that was recorded with success stays readable: however recorders
\* interleave, each append that was cut short costs at most one of them, and
\* nothing else does (lines 53-54, 71-73).
RecordedSurvives ==
    Cardinality({e \in Range(recorded) : e \notin Range(Events)}) <= tears

\* The two readers of the log tell the same story: the stage to resume at is
\* the one whose reconstructed event is the last, what run-state-machine calls
\* succeeded or failed v18-run-ops lists as completed or failed, and a stage
\* in both lists has been retried, whatever was torn or overwritten.
StagesAgree ==
    Events # <<>> =>
        LET state == Reconstruct(Events)
            status == RunStatus(Events)
        IN /\ state[status.current] = Last(Events)
           /\ \A s \in DOMAIN state :
                /\ state[s].outcome = "success" => s \in status.completed
                /\ state[s].outcome = "failed" => s \in status.failed
                /\ s \in status.completed \cap status.failed =>
                     \E i, j \in DOMAIN Events : i < j /\ Events[i].stage = s /\ Events[j] = state[s]

\* What a harness that has its directory to itself leaves behind fits
\* together: its log is never more than what it has run and complete once the
\* summary is there, and a passing summary comes with a log without a failure
\* and a report that lists none and nothing that the log does not have.
BundleFits ==
    kind = "e2e" =>
        \A h \in Harnesses :
          (\A g \in Harnesses \ {h} : har[g].pc = "idle") =>
            /\ log # NoFile => IsPrefix(log, LogOf(har[h].done))
            /\ summary # NoFile => Len(log) = Len(Tools)
            /\ summary # NoFile /\ summary.status = "pass" =>
                 /\ RunStatus(log).failed = {}
                 /\ report # NoFile /\ report.failed = {}
                 /\ report.completed \subseteq RunStatus(log).completed

\* A harness that has ended has the log of its own commands in its directory
\* (mock-e2e-profiles.md:5-10: each profile run creates its fixture project,
\* .apr/runs/<run_id>/events.jsonl and profile-summary.json).  The run id is
\* the profile and the second (line 250), so that two may have the same.
EachRunItsLog == \A h \in Harnesses : har[h].pc = "ended" => log = LogOf(har[h].done)
=============================================================================
