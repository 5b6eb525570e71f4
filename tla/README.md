# Verification of apr (Automated Plan Reviser)

`apr` is a Bash program that sends a project's plan documents to GPT Pro
through the Oracle CLI, round after round, and keeps the answers, a ledger, a
queue of rounds and analytics about their convergence.  Beside it lies the v18
bundle (`PLAN/apr-vnext-plan-bundle-v18.0.0/scripts`), Python programs that ask
several providers for a plan, compare and synthesise their answers, decide
whether enough independent reviews came in, rehearse the live cutover and turn
the plan into tracker items ("beads").  Every command of both is a separate,
short-lived process; all coordination happens through files, locks and
signals.  This directory holds TLA+ modules that model that coordination, TLC
configurations that check them on small instances, and TLAPS proofs.

Paths such as `apr:613` mean line 613 of `src/apr`; `queue.sh` is
`src/lib/queue.sh`; a bare `*.py` is in the bundle's `scripts/`.

## 1. The system

| Component | State | Operations | Talks to |
|---|---|---|---|
| Queue log (`queue.sh`, `apr:3174`) | one append-only `events.jsonl` per workflow | append; five folds (derive, its fallback without python3, status_summary, next_queued, state_json) | read by add, cancel, run, status |
| Queue commands (`queue.sh`, `cmd_queue_*`) | the log, one lock file or lock directory | add, cancel, run (`--once`, `--max`), status | the runner starts `apr run N --wait` under the lock |
| Round lock (`apr:591-716`) | lock path (inode, flock, pid) or lock directory with a pid file | acquire, release, hand over to a background child | run_round, robot_run, the exit trap |
| Round execution (`run_round`, `apr:5100-5900`) | ledger, run log, output file, Oracle session, round lock | check, ledger start, lock, oracle, validate, recover, metrics, ledger finish, trap | round lock, ledger, metrics, Oracle, files-report verifier |
| Files-report verifier (`verify-files-report.py`) | none | compare Oracle's report lines with the manifest | run by run_round |
| Oracle retry (`apr:1525`) | attempt and busy counters, backoffs | invoke, classify, wait, give up | Oracle CLI, `busy.sh` |
| Run ledger (`ledger.sh`) | one JSON document per round | write started, write finished, trap update | run_round |
| Metrics store (`apr:3948-5000`) | one metrics file per workflow, a lock | init, migrate, write round, write convergence, backfill | run_round, stats, dashboard |
| Plan pipeline (`plan-pipeline.py`, `normalize-plan-ir.py`) | a run directory: results, normalised plans, comparison, synthesis | fanout, normalize, compare, synthesize | adapters; read by `v18-replay-eval.py`, `manage-run-cache.py` |
| Run log (`run-state-machine.py`, `v18-run-ops.py`, `mock-e2e-profiles.py`) | `events.jsonl`, a report, a profile summary | init, event, reconstruct; status, report, resume, retry; run a profile | whoever records a stage |
| Bead export (`plan-export-beads.py`, `export-beads.py`) | a saved list of operations; the tracker | generate, validate; create one bead per item | `br` |
| Provider adapters (`xai-deepseek-adapters.py`, `claude-codex-adapters.py`) | one result file per reviewer | scenario, live call, `--output` | providers; read by the quorum check |
| Review quorum (`enforce-review-quorum.py`) | none; reads results and waivers | decide whether the synthesis may go on | adapters, waivers |
| Live cutover (`live-cutover-dress-rehearsal.py`, `premortem-check.py`) | log bundles; reads fixtures and the environment | check, smoke, report | Oracle smoke script |

What makes each of them correct, and what is hard about it:

* **Queue.**  Rounds of a workflow run one at a time, in order, each at most
  once; a successful `add` is never lost; a cancel wins.  Hard: runners and
  clients interleave, a runner holds the lock for a whole round, an append can
  be cut short, a runner can be killed while its round lives on, the lock wait
  times out, and five readers fold the log with separately written rules.
* **Round lock.**  One owner per round, never stuck, names its owner.  Hard:
  the flock is on an inode but the protocol on a path; takeover of a dead
  owner's directory; the hand-over to a background child; a signal trap that
  releases but does not exit.
* **Round execution.**  One oracle per round, post-processing under the lock,
  success only when everything was recorded, a ledger that tells the truth
  about the output and the attachments, the lock freed.  Hard: state is checked
  before the lock is taken, all attempts append to one log, and every step may
  fail under `set -e`.
* **Oracle retry.**  Both budgets are respected in every mix of failures, and
  the return code tells the truth.
* **Metrics.**  A round reported as written stays written, the convergence is
  about rounds that are there, a damaged file is repaired by the next run.
  Hard: only a part of the writers takes the lock, the fallback lock can be
  taken from a live owner, the convergence is computed before the lock is
  taken, and the status of the decisive write is not looked at.
* **Plan pipeline.**  A synthesis has a plan of every slot and says of them
  what is true; a provider that answered is not asked again.  Hard: a stage is
  skipped if its directory holds any file, nothing locks the directory, writes
  truncate in place, and results may be saved by hand.
* **Run log.**  A recorded event stays readable, the two readers agree, the
  bundle of a profile fits that profile.  Hard: torn appends, retried stages,
  harnesses that share a directory named by the second.
* **Bead export.**  Every bead is accounted for, a quiet validation means a
  whole list, dependencies come after their beads.  Hard: one creation of many
  fails or is killed, the list is edited, the plan changes under it.
* **Review and cutover.**  A failed review never counts, an eligible synthesis
  rests on what is there, a live smoke is justified.  Hard:
  reviews are read file by file while adapters overwrite them and waivers
  expire; the outputs of a live call and of a scenario differ; a report is kept
  under a name that a second rehearsal may have.

`PROJECT.json` lists every component, and the hazards with the lines where
they bite and the properties that watch them.

## 2. Modules

| Module | EXTENDS / INSTANCE | Role |
|---|---|---|
| `QueueLog` | | vocabulary and folds of the queue's log |
| `QueueReaders` | `QueueLog` | its five readers, as the code has them |
| `QueueFold` | `QueueReaders` | every short log they may meet |
| `Queue` | `QueueReaders`, instance of `QueueContract` | the queue's processes |
| `QueueContract` | | what the queue promises |
| `RoundLock` | | the lock, system call by system call |
| `FilesReport` | | the files-report verifier, as operators |
| `RoundRun` | `FilesReport` | `run_round`, with the lock taken as exclusive |
| `OracleRetry`, `Metrics` | | the retry loop; the metrics store |
| `PlanIR` | | conversion and evaluation of a plan, as operators |
| `PlanPipeline` | `PlanIR` | the stages over a run directory |
| `RunLog`, `BeadExport` | | the run's log; the export |
| `ReviewGates` | | quorum, adapters, cutover checks, as operators |
| `Review` | `ReviewGates` | their processes over shared files |
| `QueueProofs`, `RoundLockProofs`, `RoundRunProofs`, `MetricsProofs`, `PlanPipelineProofs`, `RunLogProofs`, `BeadExportProofs`, `ReviewProofs` | the module each is named after | proofs (those of the refinement of `QueueContract` and of the readers in `QueueProofs`, those of `OracleRetry`, which `run_round` calls, in `RoundRunProofs`) |

`RoundRun` takes an exclusive lock for granted (and says so); `RoundLock`
examines how exclusive it is.  The `MC...` modules only name constants and
bounds.

### QueueLog, QueueReaders, QueueFold: the log and its readers

A line is an event `[kind, entry]` or `Garbage` (newline-terminated bytes that
`json.loads` rejects); `torn` says the file ends in a partial line.
`Unreadable` is the rule of `queue.sh:161-181`: a bad line raises unless it is
the last one.  `Apply` and `Fold` are the fold of `apr_lib_queue_derive` in
the code's own form; `Fallback` is what it does in Bash when there is no
python3, which is compared on undamaged logs only, since it parses nothing and
reads damaged lines in its own way; `SummaryStep`, `ById`, `Order`,
`NextQueued` are those of the other readers (without python3, status_summary
prints zeros and next_queued fails, so there is nothing to compare).  `Status` and `Selected` state the same results without
recursion, by which events follow the last enqueue of an entry: that is the
form the queue model uses.  `QueueReaders` compares the two forms on the file
as it is; `QueueFold` gives it every file of up to five lines, and the proofs
every file.  Fields that a fold merely copies
(slug, output path, timestamps) are left out.

### Queue, QueueContract: add, cancel, run

One process is one invocation.  `BeginAdd`, `BeginCancel`, `BeginRun` are the
command lines; `Acquire`, `Timeout`, `Release` are `apr_lib_queue_with_lock`
(`queue.sh:104-140`) in both forms; `AddLocked`, `CancelLocked`,
`CancelUnknown` are the clients' critical sections, `RunNothing`, `RunSelect`,
`Spawn`, `RunRecord` the steps of `_apr_lib_queue_run_once_locked`, between
which a process can be killed.  `ClientReport` and `RunnerReport` are what the
user is told.  Every append can fail, or, with `TornWrites`, leave a prefix of
its line.  `Kill` takes a process group at any point, `KillSubshell` only the
locked subshell while its round runs: with flock the round inherits descriptor
9 and so the lock (`orphans`, `lock = Orphan`), without flock the directory
stays for good (`Abandoned`).

Abstractions: reading the log after the lock was released (the status that
`cancel` prints) is part of the release; the id of an add is fresh (a UUID);
a runner's child exits with any code of `ExitCodes`.

`QueueContract` is the promise without log, locks and processes: entries move
forward, start in order, one at a time, never twice; a cancel wins but never
hits an executing round.  `ImplementsContract` maps `status` to the derived
status, `ahead` to the order of first mention and `active` to the rounds under
way.

### RoundLock

Each system call of `acquire_lock`, `release_lock` and
`background_lock_detach_parent` is an action: open, flock, truncate-and-stamp;
mkdir, write pid, read pid, `kill -0` of what was read (`seen`), rm, rmdir,
retry; the two assignments that name what is to be released (`NameFile`,
`NameDir`, kept in `named`); close, unlink.  `path` is the inode the lock path leads to, `fd`, `open` and `flocked` the
descriptors, `dir` and `pid` the directory.  `kid` is the oracle child, which
inherits the descriptor.  `Interrupt` is the INT/TERM trap, which may come at
any point from the open on and suspends the script while it releases (`trap`);
while a foreground oracle runs, Bash puts it off.  `ReleaseAgain` is a signal
that comes between the rm of a release and the assignment that forgets the
name.  `stray` is history: a trap left a directory that nobody signs.  `Kill` is
kill -9.
`breach` is a history variable: it becomes true when a lock is taken from
somebody entitled to it, in one of the ways `ExclusiveUntilBreach` lists.
Pids are not reused.  A directory handed to a background child stays behind
when the child ends, as in the code; the next attempt takes it over.

### FilesReport, RoundRun

`FilesReport` is `verify-files-report.py` over the lines of a log: the last
line of a path counts, sizes may differ by 5 % or 10 bytes, no line at all is
an oracle without reports.  Bytes and paths are what a line keeps.

`RoundRun` is `run_round` from the session check to the exit trap, for several
invocations of one round.  `Check` is `apr:5291-5324`, `WriteStarted`
`5410-5443`, `PromptCheck`, `LockRound`, `StartForeground`/`OracleEnds`,
`Validate`, `Recover`, `RecordMetrics`, `WriteFinished` (which the verifier may
abort under `set -e`, and does in strict mode at a mismatch),
`StartBackground`, `CheckBackground`, `Trap`.  `Term` runs the trap without
ending the script; Bash runs it only after a foreground oracle has returned, so
there is no `Term` at `"oracle"`.  `log` is the one run log of the round: a
foreground run cuts it and then all attempts of its oracle append their report
lines; `Attempts` is what they may report.  The output file is `none`, `short`
or `good` (what validation tells apart).  The ledger is its writer, its state
and what it says of the report.  Oracle and its sessions are external: since a
failing `oracle status`, or one that lists another slug, counts as no session
(`apr:1719`), `Check` may end the run as if there were one, or go on, whatever
is there.  Prompt assembly and the
modes that only print (dry run, render, manifest) are left out.

### OracleRetry

The loop of `run_oracle_with_retry`, one action per branch, for every
configuration of the six limits (`RetrySpec`).  `phase` is where in the loop it
is, and `Growth` what the backoff has been multiplied with.  A failure of either kind can be read
as the other, because `tee` may still be writing the file that is classified
(`apr:1568`, `1585`): a busy one before its text is there, a generic one by what
an earlier attempt left.  Oracle's own exit codes are taken not to be 12, the
code that stands for "busy".  Robot mode's JSON answer is left out.

### Metrics

One metrics file of one workflow, and invocations that each do one job: record
a round at the end of `run_round` (`apr:5705-5771`), read it (stats,
dashboard), backfill it, with or without `--force` (`apr:7928-8047`).  `stage`
is the function a process is in, `pc` where in it; `Advance` is what the
caller does next.  `Look` and `Put` are `metrics_init` with `metrics_migrate`,
which run under the lock for a write and without it for a read or a backfill;
`Load` and `Store` the read and the rename of a write, or, in stage `"read"`,
the read that `calculate_convergence` works on.  `Flock`, `Create`, `Sign`,
`ReadNote` (the pid, into `suspect`), `FindStale` (`kill -0` of it),
`RemoveStale`, `LockFails`, `Unlock` are `metrics_lock` and
`metrics_unlock`.  A failed write is fatal, or noticed, or neither, depending
on where it happens (`PutFails`, `StoreFails`), since `set -e` is suspended in
conditions.  A file that is not JSON (`broken`) is there from the start: a
reader is given nothing, a writer fails to migrate it (`MigrateFails`), and a
forced backfill replaces it.  `Kill` is a kill -9 at any point.

Abstractions: a file is the set of its rounds and the set of rounds its
convergence was computed from; the numbers in both are left out, and a
convergence is a function of the rounds read.  A file of a newer schema is
left alone by the code and is not in the initial states, nor is JSON of the
current version that does not fit the schema; `jq` and `bc` are
installed; a write is one rename.  `erased`, `breach`, `swallowed` and `solo`
are history variables that say which of the code's holes was used.

### PlanIR, PlanPipeline

`PlanIR` has the conversion of `normalize-plan-ir.py` and the evaluation of
`v18-replay-eval.py`.  A provider result is whether it carries a text hash; a
plan is its stage, the hashes of its references and whether it is enriched:
that is what the comparison and the evaluation tell apart.

`PlanPipeline` is `plan-pipeline.py`.  Each process is one invocation with an
action, and with or without `APR_V18_FORCE_FIXTURES` (`forced`); `FirstStage` is
the dispatch of `350-376`, `Call`/`Store` the fan-out slot by slot, `Normalize`
the conversion file by file, `ListPlans`/`ReadPlan`/`WriteComparison` and
`ReadComparison`/`ReadPlan`/`Synthesize` the other stages: the directory is
listed once, its plans are read one file at a time, and each read and each write
is an action of its own, between which the plans may change.  `ReadsHalf` is a reader that meets a file truncated by
`write_text`, `Kill` a kill or full disk at any write, `Deposit` somebody who
saves a browser result by hand.  `Replay` and `CheckCache` are the programs
that only read.  `mishaps` is a history variable that names what went wrong.

### RunLog

The run directory's `events.jsonl`.  `CreateLayout` (the empty file),
`RecordEvent` (which creates it if need be; the first event of `init` is such
an append too), `Confirm`, `TornEvent` are `run-state-machine.py`, `Report` and `RunStatus`
`v18-run-ops.py`, `Reconstruct` the other reader.  `StartProfile`,
`RunCommand`, `EmptyLog`, `WriteEvents`, `Summarise`, `Abort` are
`mock-e2e-profiles.py`, whose log is written from the commands it ran, twice,
into a directory named by the second.  `write_text` truncates the file when it
opens it and writes from the start, so that what two harnesses write may lie one
over the other (`WritesOver`, `Leftovers`).  A command's stage is the tool that
its envelope names, so that several commands share one (`StageOf`).  An event
is its number, stage and outcome.

### BeadExport

`Operations` is the list that `plan-export-beads.py` proposes, `ExportErrors`
and `ExportDrifts` its validation, `Generate` and `ValidateSaved` its two
modes.  `BeginExport`, `ExportItem`, `EndExport`, `KillExport` are
`export-beads.py`, which creates one bead after the other through `br`:
`CreatesBead`, `CreatesSilently` (a bead is made, but br exits with an error
after that or prints what is not JSON), `FailsToCreate`.  `EditPlan` is whoever
edits the plan; `Strike`, `PutIn`, `Change` and `Recount` whoever edits the
saved export: they strike an operation, put one in, change one into another, or
make the summary fit.  `touched` remembers how it was edited.  A plan item keeps
its id, its dependencies and the ids of its criteria and tests; `Slug` is what
`slugify` makes of an id, which may be the same for two of them.  Nothing in the code keeps a plan from listing an id
twice, so that an invocation's claims are told apart by their line (`Claims`).

### ReviewGates, Review

`ReviewGates` has the decisions: the quorum and its degraded labels
(`enforce-review-quorum.py`), what an adapter makes up for a scenario
(`xai-deepseek-adapters.py`), and the checks of the rehearsal and of the
premortem over fixtures and environment.  A fixture is its state (good, bad,
absent, torn, and for the checklist two states that only one of the programs
notices), a waiver its eligibility and its expiry, which may be without a zone.

`Review` has the processes.  An adapter makes up a scenario (`RunScenario`) or
calls a provider (`ResolvePrompt`, `Send`, `WriteAnswer`; `InvokeCli` and so on
for Claude and Codex) and overwrites a reviewer's file; `BeginQuorum`,
`ReadResult`, `ReadWaiver`, `Decide` are the check, one file at a time, which a
file that is not JSON ends, and so does a waiver whose expiry has no zone (its
comparison raises).  `delivered` and `excused` are history: who had a result that
counts, or a valid waiver, at some time since the check began;
`BeginRehearsal`, `CheckFixtures`, `Smoke`, `SmokeTimesOut`, `WriteReport` the
rehearsal; `Premortem` the premortem; `Tick` the clock, with which waivers and
the docs snapshot expire.  `Skew` is how far local time is behind UTC, since
`parse_utc` (`live-cutover-dress-rehearsal.py:93`) reads UTC with `mktime`.

Definitions described as *wrong variants*, and those named after another one
with a word added, are plausible bugs next to the definition they vary; no
action uses them.  Each property is paired with one that breaks it (`mutants`
in `PROJECT.json`).

## 3. Runs

| Run | Question | Bounds |
|---|---|---|
| `queue` (`MCQueue`) | Are rounds serial, started once, does what has ended stay ended, and is the contract implemented, with flock? | 2 clients, 2 runners, 2 entries, 1 cancel, 1 fault anywhere, exit codes 0, 1, 2, `--max` 1 or 3 |
| `queue_mkdir` | Does everything return and settle, and is an add durable, with the lock directory, which can be abandoned, and with torn appends? | 1 client, 2 runners, 2 entries, 1 fault; fair |
| `algorithms` (`MCAlgorithms`) | Do the five readers of the queue's log agree with each other and with `Status`, and select the oldest entry?  Are the budgets and the return code of the retry loop right? | 2 entries, every log of at most 5 lines, torn or not; 1-3 attempts, 1-4 busy attempts, zero and nonzero waits and caps |
| `round_lock` | Does the lock exclude until a named breach, name its owner, never wedge? | 3 processes, 7 inodes, 2 signals, both kinds of lock |
| `round_lock_race` | Does it exclude without any fault? (finding) | 3 processes, 3 inodes, no faults, both kinds of lock |
| `round_run` | One oracle, post-processing under the lock, honest success and ledger, lock freed? | 2 invocations, one strict, both modes, `--force` or not, every initial output, 2 files, 6 reports, 2 signals; fair |
| `metrics` | Are reported rounds kept, convergences grounded, damaged files repaired, and does everything end? | 2 invocations of any job, 2 rounds, every initial file whose convergence is of rounds it has, a broken file, a stale lock file, both kinds of lock, 1 fault; fair; the two jobs in one order, since the processes are interchangeable |
| `plan_pipeline` | What does a synthesis contain and say, and when is a provider asked again? | 3 invocations, 2 at a time, 3 routes over 3 slots, 1 kill, 1 result saved by hand |
| `run_log` | Is a recorded event readable, do the readers agree, does a bundle fit its profile? | 2 recorders, 3 events, 2 torn; 2 harnesses, 4 commands of 2 tools |
| `bead_export` | Which beads exist after which answers, what does a quiet validation mean, can it be applied in order? | 2 exporters, 7 plans of at most 2 items, 3 edits while nobody exports, 1 beside exports |
| `review` | Do verdicts rest on what was there, does a failure never count, are smokes justified? | 4 reviewers, 2 invocations at a time, 1 tick, every single fixture wrong, every environment |
| `review_waiver` | Is every required reviewer of an eligible synthesis one who delivered? (finding) | as `review` |

Why the bounds are enough. Two runners are the smallest competition for an
entry, two entries the smallest order, and a second client shows adds that
overtake each other; the proofs below lift the safety part to any number. One
fault is placed at every point of every interleaving. Five lines let an entry
be enqueued, started, finished, canceled and enqueued again, or two entries
interleave in every order. Three lock processes are needed for both flock and
mkdir races (one releases or is stale, two contend); seven inodes are as many
as three processes and one left-over file ever create. The six reports of
`round_run` have a file missing, cut, refused then uploaded, uploaded then
refused, and named though nobody asked. Each limit of the retry loop is the
first to run out in some configuration. Two metrics processes suffice for every
overlap of a writer with an unlocked one and for the takeover of a stale lock
file; two rounds distinguish a lost round from a lost file. In the pipeline a
third invocation can use what two overlapping ones, or a killed one, left
behind; the routes have a slot with an adapter, one without and one with no
source. Two torn appends can follow each other or hit the same line. The plans
of the export are in order, out of order, dangling, with two ids of one slug,
with an id twice, not ready and empty; two exporters are a failure and its
retry, and three edits strike one operation, put in another and make the
summary fit. The saved export and the tracker have only the plan in common, so
that beside exports one edit is enough. `algorithms` runs two modules that
share nothing, one of them at rest while the other goes. In `review` quorum and
rehearsal share only the clock and the keys, so the initial worlds vary what
the one reads or what the other reads; the proofs have no such restriction.

Constants that only bound the search are `MaxCancels`, `MaxFaults`,
`MaxInodes`, `MaxLines`, `MaxActive`, `MaxKills`, `MaxEvents`, `MaxTears`,
`MaxEdits`, `MaxTime`.

**Fairness.**  `Queue!Fairness` is weak fairness of each process's own steps:
a script is sequential, `flock -w 30` and the mkdir loop give up after 30 s,
and Oracle has a timeout of its own.  It asks for no new invocation and no
kill.  `RoundRun!FairSpec` and `Metrics!FairSpec` say the same of each
invocation.  Waiting for a
lock needs no strong fairness, since the timeout ends it.  The v18 programs
have no liveness property: they wait for nothing but their own children, whose
timeouts are actions of the model.

**Deadlock checking** is off where the system really stops: each process of
`RoundLock`, `RoundRun`, `Metrics`, `BeadExport`, `RunLog` and `Review` runs
once, and `MCAlgorithms` ends at the longest log and with the loop.
`PlanPipeline` says with `AllEnded` that only a finished directory may stutter.

## 4. What the runs show

The safety and liveness properties of section 3 hold, except in two runs whose
violation is the result (`findings` in `PROJECT.json`):

* `round_lock_race`: **closing before unlinking can admit two owners**
  (`apr:685`).  The same property fails with `Kinds <- {FALSE}`, one step later:
  the stale-lock cleanup (`apr:657`) removes the pid file by path after checking
  it, although `apr:655-656` says it cannot hit another contender.
* `review_waiver`: **a waiver stands in for a required reviewer**
  (`enforce-review-quorum.py:84-92` never reads `non_waivable_slots`), which
  docs/degradation-waiver-policy.md:7-11, spec.md:818 and
  fixtures/live-cutover-checklist.json:83 exclude.  `NoSilentDegradation` is
  what remains true: such a waiver shows as a label.

The documents of the repository say more that the code does not do.  Each of
these has a configuration of its own, beside the regular runs, in which TLC
finds the counterexample; the property it checks is the document's sentence.

| What the document says | What the code does | Counterexample |
|---|---|---|
| queue-events.md:122-125, 217: events after `done`, `failed` or `canceled` do not alter the derived status, but for a cancel | every reader lets a finish after a fail, a fail after a finish and a repeated enqueue change it (`queue.sh:186-221`).  apr's own commands never write such events, which is what `EndedStays` says in the run `queue` (theorem `EndsStay`) | `EndedStays`, `MCQueueFoldEnded.cfg` (`MCQueueFold`) |
| queue-events.md:193, 216: the partial line of a crash is ignored | nothing repairs it: the next append completes it to garbage, and after one more line derive, next_queued and state_json raise for good (`queue.sh:97`) | `AlwaysLegible`, `MCQueueTorn.cfg` (`MCQueue`) |
| `apr:546`: the trap updates a ledger left hanging | it greps for `"state": "started"`, and `ledger.sh:160-170` writes no space there (`apr:549`) | `NoneLeftHanging`, `MCRoundRunHanging.cfg` (`MCRoundRun`) |
| run-ledger-schema.md:69-70: the state machine is strictly forward-only | the started ledger is written before the lock is taken, over one that is finished by then (`apr:5442`) | `SignedOffForGood`, `MCRoundRunLedger.cfg` (`MCRoundRun`) |
| artifact-index-atomic-writes.md:13-16: artifacts are written to a temporary file and renamed, under the run lock | `write_json` truncates in place and takes no lock (`plan-pipeline.py:53-55`) | `WrittenWhole`, `MCPlanPipelineTorn.cfg` (`MCPlanPipeline`) |
| mock-e2e-profiles.md:5-10: each profile run creates its own events and summary | the run id is the profile and the second (`mock-e2e-profiles.py:250`) | `EachRunItsLog`, `MCRunLogShared.cfg` (`MCRunLog`) |
| plan-export-beads.md:24: duplicate detection is explicit, by slug and id | there is only the sentence (`plan-export-beads.py:223`) | `NoTwins`, `MCBeadTwins.cfg` (`MCBeadExport`) |
| ROBOTS.md:128, operator-troubleshooting.md:66: retry when `retry_safe` is true | a failed export says so after it has created beads, which a retry creates again (`export-beads.py:118-123`) | `RetryMakesNoTwins`, `MCBeadRetry.cfg` (`MCBeadExport`) |
| live-cutover-dress-rehearsal.md:12: the output always carries the discriminator | a smoke that times out ends the rehearsal without any output (`live-cutover-dress-rehearsal.py:400`) | `AttemptsSpeak`, `MCReviewSilent.cfg` (`MCReview`) |

Where the code does something a reader may not expect, the properties say so
as an exception or the model does the same:

* A torn append loses the next event (`queue.sh:97`): the guard `Intact` of
  `AddDurable`.  The run log does the same (`run-state-machine.py:53`): the
  bound in `RecordedSurvives`.
* A runner that cannot read the log reports an empty queue (`queue.sh:494`:
  `RunNothing`).
* A round that exits with 2 is reported as "Queue is empty" (`apr:3524`).
* A background run leaves its ledger at started (`apr:5851`), whatever becomes
  of it.
* A TERM releases the round lock and the script goes on (`apr:583`): the
  `termed` conditions of `RoundRun`.
* A lock directory stays for good if a kill hits between mkdir and the pid
  (`apr:632`), or an INT or TERM between the two assignments that name what is
  to be released (`apr:637`): `NeverWedged` names both (`stray`).
* A recorded round can be lost (`apr:3973`): creation and migration of the
  metrics file on behalf of a reader or a backfill are not under the lock and
  put back what they saw before: the exceptions of `ReportedKept`.
* The files report accumulates over the attempts of a round, and an empty
  upload of a file of up to 10 bytes passes; a mismatch in strict mode ends the
  script before the ledger is finished (`apr:5865`).
* A stage of the pipeline is taken as done if its directory has any file
  (`plan-pipeline.py:353-374`), hence the mishaps in `CompleteUnlessMishap`;
  without `APR_V18_FORCE_FIXTURES` the normalise stage always fails
  (`normalize-plan-ir.py` calls a mocked enrichment an error), and
  `manage-run-cache.py --action check` always answers with a miss, since no
  result has a stage.
* `v18-run-ops.py` lists a stage that failed and was retried as failed and
  completed: the last clause of `StagesAgree`.
* A saved export is validated without its plan, and edits that strike as many
  operations as they put in, or that make the summary fit, are not seen: the
  condition `OneWay` of `QuietMeansWhole`.
* `QuorumGrounded` is about the time since the check began: a verdict may count
  a result that was overwritten, or a waiver that expired, while the check
  read the other files.
* `parse_utc` reads UTC as local time, so that a docs snapshot may be accepted
  up to the zone's offset after it expired: `Skew` in `SmokeJustified`.
* A rehearsal's log bundle is named by the second, so that a second rehearsal
  of the same second replaces it, and `max_live_invocations`
  (`live-cutover-dress-rehearsal.py:464`) is printed and not enforced across
  rehearsals.
* `--output` of a live call receives the text of the answer and not a provider
  result (`xai-deepseek-adapters.py:363`), so that the quorum check ends with
  an error on it: `FailureNeverCounts` holds also because of that.

## 5. Proofs

Checked by TLAPS for every value of the constants, from the named assumptions
of the modules only: distinct model values, finite sets of slots and
recorders, bounds that are numbers, a child with a pid of its own
(`RoundLock!PidAssumption`), a list of commands that ends with the report
(`RunLog!MatrixIsList`).  Each safety invariant below follows from an inductive
one, which TLC checked before it was proved; what the inductive one adds is
said here.

**Queue.**  `QueueProofs!TypeCorrect`: `Spec => []TypeOK`; the inductive
invariant adds `EntryInv`, that a process in the middle of something works on
an entry, since a step indexes the log and `spawned` with it.
`RoundsAreSerial`: `SerialRounds` compares pairs of runners and is not
inductive: nothing in it says why a second process cannot get in.  `LockInv`
says it: whoever is inside owns the lock, and while a round is orphaned the
lock is the orphan's or abandoned.
`StartedOnce`: if `~TornWrites`, `Spec => []RunOnce`.  `OnceInv` relates the
counter to the log: an entry that was spawned has its start event in the log
with no later enqueue, so its status is never "queued" again; a pending add has
an id that no event mentions; and between the event and the child nobody has
spawned it.  The assumption is necessary: a start event that merges into a
partial line is not seen by the readers.  The lemmas about appended logs
(`HasAppend`, `SeenAppend`, `SeenLast`) carry the reasoning about `Status`,
which is why it is defined without recursion.
`AddsLast` (`AddDurable`, torn writes included): by `DurableInv` a client
that is told ok, or about to be, has its event in the log, and the lemmas about
appends show that no append touches a line that is complete.
`QueueImplementsContract`: under `~TornWrites`, as in the run `queue`, the
processes over the log refine `QueueContract`: the initial state maps to the
initial state and every step to a step of the contract or a stutter.
`ForwardInv` supplies the contract's guards: no line is garbage, every entry in
the log was enqueued, and a round under way is that of an entry whose status is
"running"; the lemmas say what one more event does to every status and to the
order of first mention.  `OnlyRunningSpawned` (`SpawnsOnlyRunning`) comes from
the same invariant.

The readers are functions defined line by line, and no induction theorem can be
used for them.  That such a function exists, is unique and computes what
`Status` says is proved by least counterexample instead: the natural numbers
that refute the claim have a least element (`Least`), whose predecessor
does not refute it, and one more line leads to a contradiction.  So
`FoldIsStatus`, and with it
`OnEveryLog` (`ReadersAgree`, `SelectionIsOldest`) for every sequence of lines,
whoever wrote them; `ReadersAlwaysAgree` and `OldestIsSelected` say the same of
the file that the queue writes.  `OnlyEnqueueRevives` is what the readers
guarantee about ended entries on any log, which is less than the documents
say; `EndsStay` (`EndedStays`) is what the queue's processes add to it, under
`~TornWrites`: they write no such event, which follows from the refinement, since
the contract keeps ends.  `LogsAreLegible` (`AlwaysLegible`) says that torn
appends are the one cause of an unreadable log.

**Round lock.**  `RoundLockProofs`, for any number of processes and inodes, both
kinds of lock: `OneOwner` (`ExclusiveUntilBreach`), `OwnerSigns`
(`SignedByOwner`) and `LockRecovers` (`NeverWedged`).  Exclusion is not
inductive, since an inode is locked and a path is believed.  `LockInv` adds
which branch of the script each process is in (`Branches`) and what it has in
hand there (`Stages`); that a flock has one holder, with the open descriptors
that keep it (`Flocked`); that until a breach every open descriptor leads to the
inode at the path, which its owner has signed (`OnePath`), and the directory
holds its owner's pid or somebody is about to write it (`Signed`); and whose it
is to remove a directory that nobody signed (`Mended`).

**Round.**  `RoundRunProofs`, for any number of runs, signals, files and
reports: `TypeCorrect`; `OracleUnderLock` (`UnderLock`, from `LockInv`: who is
between the lock and the exit holds it, a detached oracle has it, and nobody
else's trap frees it); `RecordedIsGood` (the action property `RecordsOnlyGood`,
from `GoodInv`: the output of a run past validation is good, because
`AloneAfterwards` leaves nobody to spoil it); `SuccessSigned`;
`LedgerTellsTruth` (`AttachmentsTrusted`).  The last needs a fact about
`FilesReport` alone, `TrustMeansUploaded`: the line that `LastLine` chooses
exists and is the last, which the least-number principle of the library gives.
`TrustInv` then ties the ledger to the log of the run that signed it.

**Oracle retry.**  `RoundRunProofs!ReturnsHonestly` (`ReturnHonest`, which
needs that the code for "busy", 12, is neither 0 nor 1) and `BudgetsHold`
(`WithinBudgets`), from `RetryInv`: every invocation is charged to one budget
(`Charged`), a busy loop that goes on has something left (`Solvent`), the time
slept is half of what the backoff has grown by (`Waited`), and the backoff has
grown by the power of three of the sleeps so far (`Grown`).  That one more
sleep multiplies the power (`GrowthStep`) is again proved by least
counterexample.

**Metrics.**  `MetricsProofs`, for any processes and rounds, and any initial
file whose convergence is of rounds it has: `ReportsKept` (`ReportedKept`),
`ConvergenceTrue` (`ConvergenceGrounded`), `SoloRepairs` (`SoloRunRepairs`).
`Shape` says what a process has in hand at each point of each stage,
`Exclusive` that until a breach one process is inside the lock, `Grounded` that
what was read is still there, and `Alone` what a process without company finds.

**Plan pipeline.**  `PlanPipelineProofs!NothingMissing`
(`CompleteUnlessMishap`), `SynthesisTrue` (`SynthesisGrounded`) and `AskedOnce`
(`AnsweredOnce`, an action property).  `PipelineInv` says that no file disappears
and what an invocation works on was there (`Present`); that plans come from
conversions that succeeded and a comparison has counted the plans it holds
(`Honest`); that until an overlap one invocation is at work (`Alone`), and the
comparison is of the plans that are there but for a later explicit normalize
(`Current`); that until a mishap a directory that nobody is filling holds
nothing or all the route asks for (`Filled`); and that those a fan-out has
still to ask have no result (`Unasked`).  `Ranks` and `PickedFacts` show that the model's choice of the
next slot goes through them in the order of the route.

**Run log.**  `RunLogProofs!EachTearCostsOne` (`RecordedSurvives`): what is
counted against the torn appends is not the events that are lost but these
and, while the last line is cut, the one that the next append will cost; and
since two equal events would hide each other's loss, the invariant
`Survives` keeps the numbers of all events apart, those included that are
written but not reported.  `ReadersAgree` (`StagesAgree`): `SameStory` proves
the agreement of the two folds for every sequence of events, so that nothing
depends on how the log came about.  `AloneItFits` (`BundleFits`): `Owned` ties
log, report and summary to the commands that a harness has run.

**Bead export.**  `BeadExportProofs`, for plans of every length, any number of
invocations and any edits.  `AllBeadsAccounted` (`BeadsAccounted`) and
`OkAlwaysMeansAll` (`OkMeansAll`): `ExportInv` says that what an invocation has
said is about the lines it has behind it, one by one (`Told`), and that the
tracker has a bead for each claim (`Counted`); a new line adds one claim, since
claims are pairs of invocation and position, also if the plan lists the id
again.  `QuietAlwaysMeansWhole` (`QuietMeansWhole`) and `AlwaysAppliesInOrder`
(`AppliesInOrder`): `Saved` says that a saved export has the summary of what
its plan gave unless somebody made the summary fit, that every operation in it
is one of some plan, that its verdict is about it as it is, and that it is
shorter than it was made if it was only struck from, and longer if it was only
added to (`Traced`); so equal counts mean that nothing was done.
`FlattenSeq` is a recursive function of the library; `FlattenIs` and
`LaidStep` give what it does position by position, by least counterexample:
the operations of the first n items are laid one after the other, and every
position belongs to one item.

**Review.**  `ReviewProofs!TypeCorrect`, for every set of reviewers, policy
and world.  `NoSilentDegradation` and `CoveredCounts` are about the decision
alone: successes and waivers are disjoint, so that the code's sum counts no
slot twice.  `VerdictsGrounded` (`QuorumGrounded`): the inductive invariant
`QuorumInv` says what a check in the middle of its reading has understood:
whoever's result it has read or could read now, and counts, is in `delivered`;
whoever it takes for waived, or could now, is in `excused`; and its verdict is
the decision about what it has read.  `NoFailureCounts`
(`FailureNeverCounts`): a result that counts can only come from a scenario that
succeeded, and a scenario was never sent to anybody.

**Cutover.**  `ReviewProofs!SmokesAreJustified` (`SmokeJustified`), from
`CutoverInv`: `Sound`, what a rehearsal that has passed its checks knows about
a world that nothing changes, and `Foresaw`, what a premortem has found.

Only model-checked: the liveness properties `InvocationReturns` and
`RoundSettles` of the queue, `LockFreed` of the round and `EveryRunEnds` of the
metrics store, since fairness and ENABLED are outside the prover's reach.
Every other property that a passing run checks is stated by a theorem.

## 6. Plan

The map of the source is to be extended first where a component is only partly
modelled (the ledger's fields, the browser path of the Oracle CLI).  Proofs
still worth writing: that `RoundLock` gives `RoundRun` the exclusive lock it
assumes, as a refinement of a lock that is taken and freed in one step, under
the condition that no breach happens.

## 7. Not modelled

* The stateless gates of the bundle (`enforce-stage-readiness.py`,
  `enforce-runtime-budget.py`, `enforce-access-policy.py`, browser evidence and
  integration checks): each reads one or two files once, looks something up and
  prints a verdict.  Nothing is written and nothing waits, so unit tests reach
  all of it.
* The prompt compiler and linter, `apr-mock.py`, templates, redaction,
  validation, lint, manifests, acknowledgements and terminal output: text
  conversions whose properties are about strings.
* The conformance, schema and regression scripts: test programs over fixtures.
* `busy_wait.sh` and `cache.sh`: no command of apr uses them yet.
* The convergence signals: weighted decimal fractions in awk and jq; `Metrics`
  has which rounds they are about.
* Oracle patching, self-update and the installer: they edit files of packages
  that are not in this repository, or work over the network.
* Robot mode (JSON front ends of the modelled operations), the setup wizard and
  configuration, and the commands that only read.

## 8. Running

    tlc -workers 2 -config MCQueue.cfg MCQueue
    tlc -workers 2 -config MCReview.cfg MCReview
    tlc -workers 2 -config MCQueueTorn.cfg MCQueue    # a counterexample of section 4
    tlapm QueueProofs.tla
    tlapm ReviewProofs.tla
