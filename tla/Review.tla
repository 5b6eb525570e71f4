------------------------------- MODULE Review -------------------------------
(***************************************************************************)
(* The review stage of a planning run and the live cutover: provider       *)
(* adapters write results, a quorum check reads them and the waivers file  *)
(* by file, and a rehearsal decides on a live smoke, while time passes.    *)
(* Each process is one invocation of one of these programs.                *)
(***************************************************************************)
EXTENDS ReviewGates

CONSTANTS Procs,         \* invocations; each runs once
          Adapters,      \* the reviewers xai-deepseek-adapters.py answers for
          ProviderOf(_), \* their providers
          CliAdapters,   \* the reviewers claude-codex-adapters.py answers for
          Skew,          \* how far local time is behind UTC
          NoFile, Text,  \* no file; text that is not the JSON it should be
          Nothing,
          Worlds,        \* the files and environments to start with
          MaxTime, MaxActive

ASSUME AdaptersReview == Adapters \subseteq Reviewers /\ CliAdapters \subseteq Reviewers \ Adapters
ASSUME BoundsAreNumbers == MaxTime \in Nat /\ MaxActive \in Nat /\ Skew \in Int

VARIABLES now,      \* the time
          results,  \* per reviewer: the result's status, Text or NoFile
          waivers,  \* per reviewer: a fallback-waiver.json, or NoFile
          fixtures, \* the state of each fixture of the rehearsal and the premortem
          expires,  \* when the provider docs snapshot expires
          env,      \* approval, live switch, remote and keys in the environment
          logs,     \* per second: the report in its log bundle
          inv       \* what each invocation does

vars == <<now, results, waivers, fixtures, expires, env, logs, inv>>
world == <<waivers, fixtures, expires, env>>

Statuses == {"success", "failed"}
Times == 0..MaxTime
Waivers == [eligible : BOOLEAN, expiry : Expiries, expires : Times]
Environments == [approval : BOOLEAN, switch : BOOLEAN, remote : Remotes, keys : BOOLEAN]

ASSUME FilesDiffer ==
    /\ Text \notin Statuses \cup {NoFile} /\ NoFile \notin Statuses
    /\ {Text, NoFile, "failed"} \cap Eligible = {}
ASSUME WaiversDiffer == {Text, NoFile} \cap Waivers = {}
ASSUME WorldsAreTyped ==
    \A w \in Worlds :
        /\ w.results \in [Reviewers -> Statuses \cup {Text, NoFile}]
        /\ w.waivers \in [Reviewers -> Waivers \cup {Text, NoFile}]
        /\ \A f \in FixtureNames \cup PremortemNames : w.fixtures[f] \in States(f)
        /\ w.expires \in Times /\ w.env \in Environments

Idle == [tool |-> "none", pc |-> "idle"]
Running(p) == inv[p].pc \notin {"idle", "ended"}
MayBegin(p) == inv[p].pc = "idle" /\ Cardinality({q \in Procs : Running(q)}) < MaxActive
Becomes(p, me) == inv' = [inv EXCEPT ![p] = me]
Goes(p, pc) == Becomes(p, [inv[p] EXCEPT !.pc = pc])

-----------------------------------------------------------------------------
(* Provider adapters, with --output the reviewer's result file.            *)

\* Either a scenario, which is made up, or the prompt of a live call.
BeginAdapter(p) ==
    /\ MayBegin(p)
    /\ \E s \in Adapters, pc \in {"scenario", "prompt"} :
         Becomes(p, [tool |-> "adapter", pc |-> pc, slot |-> s, sent |-> FALSE, ok |-> FALSE])
    /\ UNCHANGED <<now, results, world, logs>>

AdapterEnds(p, sent, ok) ==
    Becomes(p, [inv[p] EXCEPT !.pc = "ended", !.sent = sent, !.ok = ok])

Counts(file) == file \in Eligible
Excuses(waiver, time) == waiver \in Waivers /\ WaiverValid(waiver, time)

\* History: a check that has begun remembers who delivered in the meantime.
Overwrites(p, s, file, me) ==
    /\ results' = [results EXCEPT ![s] = file]
    /\ inv' = [q \in Procs |->
                 IF q = p THEN me
                 ELSE IF inv[q].tool = "quorum" /\ Counts(file)
                 THEN [inv[q] EXCEPT !.delivered = @ \cup {s}]
                 ELSE inv[q]]

\* A scenario's result is written even if the scenario is a failure.
RunScenario(p) ==
    /\ inv[p].pc = "scenario"
    /\ LET s == inv[p].slot
           provider == ProviderOf(s)
       IN \E named \in Scenarios, checkEnv \in BOOLEAN :
            LET scenario == ScenarioOf(named, checkEnv, env.keys) IN
            IF NoSuchScenario(provider, scenario)
            THEN AdapterEnds(p, FALSE, FALSE) /\ UNCHANGED results
            ELSE Overwrites(p, s, Build(provider, scenario).status,
                            [inv[p] EXCEPT !.pc = "ended", !.ok = ScenarioOk(provider, scenario)])
    /\ UNCHANGED <<now, world, logs>>

\* resolve_prompt_text and the key: whatever is wrong is wrong before the call.
ResolvePrompt(p) ==
    /\ inv[p].pc = "prompt"
    /\ \E readable \in BOOLEAN :
         IF readable /\ env.keys THEN Goes(p, "send") ELSE AdapterEnds(p, FALSE, FALSE)
    /\ UNCHANGED <<now, results, world, logs>>

\* The call: an answer with content, or anything else (an HTTP error, a
\* timeout, no JSON, no choice, no content), which is an error.
Send(p) ==
    /\ inv[p].pc = "send"
    /\ \/ Becomes(p, [inv[p] EXCEPT !.pc = "write", !.sent = TRUE])
       \/ AdapterEnds(p, TRUE, FALSE)
    /\ UNCHANGED <<now, results, world, logs>>

\* --output receives the text of the answer and not the provider result.
WriteAnswer(p) ==
    /\ inv[p].pc = "write"
    /\ Overwrites(p, inv[p].slot, Text, [inv[p] EXCEPT !.pc = "ended", !.ok = TRUE])
    /\ UNCHANGED <<now, world, logs>>

\* The adapters of the claude and codex programs, which have a login of their
\* own: what they do for "invoke"; "check" and "intake" touch nothing.
BeginCli(p) ==
    /\ MayBegin(p)
    /\ \E s \in CliAdapters :
         Becomes(p, [tool |-> "adapter", pc |-> "cli prompt", slot |-> s, sent |-> FALSE, ok |-> FALSE])
    /\ UNCHANGED <<now, results, world, logs>>

ResolveCliPrompt(p) ==
    /\ inv[p].pc = "cli prompt"
    /\ Goes(p, "cli send") \/ AdapterEnds(p, FALSE, FALSE)
    /\ UNCHANGED <<now, results, world, logs>>

\* The program answers, or fails: it is not there, which calls nobody, or it
\* exits with an error, says nothing or times out.
InvokeCli(p) ==
    /\ inv[p].pc = "cli send"
    /\ \/ Becomes(p, [inv[p] EXCEPT !.pc = "cli write", !.sent = TRUE])
       \/ \E sent \in BOOLEAN : AdapterEnds(p, sent, FALSE)
    /\ UNCHANGED <<now, results, world, logs>>

WriteCliAnswer(p) ==
    /\ inv[p].pc = "cli write"
    /\ Overwrites(p, inv[p].slot, Text, [inv[p] EXCEPT !.pc = "ended", !.ok = TRUE])
    /\ UNCHANGED <<now, world, logs>>

\* No directory, or a full disk that leaves half a file, with --output of
\* either adapter; a provider that was called has been paid.
WriteFails(p) ==
    /\ inv[p].pc \in {"scenario", "write", "cli write"}
    /\ LET failed == [inv[p] EXCEPT !.pc = "ended"] IN
         \/ Becomes(p, failed) /\ UNCHANGED results
         \/ Overwrites(p, inv[p].slot, Text, failed)
    /\ UNCHANGED <<now, world, logs>>

-----------------------------------------------------------------------------
(* Review quorum.                                                          *)

\* The files that are there are named on the command line, in any order.
\* "delivered" and "excused" are history: who has had a result that counts, or a
\* valid waiver, at some time since the check began.
BeginQuorum(p) ==
    /\ MayBegin(p)
    /\ Becomes(p, [tool |-> "quorum", pc |-> "reading",
                   todo |-> {s \in Reviewers : results[s] # NoFile},
                   files |-> {s \in Reviewers : waivers[s] # NoFile},
                   status |-> [s \in Reviewers |-> Missing], waived |-> {},
                   delivered |-> {s \in Reviewers : Counts(results[s])},
                   excused |-> {s \in Reviewers : Excuses(waivers[s], now)},
                   eligible |-> FALSE, labelled |-> FALSE])
    /\ UNCHANGED <<now, results, world, logs>>

\* A file that does not parse ends the check.
ReadResult(p) ==
    /\ inv[p].pc = "reading"
    /\ \E s \in inv[p].todo :
         IF results[s] = Text THEN Goes(p, "ended")
         ELSE Becomes(p, [inv[p] EXCEPT !.todo = @ \ {s}, !.status[s] = results[s]])
    /\ UNCHANGED <<now, results, world, logs>>

\* After the results, the waivers.  A time without a zone does not compare with
\* the present: that TypeError ends the check too.
Unreadable(waiver) == waiver = Text \/ (waiver \in Waivers /\ waiver.expiry = "naive")
TakesWaiver(p, s, valid) ==
    Becomes(p, [inv[p] EXCEPT !.files = @ \ {s},
                  !.waived = IF valid THEN @ \cup {s} ELSE @])

ReadWaiverUnread(p) ==
    /\ inv[p].pc = "reading" /\ inv[p].todo = {}
    /\ \E s \in inv[p].files :
         IF Unreadable(waivers[s]) THEN Goes(p, "ended") ELSE TakesWaiver(p, s, TRUE)
    /\ UNCHANGED <<now, results, world, logs>>

ReadWaiver(p) ==
    /\ inv[p].pc = "reading" /\ inv[p].todo = {}
    /\ \E s \in inv[p].files :
         IF Unreadable(waivers[s]) THEN Goes(p, "ended")
         ELSE TakesWaiver(p, s, Excuses(waivers[s], now))
    /\ UNCHANGED <<now, results, world, logs>>

Decide(p) ==
    /\ inv[p].pc = "reading" /\ inv[p].todo = {} /\ inv[p].files = {}
    /\ LET me == inv[p] IN
         Becomes(p, [me EXCEPT !.pc = "ended",
                       !.eligible = SynthesisEligible(me.status, me.waived),
                       !.labelled = Labelled(me.status, me.waived)])
    /\ UNCHANGED <<now, results, world, logs>>

-----------------------------------------------------------------------------
(* Live cutover rehearsal.                                                 *)

\* The log bundle is named by the second.
BeginRehearsal(p) ==
    /\ MayBegin(p)
    /\ \E live \in BOOLEAN :
         Becomes(p, [tool |-> "rehearsal", pc |-> "checks", live |-> live, second |-> now,
                     errors |-> EnvErrors(env, live), checked |-> -1,
                     attempted |-> FALSE, said |-> Nothing])
    /\ UNCHANGED <<now, results, world, logs>>

CheckFixtures(p) ==
    /\ inv[p].pc = "checks"
    /\ LET me == inv[p]
           found == FixtureErrors(fixtures, [now |-> now, expires |-> expires, skew |-> Skew,
                                             live |-> me.live, key |-> env.keys])
           errors == me.errors \/ found # {}
       IN Becomes(p, [me EXCEPT !.errors = errors, !.checked = now,
                                !.pc = IF me.live /\ ~errors THEN "smoke" ELSE "report"])
    /\ UNCHANGED <<now, results, world, logs>>

\* The smoke script passes, fails, or is not there at all.
Smoke(p) ==
    /\ inv[p].pc = "smoke"
    /\ \/ \E passes \in BOOLEAN :
            Becomes(p, [inv[p] EXCEPT !.pc = "report", !.attempted = TRUE, !.errors = ~passes])
       \/ Becomes(p, [inv[p] EXCEPT !.pc = "report", !.errors = TRUE])
    /\ UNCHANGED <<now, results, world, logs>>

\* After an hour TimeoutExpired ends the rehearsal, which catches only
\* RuntimeError: there is neither an envelope nor a log bundle.
SmokeTimesOut(p) ==
    /\ inv[p].pc = "smoke"
    /\ Becomes(p, [inv[p] EXCEPT !.pc = "ended", !.attempted = TRUE])
    /\ UNCHANGED <<now, results, world, logs>>

RetrySafe(me) == ~me.live \/ ~me.attempted

WriteReport(p) ==
    /\ inv[p].pc = "report"
    /\ logs' = [logs EXCEPT ![inv[p].second] = p]
    /\ Becomes(p, [inv[p] EXCEPT !.pc = "ended",
                     !.said = [ok |-> ~inv[p].errors, retrySafe |-> RetrySafe(inv[p])]])
    /\ UNCHANGED <<now, results, world>>

-----------------------------------------------------------------------------

\* premortem-check.py looks at its fixtures and its surroundings and only reports.
Premortem(p) ==
    /\ MayBegin(p)
    /\ \E tools, valid, reachable \in BOOLEAN :
         Becomes(p, [tool |-> "premortem", pc |-> "ended",
                     errors |-> PremortemFixtureErrors(fixtures)
                                \cup Diagnosed(env, tools, valid, reachable)])
    /\ UNCHANGED <<now, results, world, logs>>

\* Time passes.
Tick ==
    /\ now < MaxTime
    /\ now' = now + 1
    /\ UNCHANGED <<results, world, logs, inv>>

Init ==
    /\ now = 0
    /\ \E w \in Worlds : /\ results = w.results /\ waivers = w.waivers
                         /\ fixtures = w.fixtures /\ expires = w.expires /\ env = w.env
    /\ logs = [t \in Times |-> Nothing]
    /\ inv = [p \in Procs |-> Idle]

Step(p) ==
    \/ BeginAdapter(p) \/ RunScenario(p) \/ ResolvePrompt(p) \/ Send(p) \/ WriteAnswer(p)
    \/ BeginCli(p) \/ ResolveCliPrompt(p) \/ InvokeCli(p) \/ WriteCliAnswer(p) \/ WriteFails(p)
    \/ BeginQuorum(p) \/ ReadResult(p) \/ ReadWaiver(p) \/ Decide(p)
    \/ BeginRehearsal(p) \/ CheckFixtures(p) \/ Smoke(p) \/ SmokeTimesOut(p) \/ WriteReport(p)
    \/ Premortem(p)

Next == Tick \/ \E p \in Procs : Step(p)

Spec == Init /\ [][Next]_vars

-----------------------------------------------------------------------------
(* Properties.                                                             *)

Verdicts == {p \in Procs : inv[p].tool = "quorum" /\ inv[p].pc = "ended"}

\* A synthesis that the quorum check calls eligible rests on what was there:
\* whatever was overwritten and whatever expired while the check read file after
\* file, every required reviewer delivered or was waived at some time since the
\* check began, and so did enough of the optional ones and of all; and if nothing
\* is labelled degraded, deliveries alone were enough
\* (docs/review-quorum-policy.md: degradation is visible).
QuorumGrounded ==
    \A p \in Verdicts : inv[p].eligible =>
        LET good == inv[p].delivered
            counted == good \cup inv[p].excused
        IN /\ Required \subseteq counted
           /\ Cardinality(counted \cap Optional) >= MinOptional
           /\ Cardinality(counted) >= MinTotal
           /\ ~inv[p].labelled =>
                /\ Required \subseteq good
                /\ Cardinality(good \cap Optional) >= MinOptional
                /\ Cardinality(good) >= MinTotal

\* What docs/degradation-waiver-policy.md:7-11 and spec.md:818 promise and the
\* code does not keep: no waiver replaces a required reviewer.
RequiredDelivered ==
    \A p \in Verdicts : inv[p].eligible => Required \subseteq inv[p].delivered

\* A review that an adapter failed to get does not count: a result that the
\* quorum accepts was there from the start or comes from an adapter that ended
\* well, and none of those came from a provider that was really called.
FailureNeverCounts ==
    [][\A s \in Reviewers : Counts(results'[s]) /\ results[s] # results'[s] =>
         \E p \in Procs : inv[p].tool = "adapter" /\ inv[p].pc # "ended"
                          /\ inv'[p].pc = "ended" /\ inv'[p].ok /\ ~inv'[p].sent]_vars

\* A live smoke is made only by an approved rehearsal that asked for it, with
\* the switch, the remote and the keys set, with every fixture in order, and
\* with a docs snapshot that had not expired when it was looked at, as the
\* local clock sees it: by UTC it may have expired up to Skew before
\* (lines 93-101, 359-379, 482).  A premortem agrees about what both look at:
\* it may object to such a smoke only because of what it alone checks, which
\* is the number of phases, two more fixtures, the machine, and a token that
\* the rehearsal also takes from ORACLE_REMOTE_TOKENS.
SmokeJustified ==
    \A p \in Procs : inv[p].tool = "rehearsal" /\ inv[p].attempted =>
        /\ inv[p].live /\ env.approval /\ env.switch /\ env.keys
        /\ env.remote \in {"token", "tokens", "pool"}
        /\ \A f \in FixtureNames : fixtures[f] \in {"good", "few_phases"}
        /\ expires + Skew > inv[p].checked
        /\ \A q \in Procs : inv[q].tool = "premortem" =>
             LET found == inv[q].errors IN
             /\ "waiver" \notin found
             /\ "token" \in found => env.remote = "tokens"
             /\ "checklist" \in found => fixtures["checklist"] = "few_phases"

\* What docs/live-cutover-dress-rehearsal.md:12 promises and the code does not
\* keep: a rehearsal that has made a live smoke says so, so that whoever branches
\* on its envelope knows that a retry calls the provider again.
AttemptsSpeak ==
    \A p \in Procs :
        inv[p].tool = "rehearsal" /\ inv[p].pc = "ended" /\ inv[p].attempted =>
            inv[p].said # Nothing
=============================================================================
