---------------------------- MODULE ReviewProofs ----------------------------
(***************************************************************************)
(* Proofs about modules ReviewGates and Review, for every set of slots,    *)
(* every policy, every environment and every number of invocations.        *)
(*                                                                         *)
(* A verdict of the quorum check is about files that were read one after   *)
(* the other, while adapters write them and waivers expire: QuorumInv says *)
(* that what a check has noted of a file was there after the check began.  *)
(***************************************************************************)
EXTENDS Review, TLAPS, FiniteSetTheorems

-----------------------------------------------------------------------------
(* The decision. *)

\* The slots whose reviewer delivered or is waived.
Accepted(slots, status, pardoned) == {s \in slots : status[s] \in Eligible \/ s \in pardoned}

\* Successes and waivers are counted apart, and no slot is counted twice.
LEMMA CoveredCounts ==
    ASSUME NEW slots, IsFiniteSet(slots), NEW status, NEW pardoned, NEW min
    PROVE  Covered(slots, min, status, pardoned) <=>
             Cardinality(Accepted(slots, status, pardoned)) >= min
<1> DEFINE good == Successes(slots, status)
           excused == Waived(slots, status, pardoned)
<1>1. good \subseteq slots /\ excused \subseteq slots
  BY DEF Successes, Waived
<1>2. IsFiniteSet(good) /\ IsFiniteSet(excused)
  BY <1>1, FS_Subset
<1>3. good \cap excused = {} /\ good \cup excused = Accepted(slots, status, pardoned)
  BY DEF Successes, Waived, Accepted
<1>4. Cardinality(good \cup excused) = Cardinality(good) + Cardinality(excused)
  <2>1. Cardinality(good \cup excused)
          = Cardinality(good) + Cardinality(excused) - Cardinality(good \cap excused)
    BY <1>2, FS_Union
  <2>2. Cardinality(good \cap excused) = 0
    BY <1>3, FS_EmptySet
  <2>3. Cardinality(good) \in Nat /\ Cardinality(excused) \in Nat
    BY <1>2, FS_CardinalityType
  <2> QED BY <2>1, <2>2, <2>3
<1> QED BY <1>3, <1>4 DEF Covered

\* The reviewers are finitely many.
LEMMA ReviewersFinite == IsFiniteSet(Reviewers)
BY SlotsAreFinite, FS_Union DEF Reviewers

\* A synthesis that is eligible without a label needed no waiver: every required
\* reviewer has delivered, and enough of the optional ones and of all.
THEOREM NoSilentDegradation ==
    ASSUME NEW status, NEW pardoned,
           SynthesisEligible(status, pardoned), ~Labelled(status, pardoned)
    PROVE  /\ Required \subseteq Successes(Required, status)
           /\ Cardinality(Successes(Optional, status)) >= MinOptional
           /\ Cardinality(Successes(Reviewers, status)) >= MinTotal
<1>1. Required \subseteq Successes(Required, status)
  BY DEF SynthesisEligible, RequiredErrors, Labelled, Waived, Successes
<1>2. ASSUME NEW slots, IsFiniteSet(slots) PROVE Cardinality(Successes(slots, status)) \in Nat
  <2>1. Successes(slots, status) \subseteq slots
    BY DEF Successes
  <2> QED BY <1>2, <2>1, FS_Subset, FS_CardinalityType
<1>3. Cardinality(Successes(Optional, status)) >= MinOptional
  BY <1>2, SlotsAreFinite, MinimaAreNumbers DEF SynthesisEligible, Labelled, ShortBy
<1>4. Cardinality(Successes(Reviewers, status)) >= MinTotal
  BY <1>2, ReviewersFinite, MinimaAreNumbers DEF SynthesisEligible, Labelled, ShortBy
<1> QED BY <1>1, <1>3, <1>4
-----------------------------------------------------------------------------
(* Types. *)

AdapterRecords ==
    {r \in [tool : {"adapter"}, slot : Reviewers, sent : BOOLEAN, ok : BOOLEAN,
           pc : {"scenario", "prompt", "send", "write", "cli prompt", "cli send", "cli write", "ended"}] :
       r.pc = "scenario" => ~r.sent}
QuorumRecords ==
    [tool : {"quorum"}, pc : {"reading", "ended"},
     todo : SUBSET Reviewers, files : SUBSET Reviewers,
     status : [Reviewers -> Statuses \cup {Missing, NoFile}], waived : SUBSET Reviewers,
     delivered : SUBSET Reviewers, excused : SUBSET Reviewers,
     eligible : BOOLEAN, labelled : BOOLEAN]
Reports == [ok : BOOLEAN, retrySafe : BOOLEAN]
RehearsalRecords ==
    [tool : {"rehearsal"}, pc : {"checks", "smoke", "report", "ended"}, live : BOOLEAN,
     second : Times, errors : BOOLEAN, checked : Times \cup {-1}, attempted : BOOLEAN,
     said : Reports \cup {Nothing}]
Found == PremortemNames \cup {"tools", "host", "unreachable", "token"}
PremortemRecords == [tool : {"premortem"}, pc : {"ended"}, errors : SUBSET Found]
Records == {Idle} \cup AdapterRecords \cup QuorumRecords \cup RehearsalRecords \cup PremortemRecords

TypeInv ==
    /\ now \in Times
    /\ results \in [Reviewers -> Statuses \cup {Text, NoFile}]
    /\ waivers \in [Reviewers -> Waivers \cup {Text, NoFile}]
    /\ expires \in Times /\ env \in Environments
    /\ \A f \in FixtureNames \cup PremortemNames : fixtures[f] \in States(f)
    /\ logs \in [Times -> Procs \cup {Nothing}]
    /\ inv \in [Procs -> Records]

\* The initial states have the types.
LEMMA InitTypes == Init => TypeInv
<1> SUFFICES ASSUME Init PROVE TypeInv
  OBVIOUS
<1>1. now \in Times
  BY BoundsAreNumbers DEF Init, Times
<1>2. /\ results \in [Reviewers -> Statuses \cup {Text, NoFile}]
      /\ waivers \in [Reviewers -> Waivers \cup {Text, NoFile}]
      /\ expires \in Times /\ env \in Environments
      /\ \A f \in FixtureNames \cup PremortemNames : fixtures[f] \in States(f)
  BY WorldsAreTyped DEF Init
<1>3. logs \in [Times -> Procs \cup {Nothing}] /\ inv \in [Procs -> Records]
  BY DEF Init, Records
<1> QED BY <1>1, <1>2, <1>3 DEF TypeInv

\* A step of p that only sets its own record.
LEMMA BecomesTypes ==
    ASSUME TypeInv, NEW p \in Procs, NEW me \in Records, Becomes(p, me),
           UNCHANGED <<now, results, world, logs>>
    PROVE  TypeInv'
BY DEF TypeInv, Becomes, world

\* What tool and place say about a record.
LEMMA RecordOf ==
    ASSUME TypeInv, NEW p \in Procs
    PROVE  /\ inv[p].pc \in {"scenario", "prompt", "send", "write", "cli prompt", "cli send", "cli write"}
                => inv[p] \in AdapterRecords
           /\ inv[p].pc = "reading" => inv[p] \in QuorumRecords
           /\ inv[p].pc \in {"checks", "smoke", "report"} => inv[p] \in RehearsalRecords
           /\ inv[p].tool = "adapter" => inv[p] \in AdapterRecords
           /\ inv[p].tool = "quorum" => inv[p] \in QuorumRecords
           /\ inv[p].tool = "rehearsal" => inv[p] \in RehearsalRecords
           /\ inv[p].tool = "premortem" => inv[p] \in PremortemRecords
           /\ inv[p].pc = "idle" => inv[p] = Idle
<1>1. Idle.tool = "none" /\ Idle.pc = "idle"
  BY DEF Idle
<1>2. \A r \in AdapterRecords : r.tool = "adapter" /\
        r.pc \in {"scenario", "prompt", "send", "write", "cli prompt", "cli send", "cli write", "ended"}
  BY DEF AdapterRecords
<1>3. \A r \in QuorumRecords : r.tool = "quorum" /\ r.pc \in {"reading", "ended"}
  BY DEF QuorumRecords
<1>4. \A r \in RehearsalRecords :
        r.tool = "rehearsal" /\ r.pc \in {"checks", "smoke", "report", "ended"}
  BY DEF RehearsalRecords
<1>5. \A r \in PremortemRecords : r.tool = "premortem" /\ r.pc = "ended"
  BY DEF PremortemRecords
<1>6. inv[p] \in Records
  BY DEF TypeInv
<1> QED BY <1>1, <1>2, <1>3, <1>4, <1>5, <1>6 DEF Records

\* A step of an adapter that writes a result's file.
LEMMA OverwritesTypes ==
    ASSUME TypeInv, NEW p \in Procs, NEW s \in Reviewers, NEW me \in Records,
           NEW file \in Statuses \cup {Text, NoFile}, Overwrites(p, s, file, me),
           UNCHANGED <<now, world, logs>>
    PROVE  TypeInv'
<1>1. results' \in [Reviewers -> Statuses \cup {Text, NoFile}]
  BY DEF TypeInv, Overwrites
<1>2. ASSUME NEW q \in Procs, inv[q].tool = "quorum"
      PROVE  [inv[q] EXCEPT !.delivered = @ \cup {s}] \in Records
  <2>1. inv[q] \in QuorumRecords
    BY <1>2, RecordOf
  <2>2. [inv[q] EXCEPT !.delivered = @ \cup {s}] \in QuorumRecords
    BY <2>1 DEF QuorumRecords
  <2> QED BY <2>2 DEF Records
<1>3. inv' \in [Procs -> Records]
  BY <1>2 DEF TypeInv, Overwrites
<1> QED BY <1>1, <1>3 DEF TypeInv, world

\* The steps of the adapters keep the types.
LEMMA AdapterTypes ==
    ASSUME TypeInv, NEW p \in Procs,
           \/ BeginAdapter(p) \/ RunScenario(p) \/ ResolvePrompt(p) \/ Send(p) \/ WriteAnswer(p)
           \/ BeginCli(p) \/ ResolveCliPrompt(p) \/ InvokeCli(p) \/ WriteCliAnswer(p) \/ WriteFails(p)
    PROVE  TypeInv'
<1>1. AdapterRecords \subseteq Records
  BY DEF Records
<1>2. CASE BeginAdapter(p) \/ BeginCli(p)
  <2>1. PICK s \in Reviewers, pc \in {"scenario", "prompt", "cli prompt"} :
          Becomes(p, [tool |-> "adapter", pc |-> pc, slot |-> s, sent |-> FALSE, ok |-> FALSE])
    BY <1>2, AdaptersReview DEF BeginAdapter, BeginCli
  <2>2. [tool |-> "adapter", pc |-> pc, slot |-> s, sent |-> FALSE, ok |-> FALSE] \in AdapterRecords
    BY DEF AdapterRecords
  <2> QED BY <1>1, <1>2, <2>1, <2>2, BecomesTypes DEF BeginAdapter, BeginCli
<1>3. CASE RunScenario(p)
  <2>1. inv[p] \in AdapterRecords
    BY <1>3, RecordOf DEF RunScenario
  <2>2. [inv[p] EXCEPT !.pc = "ended", !.sent = FALSE, !.ok = FALSE] \in AdapterRecords
    BY <2>1 DEF AdapterRecords
  <2>3. ASSUME NEW provider, NEW scenario
        PROVE  /\ [inv[p] EXCEPT !.pc = "ended", !.ok = ScenarioOk(provider, scenario)] \in AdapterRecords
               /\ Build(provider, scenario).status \in Statuses
    <3>1. ScenarioOk(provider, scenario) \in BOOLEAN
      BY DEF ScenarioOk
    <3>2. Build(provider, scenario).status \in Statuses
      BY DEF Build, BaseResult, ClassifyFailure, Statuses
    <3> QED BY <2>1, <3>1, <3>2 DEF AdapterRecords
  <2>4. inv[p].slot \in Reviewers
    BY <2>1 DEF AdapterRecords
  <2>5. \/ AdapterEnds(p, FALSE, FALSE) /\ UNCHANGED results
        \/ \E scenario : Overwrites(p, inv[p].slot, Build(ProviderOf(inv[p].slot), scenario).status,
             [inv[p] EXCEPT !.pc = "ended", !.ok = ScenarioOk(ProviderOf(inv[p].slot), scenario)])
    BY <1>3 DEF RunScenario
  <2> QED BY <1>1, <1>3, <2>2, <2>3, <2>4, <2>5, BecomesTypes, OverwritesTypes
          DEF RunScenario, AdapterEnds
<1>4. CASE ResolvePrompt(p) \/ ResolveCliPrompt(p)
  <2>1. inv[p] \in AdapterRecords
    BY <1>4, RecordOf DEF ResolvePrompt, ResolveCliPrompt
  <2>2. /\ [inv[p] EXCEPT !.pc = "ended", !.sent = FALSE, !.ok = FALSE] \in AdapterRecords
        /\ [inv[p] EXCEPT !.pc = "send"] \in AdapterRecords
        /\ [inv[p] EXCEPT !.pc = "cli send"] \in AdapterRecords
    BY <2>1 DEF AdapterRecords
  <2> QED BY <1>1, <1>4, <2>2, BecomesTypes DEF ResolvePrompt, ResolveCliPrompt, AdapterEnds, Goes
<1>5. CASE Send(p) \/ InvokeCli(p)
  <2>1. inv[p] \in AdapterRecords
    BY <1>5, RecordOf DEF Send, InvokeCli
  <2>2. /\ \A sent \in BOOLEAN :
             [inv[p] EXCEPT !.pc = "ended", !.sent = sent, !.ok = FALSE] \in AdapterRecords
        /\ [inv[p] EXCEPT !.pc = "write", !.sent = TRUE] \in AdapterRecords
        /\ [inv[p] EXCEPT !.pc = "cli write", !.sent = TRUE] \in AdapterRecords
    BY <2>1 DEF AdapterRecords
  <2> QED BY <1>1, <1>5, <2>2, BecomesTypes DEF Send, InvokeCli, AdapterEnds
<1>6. CASE WriteAnswer(p) \/ WriteCliAnswer(p) \/ WriteFails(p)
  <2>1. inv[p] \in AdapterRecords
    BY <1>6, RecordOf DEF WriteAnswer, WriteCliAnswer, WriteFails
  <2>2. /\ [inv[p] EXCEPT !.pc = "ended", !.ok = TRUE] \in AdapterRecords
        /\ [inv[p] EXCEPT !.pc = "ended"] \in AdapterRecords
        /\ inv[p].slot \in Reviewers
    BY <2>1 DEF AdapterRecords
  <2> QED BY <1>1, <1>6, <2>2, BecomesTypes, OverwritesTypes DEF WriteAnswer, WriteCliAnswer, WriteFails
<1> QED BY <1>2, <1>3, <1>4, <1>5, <1>6

\* The steps of the quorum check keep the types.
LEMMA QuorumTypes ==
    ASSUME TypeInv, NEW p \in Procs,
           BeginQuorum(p) \/ ReadResult(p) \/ ReadWaiver(p) \/ Decide(p)
    PROVE  TypeInv'
<1>1. QuorumRecords \subseteq Records
  BY DEF Records
<1>2. CASE BeginQuorum(p)
  <2> DEFINE me == [tool |-> "quorum", pc |-> "reading",
                    todo |-> {s \in Reviewers : results[s] # NoFile},
                    files |-> {s \in Reviewers : waivers[s] # NoFile},
                    status |-> [s \in Reviewers |-> Missing], waived |-> {},
                    delivered |-> {s \in Reviewers : Counts(results[s])},
                    excused |-> {s \in Reviewers : Excuses(waivers[s], now)},
                    eligible |-> FALSE, labelled |-> FALSE]
  <2>1. me \in QuorumRecords
    BY DEF QuorumRecords
  <2> QED BY <1>1, <1>2, <2>1, BecomesTypes DEF BeginQuorum
<1>3. CASE ReadResult(p)
  <2>1. inv[p] \in QuorumRecords
    BY <1>3, RecordOf DEF ReadResult
  <2>2. PICK s \in inv[p].todo :
          IF results[s] = Text THEN Goes(p, "ended")
          ELSE Becomes(p, [inv[p] EXCEPT !.todo = @ \ {s}, !.status[s] = results[s]])
    BY <1>3 DEF ReadResult
  <2>3. s \in Reviewers
    BY <2>1 DEF QuorumRecords
  <2>4. CASE results[s] = Text
    <3>1. [inv[p] EXCEPT !.pc = "ended"] \in QuorumRecords
      BY <2>1 DEF QuorumRecords
    <3> QED BY <1>1, <1>3, <2>2, <2>4, <3>1, BecomesTypes DEF ReadResult, Goes
  <2>5. CASE results[s] # Text
    <3>1. results[s] \in Statuses \cup {Missing, NoFile}
      BY <2>3, <2>5 DEF TypeInv
    <3>2. [inv[p] EXCEPT !.todo = @ \ {s}, !.status[s] = results[s]] \in QuorumRecords
      BY <2>1, <2>3, <3>1 DEF QuorumRecords
    <3> QED BY <1>1, <1>3, <2>2, <2>5, <3>2, BecomesTypes DEF ReadResult
  <2> QED BY <2>4, <2>5
<1>4. CASE ReadWaiver(p)
  <2>1. inv[p] \in QuorumRecords
    BY <1>4, RecordOf DEF ReadWaiver
  <2>2. PICK s \in inv[p].files :
          \/ Goes(p, "ended")
          \/ \E valid \in BOOLEAN : TakesWaiver(p, s, valid)
    <3>1. \A s : Excuses(waivers[s], now) \in BOOLEAN
      BY DEF Excuses
    <3> QED BY <1>4, <3>1 DEF ReadWaiver
  <2>3. s \in Reviewers
    BY <2>1 DEF QuorumRecords
  <2>4. [inv[p] EXCEPT !.pc = "ended"] \in QuorumRecords
    BY <2>1 DEF QuorumRecords
  <2>5. \A valid \in BOOLEAN :
          [inv[p] EXCEPT !.files = @ \ {s}, !.waived = IF valid THEN @ \cup {s} ELSE @] \in QuorumRecords
    BY <2>1, <2>3 DEF QuorumRecords
  <2> QED BY <1>1, <1>4, <2>2, <2>4, <2>5, BecomesTypes DEF ReadWaiver, Goes, TakesWaiver
<1>5. CASE Decide(p)
  <2>1. inv[p] \in QuorumRecords
    BY <1>5, RecordOf DEF Decide
  <2>2. \A status, waived : SynthesisEligible(status, waived) \in BOOLEAN
                            /\ Labelled(status, waived) \in BOOLEAN
    BY DEF SynthesisEligible, Labelled
  <2>3. [inv[p] EXCEPT !.pc = "ended",
                       !.eligible = SynthesisEligible(inv[p].status, inv[p].waived),
                       !.labelled = Labelled(inv[p].status, inv[p].waived)] \in QuorumRecords
    BY <2>1, <2>2 DEF QuorumRecords
  <2> QED BY <1>1, <1>5, <2>3, BecomesTypes DEF Decide
<1> QED BY <1>2, <1>3, <1>4, <1>5

\* Whether the environment keeps a rehearsal from going on is yes or no.
LEMMA EnvErrorsType == \A live : EnvErrors(env, live) \in BOOLEAN
BY DEF EnvErrors

\* The steps of the rehearsal keep the types.
LEMMA RehearsalTypes ==
    ASSUME TypeInv, NEW p \in Procs,
           \/ BeginRehearsal(p) \/ CheckFixtures(p) \/ Smoke(p) \/ SmokeTimesOut(p) \/ WriteReport(p)
    PROVE  TypeInv'
<1>1. RehearsalRecords \subseteq Records
  BY DEF Records
<1>2. CASE BeginRehearsal(p)
  <2>1. PICK live \in BOOLEAN :
          Becomes(p, [tool |-> "rehearsal", pc |-> "checks", live |-> live, second |-> now,
                      errors |-> EnvErrors(env, live), checked |-> -1,
                      attempted |-> FALSE, said |-> Nothing])
    BY <1>2 DEF BeginRehearsal
  <2>2. [tool |-> "rehearsal", pc |-> "checks", live |-> live, second |-> now,
         errors |-> EnvErrors(env, live), checked |-> -1,
         attempted |-> FALSE, said |-> Nothing] \in RehearsalRecords
    BY EnvErrorsType DEF RehearsalRecords, TypeInv
  <2> QED BY <1>1, <1>2, <2>1, <2>2, BecomesTypes DEF BeginRehearsal
<1>3. CASE CheckFixtures(p)
  <2>1. inv[p] \in RehearsalRecords
    BY <1>3, RecordOf DEF CheckFixtures
  <2>2. PICK errors \in BOOLEAN :
          Becomes(p, [inv[p] EXCEPT !.errors = errors, !.checked = now,
                        !.pc = IF inv[p].live /\ ~errors THEN "smoke" ELSE "report"])
    BY <1>3 DEF CheckFixtures
  <2>3. [inv[p] EXCEPT !.errors = errors, !.checked = now,
           !.pc = IF inv[p].live /\ ~errors THEN "smoke" ELSE "report"] \in RehearsalRecords
    BY <2>1 DEF RehearsalRecords, TypeInv
  <2> QED BY <1>1, <1>3, <2>2, <2>3, BecomesTypes DEF CheckFixtures
<1>4. CASE Smoke(p) \/ SmokeTimesOut(p)
  <2>1. inv[p] \in RehearsalRecords
    BY <1>4, RecordOf DEF Smoke, SmokeTimesOut
  <2>2. /\ \A passes \in BOOLEAN :
             [inv[p] EXCEPT !.pc = "report", !.attempted = TRUE, !.errors = ~passes] \in RehearsalRecords
        /\ [inv[p] EXCEPT !.pc = "report", !.errors = TRUE] \in RehearsalRecords
        /\ [inv[p] EXCEPT !.pc = "ended", !.attempted = TRUE] \in RehearsalRecords
    BY <2>1 DEF RehearsalRecords
  <2> QED BY <1>1, <1>4, <2>2, BecomesTypes DEF Smoke, SmokeTimesOut
<1>5. CASE WriteReport(p)
  <2>1. inv[p] \in RehearsalRecords
    BY <1>5, RecordOf DEF WriteReport
  <2>2. [ok |-> ~inv[p].errors, retrySafe |-> RetrySafe(inv[p])] \in Reports
    <3>1. RetrySafe(inv[p]) \in BOOLEAN
      BY DEF RetrySafe
    <3> QED BY <3>1 DEF Reports
  <2>3. [inv[p] EXCEPT !.pc = "ended",
           !.said = [ok |-> ~inv[p].errors, retrySafe |-> RetrySafe(inv[p])]] \in RehearsalRecords
    BY <2>1, <2>2 DEF RehearsalRecords
  <2>4. inv' \in [Procs -> Records]
    BY <1>1, <1>5, <2>3 DEF WriteReport, Becomes, TypeInv
  <2>5. logs' \in [Times -> Procs \cup {Nothing}]
    BY <1>5 DEF WriteReport, TypeInv
  <2> QED BY <1>5, <2>4, <2>5 DEF WriteReport, TypeInv, world
<1> QED BY <1>2, <1>3, <1>4, <1>5

\* A premortem keeps the types.
LEMMA PremortemTypes == ASSUME TypeInv, NEW p \in Procs, Premortem(p) PROVE TypeInv'
<1>1. PICK tools \in BOOLEAN, valid \in BOOLEAN, reachable \in BOOLEAN :
        Becomes(p, [tool |-> "premortem", pc |-> "ended",
                    errors |-> PremortemFixtureErrors(fixtures)
                               \cup Diagnosed(env, tools, valid, reachable)])
  BY DEF Premortem
<1>2. PremortemFixtureErrors(fixtures) \subseteq Found
  BY DEF PremortemFixtureErrors, Found
<1>3. Diagnosed(env, tools, valid, reachable) \subseteq Found
  BY DEF Diagnosed, Found
<1>4. [tool |-> "premortem", pc |-> "ended",
       errors |-> PremortemFixtureErrors(fixtures)
                  \cup Diagnosed(env, tools, valid, reachable)] \in Records
  BY <1>2, <1>3 DEF PremortemRecords, Records
<1> QED BY <1>1, <1>4, BecomesTypes DEF Premortem

\* The passage of time keeps the types.
LEMMA TickTypes == ASSUME TypeInv, Tick PROVE TypeInv'
<1>1. now' \in Times
  BY BoundsAreNumbers DEF Tick, TypeInv, Times
<1> QED BY <1>1 DEF Tick, TypeInv, world

\* Every step keeps the types.
LEMMA StepTypes == TypeInv /\ [Next]_vars => TypeInv'
<1> SUFFICES ASSUME TypeInv, [Next]_vars PROVE TypeInv'
  OBVIOUS
<1>1. ASSUME NEW p \in Procs, Step(p) PROVE TypeInv'
  BY <1>1, AdapterTypes, QuorumTypes, RehearsalTypes, PremortemTypes DEF Step
<1>2. CASE UNCHANGED vars
  BY <1>2 DEF vars, world, TypeInv
<1> QED BY <1>1, <1>2, TickTypes DEF Next

\* In every reachable state of the review every variable has its type.
THEOREM TypeCorrect == Spec => []TypeInv
BY InitTypes, StepTypes, PTL DEF Spec
-----------------------------------------------------------------------------
(* A verdict rests on what is there. *)

\* What a check has noted was there, and what is there has been noted.
Understood(me, r, w, t) ==
    /\ \A s \in Reviewers : Counts(me.status[s]) \/ Counts(r[s]) => s \in me.delivered
    /\ \A s \in Reviewers : Excuses(w[s], t) => s \in me.excused
    /\ me.waived \subseteq me.excused
    /\ me.pc # "ended" => ~me.eligible
    /\ me.eligible =>
         SynthesisEligible(me.status, me.waived) /\ me.labelled = Labelled(me.status, me.waived)

QuorumInv ==
    \A p \in Procs : inv[p].tool = "quorum" => Understood(inv[p], results, waivers, now)

\* What others write is noted, and what was noted is still understood.
LEMMA StillUnderstood ==
    ASSUME NEW me \in QuorumRecords, NEW r, NEW w, NEW t, Understood(me, r, w, t),
           NEW r2, NEW s \in Reviewers, \A v \in Reviewers \ {s} : r2[v] = r[v]
    PROVE  /\ Understood([me EXCEPT !.delivered = @ \cup {s}], r2, w, t)
           /\ ~Counts(r2[s]) => Understood(me, r2, w, t)
<1> DEFINE you == [me EXCEPT !.delivered = @ \cup {s}]
<1>1. /\ you.delivered = me.delivered \cup {s} /\ you.excused = me.excused
      /\ you.status = me.status /\ you.pc = me.pc /\ you.eligible = me.eligible
      /\ you.waived = me.waived /\ you.labelled = me.labelled
  BY DEF QuorumRecords
<1> HIDE DEF you
<1>2. Understood(you, r2, w, t)
  BY <1>1 DEF Understood
<1>3. ~Counts(r2[s]) => Understood(me, r2, w, t)
  BY DEF Understood
<1> QED BY <1>2, <1>3 DEF you

\* A waiver that counts later counts now.
LEMMA WaiversExpire ==
    ASSUME NEW w, NEW t \in Nat, Excuses(w, t + 1)
    PROVE  Excuses(w, t)
BY BoundsAreNumbers DEF Excuses, WaiverValid, Waivers, Times

\* An adapter's step writes at most its own slot's result, and the checks that
\* have begun note it if it counts.
LEMMA AdapterStep ==
    ASSUME TypeInv, NEW p \in Procs,
           \/ BeginAdapter(p) \/ RunScenario(p) \/ ResolvePrompt(p) \/ Send(p) \/ WriteAnswer(p)
           \/ BeginCli(p) \/ ResolveCliPrompt(p) \/ InvokeCli(p) \/ WriteCliAnswer(p) \/ WriteFails(p)
    PROVE  /\ UNCHANGED <<now, world, logs>>
           /\ inv[p] \in {Idle} \cup AdapterRecords
           /\ inv'[p].tool = "adapter"
           /\ \/ /\ UNCHANGED results
                 /\ \A q \in Procs \ {p} : inv'[q] = inv[q]
              \/ \E s \in Reviewers :
                   /\ \A v \in Reviewers \ {s} : results'[v] = results[v]
                   /\ \A q \in Procs \ {p} :
                        IF inv[q].tool = "quorum" /\ Counts(results'[s])
                        THEN inv'[q] = [inv[q] EXCEPT !.delivered = @ \cup {s}]
                        ELSE inv'[q] = inv[q]
<1> USE DEF AdapterEnds, Goes, MayBegin
<1>1. CASE BeginAdapter(p) \/ BeginCli(p)
  <2>1. inv[p] = Idle
    BY <1>1, RecordOf DEF BeginAdapter, BeginCli
  <2>2. inv'[p].tool = "adapter"
    <3>1. PICK s, pc :
            Becomes(p, [tool |-> "adapter", pc |-> pc, slot |-> s, sent |-> FALSE, ok |-> FALSE])
      BY <1>1 DEF BeginAdapter, BeginCli
    <3> QED BY <3>1 DEF TypeInv, Becomes
  <2> QED BY <1>1, <2>1, <2>2 DEF BeginAdapter, BeginCli, TypeInv, Becomes
<1>2. CASE ResolvePrompt(p) \/ Send(p) \/ ResolveCliPrompt(p) \/ InvokeCli(p)
  <2>1. inv[p] \in AdapterRecords
    BY <1>2, RecordOf DEF ResolvePrompt, Send, ResolveCliPrompt, InvokeCli
  <2>2. /\ \A pc : [inv[p] EXCEPT !.pc = pc].tool = "adapter"
        /\ \A pc : [inv[p] EXCEPT !.pc = pc, !.sent = TRUE].tool = "adapter"
        /\ \A sent : [inv[p] EXCEPT !.pc = "ended", !.sent = sent, !.ok = FALSE].tool = "adapter"
    BY <2>1 DEF AdapterRecords
  <2>3. \/ \E pc : Becomes(p, [inv[p] EXCEPT !.pc = pc])
        \/ \E pc : Becomes(p, [inv[p] EXCEPT !.pc = pc, !.sent = TRUE])
        \/ \E sent : Becomes(p, [inv[p] EXCEPT !.pc = "ended", !.sent = sent, !.ok = FALSE])
    BY <1>2 DEF ResolvePrompt, Send, ResolveCliPrompt, InvokeCli
  <2>4. inv'[p].tool = "adapter"
    <3>1. ASSUME NEW me, Becomes(p, me), me.tool = "adapter" PROVE inv'[p].tool = "adapter"
      BY <3>1 DEF TypeInv, Becomes
    <3> QED BY <2>2, <2>3, <3>1
  <2> QED BY <1>2, <2>1, <2>4 DEF ResolvePrompt, Send, ResolveCliPrompt, InvokeCli, TypeInv, Becomes
<1>3. CASE RunScenario(p) \/ WriteAnswer(p) \/ WriteCliAnswer(p) \/ WriteFails(p)
  <2>1. inv[p] \in AdapterRecords
    BY <1>3, RecordOf DEF RunScenario, WriteAnswer, WriteCliAnswer, WriteFails
  <2>2. inv[p].slot \in Reviewers
    BY <2>1 DEF AdapterRecords
  <2>3. \A sent, ok : /\ [inv[p] EXCEPT !.pc = "ended", !.sent = sent, !.ok = ok].tool = "adapter"
                      /\ [inv[p] EXCEPT !.pc = "ended", !.ok = ok].tool = "adapter"
                      /\ [inv[p] EXCEPT !.pc = "ended"].tool = "adapter"
    BY <2>1 DEF AdapterRecords
  <2>4. \/ \E me : Becomes(p, me) /\ me.tool = "adapter" /\ UNCHANGED results
        \/ \E me, file : Overwrites(p, inv[p].slot, file, me) /\ me.tool = "adapter"
    <3>1. CASE RunScenario(p)
      <4>1. \/ AdapterEnds(p, FALSE, FALSE) /\ UNCHANGED results
            \/ \E file, ok : Overwrites(p, inv[p].slot, file, [inv[p] EXCEPT !.pc = "ended", !.ok = ok])
        BY <3>1 DEF RunScenario
      <4> QED BY <2>3, <4>1
    <3>2. CASE WriteAnswer(p) \/ WriteCliAnswer(p)
      BY <2>3, <3>2 DEF WriteAnswer, WriteCliAnswer
    <3>3. CASE WriteFails(p)
      BY <2>3, <3>3 DEF WriteFails
    <3> QED BY <1>3, <3>1, <3>2, <3>3
  <2>5. UNCHANGED <<now, world, logs>>
    BY <1>3 DEF RunScenario, WriteAnswer, WriteCliAnswer, WriteFails
  <2>6. CASE \E me : Becomes(p, me) /\ me.tool = "adapter" /\ UNCHANGED results
    BY <2>1, <2>5, <2>6 DEF TypeInv, Becomes
  <2>7. CASE \E me, file : Overwrites(p, inv[p].slot, file, me) /\ me.tool = "adapter"
    <3>1. PICK me, file : Overwrites(p, inv[p].slot, file, me) /\ me.tool = "adapter"
      BY <2>7
    <3>2. /\ \A v \in Reviewers \ {inv[p].slot} : results'[v] = results[v]
          /\ results'[inv[p].slot] = file
      BY <2>2, <3>1 DEF Overwrites, TypeInv
    <3>3. /\ \A q \in Procs \ {p} :
               IF inv[q].tool = "quorum" /\ Counts(results'[inv[p].slot])
               THEN inv'[q] = [inv[q] EXCEPT !.delivered = @ \cup {inv[p].slot}]
               ELSE inv'[q] = inv[q]
          /\ inv'[p].tool = "adapter"
      BY <3>1, <3>2 DEF Overwrites
    <3> QED BY <2>1, <2>2, <2>5, <3>2, <3>3
  <2> QED BY <2>4, <2>6, <2>7
<1> QED BY <1>1, <1>2, <1>3

\* A step of one invocation that is no adapter leaves the others' understanding.
LEMMA OwnStep ==
    ASSUME TypeInv, QuorumInv, NEW p \in Procs, NEW me, Becomes(p, me),
           UNCHANGED <<now, results, waivers>>,
           me.tool = "quorum" => Understood(me, results, waivers, now)
    PROVE  QuorumInv'
BY DEF TypeInv, QuorumInv, Becomes

\* A step of the check itself understands what it reads.
LEMMA QuorumStep ==
    ASSUME TypeInv, QuorumInv, NEW p \in Procs,
           BeginQuorum(p) \/ ReadResult(p) \/ ReadWaiver(p) \/ Decide(p)
    PROVE  QuorumInv'
<1> USE DEF Understood
<1>1. CASE BeginQuorum(p)
  <2> DEFINE me == [tool |-> "quorum", pc |-> "reading",
                    todo |-> {s \in Reviewers : results[s] # NoFile},
                    files |-> {s \in Reviewers : waivers[s] # NoFile},
                    status |-> [s \in Reviewers |-> Missing], waived |-> {},
                    delivered |-> {s \in Reviewers : Counts(results[s])},
                    excused |-> {s \in Reviewers : Excuses(waivers[s], now)},
                    eligible |-> FALSE, labelled |-> FALSE]
  <2>1. Becomes(p, me) /\ UNCHANGED <<now, results, waivers>>
    BY <1>1 DEF BeginQuorum, world
  <2>2. \A s \in Reviewers : ~Counts(me.status[s])
    BY MissingIsNotEligible DEF Counts
  <2>3. Understood(me, results, waivers, now)
    BY <2>2
  <2> QED BY <2>1, <2>3, OwnStep
<1>2. CASE ReadResult(p) \/ ReadWaiver(p)
  <2>1. inv[p] \in QuorumRecords /\ inv[p].pc = "reading" /\ Understood(inv[p], results, waivers, now)
    BY <1>2, RecordOf DEF ReadResult, ReadWaiver, QuorumInv, QuorumRecords
  <2>2. UNCHANGED <<now, results, waivers>>
    BY <1>2 DEF ReadResult, ReadWaiver, world
  <2>3. CASE Goes(p, "ended")
    <3> DEFINE me == [inv[p] EXCEPT !.pc = "ended"]
    <3>1. Becomes(p, me)
      BY <2>3 DEF Goes
    <3>2. /\ me.pc = "ended" /\ me.eligible = inv[p].eligible /\ me.delivered = inv[p].delivered
          /\ me.excused = inv[p].excused /\ me.status = inv[p].status
          /\ me.waived = inv[p].waived /\ me.labelled = inv[p].labelled
      BY <2>1 DEF QuorumRecords
    <3> HIDE DEF me
    <3>3. Understood(me, results, waivers, now)
      BY <2>1, <3>2
    <3> QED BY <2>2, <3>1, <3>3, OwnStep
  <2>4. ASSUME NEW s \in inv[p].todo,
               Becomes(p, [inv[p] EXCEPT !.todo = @ \ {s}, !.status[s] = results[s]])
        PROVE  QuorumInv'
    <3> DEFINE me == [inv[p] EXCEPT !.todo = @ \ {s}, !.status[s] = results[s]]
    <3>1. Becomes(p, me)
      BY <2>4
    <3>2. /\ me.pc = "reading" /\ me.eligible = inv[p].eligible /\ me.delivered = inv[p].delivered
          /\ me.excused = inv[p].excused /\ me.waived = inv[p].waived
          /\ \A v \in Reviewers : me.status[v] = IF v = s THEN results[s] ELSE inv[p].status[v]
      BY <2>1 DEF QuorumRecords
    <3> HIDE DEF me
    <3>3. Understood(me, results, waivers, now)
      BY <2>1, <3>2
    <3> QED BY <2>2, <3>1, <3>3, OwnStep
  <2>5. ASSUME NEW s \in inv[p].files, TakesWaiver(p, s, Excuses(waivers[s], now))
        PROVE  QuorumInv'
    <3> DEFINE valid == Excuses(waivers[s], now)
               me == [inv[p] EXCEPT !.files = @ \ {s}, !.waived = IF valid THEN @ \cup {s} ELSE @]
    <3>1. Becomes(p, me)
      BY <2>5 DEF TakesWaiver
    <3>2. /\ me.pc = "reading" /\ me.eligible = inv[p].eligible /\ me.delivered = inv[p].delivered
          /\ me.excused = inv[p].excused /\ me.status = inv[p].status
          /\ me.waived = IF valid THEN inv[p].waived \cup {s} ELSE inv[p].waived
          /\ s \in Reviewers
      BY <2>1 DEF QuorumRecords
    <3>3. valid => s \in inv[p].excused
      BY <2>1, <3>2
    <3> HIDE DEF me, valid
    <3>4. Understood(me, results, waivers, now)
      BY <2>1, <3>2, <3>3
    <3> QED BY <2>2, <3>1, <3>4, OwnStep
  <2> QED BY <1>2, <2>3, <2>4, <2>5 DEF ReadResult, ReadWaiver
<1>4. CASE Decide(p)
  <2>1. /\ inv[p] \in QuorumRecords /\ inv[p].pc = "reading"
        /\ Understood(inv[p], results, waivers, now)
    BY <1>4, RecordOf DEF Decide, QuorumInv, QuorumRecords
  <2> DEFINE me == [inv[p] EXCEPT !.pc = "ended",
                      !.eligible = SynthesisEligible(inv[p].status, inv[p].waived),
                      !.labelled = Labelled(inv[p].status, inv[p].waived)]
  <2>2. Becomes(p, me) /\ UNCHANGED <<now, results, waivers>>
    BY <1>4 DEF Decide, world
  <2>3. /\ me.pc = "ended" /\ me.eligible = SynthesisEligible(inv[p].status, inv[p].waived)
        /\ me.labelled = Labelled(inv[p].status, inv[p].waived)
        /\ me.delivered = inv[p].delivered /\ me.excused = inv[p].excused
        /\ me.status = inv[p].status /\ me.waived = inv[p].waived
    BY <2>1 DEF QuorumRecords
  <2> HIDE DEF me
  <2>4. Understood(me, results, waivers, now)
    BY <2>1, <2>3
  <2> QED BY <2>2, <2>4, OwnStep
<1> QED BY <1>1, <1>2, <1>4

\* An invocation that is no check is understood as such.
LEMMA OtherStep ==
    ASSUME TypeInv, QuorumInv, NEW p \in Procs,
           \/ BeginRehearsal(p) \/ CheckFixtures(p) \/ Smoke(p) \/ SmokeTimesOut(p) \/ WriteReport(p)
           \/ Premortem(p)
    PROVE  QuorumInv'
<1>1. UNCHANGED <<now, results, waivers>>
  BY DEF BeginRehearsal, CheckFixtures, Smoke, SmokeTimesOut, WriteReport, Premortem, world
<1>2. ASSUME NEW me, Becomes(p, me), me.tool # "quorum" PROVE QuorumInv'
  BY <1>1, <1>2, OwnStep
<1>3. CASE BeginRehearsal(p)
  BY <1>2, <1>3 DEF BeginRehearsal
<1>4. CASE Premortem(p)
  BY <1>2, <1>4 DEF Premortem
<1>5. CASE CheckFixtures(p) \/ Smoke(p) \/ SmokeTimesOut(p) \/ WriteReport(p)
  <2>1. inv[p] \in RehearsalRecords
    BY <1>5, RecordOf DEF CheckFixtures, Smoke, SmokeTimesOut, WriteReport
  <2>2. \A me : Becomes(p, me) => (me.tool = "rehearsal" => QuorumInv')
    BY <1>2
  <2>3. /\ \A errors, at, pc : [inv[p] EXCEPT !.errors = errors, !.checked = at, !.pc = pc].tool = "rehearsal"
        /\ \A errors : [inv[p] EXCEPT !.pc = "report", !.attempted = TRUE, !.errors = errors].tool = "rehearsal"
        /\ [inv[p] EXCEPT !.pc = "report", !.errors = TRUE].tool = "rehearsal"
        /\ [inv[p] EXCEPT !.pc = "ended", !.attempted = TRUE].tool = "rehearsal"
        /\ \A said : [inv[p] EXCEPT !.pc = "ended", !.said = said].tool = "rehearsal"
    BY <2>1 DEF RehearsalRecords
  <2>4. CASE CheckFixtures(p)
    <3>1. PICK errors, at, pc : Becomes(p, [inv[p] EXCEPT !.errors = errors, !.checked = at, !.pc = pc])
      BY <2>4 DEF CheckFixtures
    <3>2. [inv[p] EXCEPT !.errors = errors, !.checked = at, !.pc = pc].tool = "rehearsal"
      BY <2>3
    <3> QED BY <1>2, <3>1, <3>2
  <2>5. CASE Smoke(p)
    BY <2>2, <2>3, <2>5 DEF Smoke
  <2>6. CASE SmokeTimesOut(p)
    BY <2>2, <2>3, <2>6 DEF SmokeTimesOut
  <2>7. CASE WriteReport(p)
    BY <2>2, <2>3, <2>7 DEF WriteReport
  <2> QED BY <1>5, <2>4, <2>5, <2>6, <2>7
<1> QED BY <1>3, <1>4, <1>5

\* Every step keeps what the checks have understood.
LEMMA StepUnderstood == TypeInv /\ QuorumInv /\ [Next]_vars => QuorumInv'
<1> SUFFICES ASSUME TypeInv, QuorumInv, [Next]_vars PROVE QuorumInv'
  OBVIOUS
<1>1. ASSUME NEW q \in Procs, inv[q].tool = "quorum"
      PROVE  inv[q] \in QuorumRecords /\ Understood(inv[q], results, waivers, now)
  BY <1>1, RecordOf DEF QuorumInv
<1>2. CASE Tick
  <2>1. now \in Nat /\ now' = now + 1 /\ UNCHANGED <<results, waivers, inv>>
    BY <1>2, BoundsAreNumbers DEF Tick, TypeInv, Times, world
  <2>2. \A s \in Reviewers : Excuses(waivers[s], now') => Excuses(waivers[s], now)
    BY <2>1, WaiversExpire
  <2> QED BY <2>1, <2>2 DEF QuorumInv, Understood
<1>3. ASSUME NEW p \in Procs,
             \/ BeginAdapter(p) \/ RunScenario(p) \/ ResolvePrompt(p) \/ Send(p) \/ WriteAnswer(p)
             \/ BeginCli(p) \/ ResolveCliPrompt(p) \/ InvokeCli(p) \/ WriteCliAnswer(p) \/ WriteFails(p)
      PROVE  QuorumInv'
  <2>1. UNCHANGED <<now, waivers>> /\ inv'[p].tool = "adapter"
    BY <1>3, AdapterStep DEF world
  <2>2. CASE UNCHANGED results /\ \A q \in Procs \ {p} : inv'[q] = inv[q]
    BY <2>1, <2>2 DEF QuorumInv
  <2>3. CASE \E s \in Reviewers :
               /\ \A v \in Reviewers \ {s} : results'[v] = results[v]
               /\ \A q \in Procs \ {p} :
                    IF inv[q].tool = "quorum" /\ Counts(results'[s])
                    THEN inv'[q] = [inv[q] EXCEPT !.delivered = @ \cup {s}]
                    ELSE inv'[q] = inv[q]
    <3>1. PICK s \in Reviewers :
               /\ \A v \in Reviewers \ {s} : results'[v] = results[v]
               /\ \A q \in Procs \ {p} :
                    IF inv[q].tool = "quorum" /\ Counts(results'[s])
                    THEN inv'[q] = [inv[q] EXCEPT !.delivered = @ \cup {s}]
                    ELSE inv'[q] = inv[q]
      BY <2>3
    <3>2. ASSUME NEW q \in Procs \ {p}, inv[q].tool = "quorum"
          PROVE  /\ Understood([inv[q] EXCEPT !.delivered = @ \cup {s}], results', waivers, now)
                 /\ ~Counts(results'[s]) => Understood(inv[q], results', waivers, now)
      BY <1>1, <3>1, <3>2, StillUnderstood
    <3>3. ASSUME NEW q \in Procs, inv'[q].tool = "quorum"
          PROVE  Understood(inv'[q], results', waivers, now)
      <4>1. q # p
        BY <2>1, <3>3
      <4>2. inv[q].tool = "quorum"
        BY <3>1, <3>3, <4>1
      <4> QED BY <3>1, <3>2, <4>1, <4>2
    <3> QED BY <2>1, <3>3 DEF QuorumInv
  <2> QED BY <1>3, <2>2, <2>3, AdapterStep
<1>4. CASE UNCHANGED vars
  BY <1>4 DEF vars, world, QuorumInv
<1> QED BY <1>2, <1>3, <1>4, QuorumStep, OtherStep DEF Next, Step

\* More slots are not fewer.
LEMMA MoreAreMore ==
    ASSUME NEW few, NEW many, few \subseteq many, IsFiniteSet(many), NEW min \in Nat,
           Cardinality(few) >= min
    PROVE  Cardinality(many) >= min
<1>1. Cardinality(few) <= Cardinality(many) /\ IsFiniteSet(few)
  BY FS_Subset
<1>2. Cardinality(few) \in Nat /\ Cardinality(many) \in Nat
  BY <1>1, FS_CardinalityType
<1> QED BY <1>1, <1>2

\* What a check has noted grounds its verdict.
LEMMA UnderstoodGrounds == TypeInv /\ QuorumInv => QuorumGrounded
<1> SUFFICES ASSUME TypeInv, QuorumInv,
                    NEW p \in Verdicts, inv[p].eligible
             PROVE  LET good == inv[p].delivered
                        counted == good \cup inv[p].excused
                    IN /\ Required \subseteq counted
                       /\ Cardinality(counted \cap Optional) >= MinOptional
                       /\ Cardinality(counted) >= MinTotal
                       /\ ~inv[p].labelled =>
                            /\ Required \subseteq good
                            /\ Cardinality(good \cap Optional) >= MinOptional
                            /\ Cardinality(good) >= MinTotal
  BY DEF QuorumGrounded
<1> DEFINE good == inv[p].delivered
           counted == good \cup inv[p].excused
           status == inv[p].status
           waived == inv[p].waived
<1>1. Understood(inv[p], results, waivers, now)
  BY DEF Verdicts, QuorumInv
<1>2. SynthesisEligible(status, waived) /\ inv[p].labelled = Labelled(status, waived)
  BY <1>1 DEF Understood
<1>3. good \subseteq Reviewers /\ counted \subseteq Reviewers
  BY RecordOf DEF Verdicts, QuorumRecords
<1>4. \A s \in Reviewers : status[s] \in Eligible => s \in good
  BY <1>1 DEF Understood, Counts
<1>5. waived \subseteq inv[p].excused
  BY <1>1 DEF Understood
<1> HIDE DEF good, status, waived
<1>6. /\ Successes(Reviewers, status) \subseteq good
      /\ Successes(Optional, status) \subseteq good \cap Optional
      /\ Accepted(Reviewers, status, waived) \subseteq counted
      /\ Accepted(Optional, status, waived) \subseteq counted \cap Optional
  BY <1>4, <1>5 DEF Successes, Accepted, Reviewers
<1>7. /\ IsFiniteSet(good) /\ IsFiniteSet(counted)
      /\ IsFiniteSet(good \cap Optional) /\ IsFiniteSet(counted \cap Optional)
  BY <1>3, ReviewersFinite, FS_Subset
<1>8. Required \subseteq counted
  BY <1>2, <1>4, <1>5 DEF SynthesisEligible, RequiredErrors, Reviewers
<1>9. Cardinality(counted \cap Optional) >= MinOptional /\ Cardinality(counted) >= MinTotal
  <2>1. /\ Cardinality(Accepted(Optional, status, waived)) >= MinOptional
        /\ Cardinality(Accepted(Reviewers, status, waived)) >= MinTotal
    BY <1>2, CoveredCounts, SlotsAreFinite, ReviewersFinite DEF SynthesisEligible
  <2> QED BY <1>6, <1>7, <2>1, MinimaAreNumbers, MoreAreMore
<1>10. ASSUME ~inv[p].labelled
       PROVE  /\ Required \subseteq good
              /\ Cardinality(good \cap Optional) >= MinOptional /\ Cardinality(good) >= MinTotal
  <2>1. ~Labelled(status, waived)
    BY <1>2, <1>10
  <2>2. /\ Required \subseteq Successes(Required, status)
        /\ Cardinality(Successes(Optional, status)) >= MinOptional
        /\ Cardinality(Successes(Reviewers, status)) >= MinTotal
    BY <1>2, <2>1, NoSilentDegradation
  <2>3. Required \subseteq good
    BY <1>4, <2>2 DEF Successes, Reviewers
  <2> QED BY <1>6, <1>7, <2>2, <2>3, MinimaAreNumbers, MoreAreMore
<1> HIDE DEF counted
<1>11. /\ Required \subseteq counted
       /\ Cardinality(counted \cap Optional) >= MinOptional
       /\ Cardinality(counted) >= MinTotal
       /\ ~inv[p].labelled =>
            /\ Required \subseteq good
            /\ Cardinality(good \cap Optional) >= MinOptional
            /\ Cardinality(good) >= MinTotal
  BY <1>8, <1>9, <1>10
<1> QED BY <1>11 DEF good, counted

\* An eligible verdict of the quorum check rests on results and waivers that were
\* there while the check read, whoever wrote and whatever expired meanwhile: every
\* required slot is covered, the minima are met, and without a label deliveries
\* alone were enough.
THEOREM VerdictsGrounded == Spec => []QuorumGrounded
<1>1. Init => QuorumInv
  BY DEF Init, QuorumInv, Idle
<1> QED BY <1>1, InitTypes, StepTypes, StepUnderstood, UnderstoodGrounds, PTL DEF Spec

-----------------------------------------------------------------------------
(* Where a result that counts comes from. *)

\* A made-up result that is not a failure is that of a success, which is ok.
LEMMA OnlySuccessCounts ==
    ASSUME NEW provider, NEW scenario, Build(provider, scenario).status # "failed"
    PROVE  ScenarioOk(provider, scenario)
<1>1. scenario = "success"
  BY DEF Build, ClassifyFailure, BaseResult
<1>2. /\ BaseResult(provider, scenario).provider = provider
      /\ BaseResult(provider, scenario).search = (provider = "deepseek")
      /\ BaseResult(provider, scenario).cited = (provider = "deepseek")
  BY DEF BaseResult
<1>3. ContractErrors(BaseResult(provider, scenario)) = {}
  BY <1>2 DEF ContractErrors
<1> QED BY <1>1, <1>3 DEF ScenarioOk, Build

FromGoodRun(s) ==
    \E p \in Procs : inv[p].tool = "adapter" /\ inv[p].pc # "ended"
                     /\ inv'[p].pc = "ended" /\ inv'[p].ok /\ ~inv'[p].sent

\* Only a scenario writes a result that counts.
LEMMA CountedStep ==
    ASSUME TypeInv, [Next]_vars, NEW s \in Reviewers, Counts(results'[s]), results[s] # results'[s]
    PROVE  FromGoodRun(s)
<1>1. results'[s] \in Eligible /\ results'[s] # Text /\ results'[s] # "failed"
  BY FilesDiffer DEF Counts
<1>2. PICK p \in Procs : Step(p)
  BY DEF Next, Tick, vars
<1>3. ASSUME NEW file, NEW me, Overwrites(p, inv[p].slot, file, me)
      PROVE  s = inv[p].slot /\ file = results'[s] /\ inv'[p] = me
  <2>1. inv'[p] = me
    BY <1>3 DEF Overwrites
  <2>2. results'[s] = IF s = inv[p].slot THEN file ELSE results[s]
    BY <1>3 DEF Overwrites, TypeInv
  <2> QED BY <2>1, <2>2
<1>4. CASE RunScenario(p)
  <2>1. inv[p].pc = "scenario" /\ inv[p] \in AdapterRecords
    BY <1>4, RecordOf DEF RunScenario
  <2>2. PICK provider, scenario :
          Overwrites(p, inv[p].slot, Build(provider, scenario).status,
                     [inv[p] EXCEPT !.pc = "ended", !.ok = ScenarioOk(provider, scenario)])
    BY <1>4 DEF RunScenario
  <2> DEFINE me == [inv[p] EXCEPT !.pc = "ended", !.ok = ScenarioOk(provider, scenario)]
  <2>3. /\ inv[p].tool = "adapter" /\ me.pc = "ended" /\ me.ok = ScenarioOk(provider, scenario)
        /\ ~me.sent
    BY <2>1 DEF AdapterRecords
  <2> HIDE DEF me
  <2>4. inv'[p] = me /\ Build(provider, scenario).status # "failed"
    BY <1>1, <1>3, <2>2 DEF me
  <2> QED BY <2>1, <2>3, <2>4, OnlySuccessCounts DEF FromGoodRun
<1>5. CASE WriteAnswer(p) \/ WriteCliAnswer(p) \/ WriteFails(p)
  <2>1. PICK me : Overwrites(p, inv[p].slot, Text, me)
    BY <1>5 DEF WriteAnswer, WriteCliAnswer, WriteFails
  <2> QED BY <1>1, <1>3, <2>1
<1>6. CASE BeginAdapter(p) \/ ResolvePrompt(p) \/ Send(p) \/ BeginCli(p) \/ ResolveCliPrompt(p)
           \/ InvokeCli(p)
  BY <1>6 DEF BeginAdapter, ResolvePrompt, Send, BeginCli, ResolveCliPrompt, InvokeCli
<1>7. CASE BeginQuorum(p) \/ ReadResult(p) \/ ReadWaiver(p) \/ Decide(p)
  BY <1>7 DEF BeginQuorum, ReadResult, ReadWaiver, Decide
<1>8. CASE BeginRehearsal(p) \/ CheckFixtures(p) \/ Smoke(p) \/ SmokeTimesOut(p) \/ WriteReport(p)
           \/ Premortem(p)
  BY <1>8 DEF BeginRehearsal, CheckFixtures, Smoke, SmokeTimesOut, WriteReport, Premortem
<1> QED BY <1>2, <1>4, <1>5, <1>6, <1>7, <1>8 DEF Step

\* A result that counts never comes from an adapter that failed, nor from a
\* provider that was called: only from a scenario that ended well.
THEOREM NoFailureCounts == Spec => FailureNeverCounts
<1>1. TypeInv /\ [Next]_vars =>
        [\A s \in Reviewers : Counts(results'[s]) /\ results[s] # results'[s] =>
           \E p \in Procs : inv[p].tool = "adapter" /\ inv[p].pc # "ended"
                            /\ inv'[p].pc = "ended" /\ inv'[p].ok /\ ~inv'[p].sent]_vars
  BY CountedStep DEF FromGoodRun
<1> QED BY <1>1, InitTypes, StepTypes, PTL DEF Spec, FailureNeverCounts
-----------------------------------------------------------------------------
(* The live cutover, for every environment and every state of the fixtures.*)
(* Nothing a rehearsal or a premortem looks at changes while they run but  *)
(* the time; Sound says what a rehearsal that has passed its checks knows. *)

\* The fixtures as a live rehearsal saw them when it looked.
Seen(me) == [now |-> me.checked, expires |-> expires, skew |-> Skew, live |-> TRUE, key |-> env.keys]

Sound(me) ==
    /\ me.pc = "checks" => me.errors = EnvErrors(env, me.live)
    /\ me.pc \in {"checks", "smoke"} => ~me.attempted
    /\ me.pc = "smoke" \/ me.attempted =>
         me.live /\ ~EnvErrors(env, TRUE) /\ FixtureErrors(fixtures, Seen(me)) = {}

Foresaw(me) ==
    \E tools, valid, reachable \in BOOLEAN :
        me.errors = PremortemFixtureErrors(fixtures) \cup Diagnosed(env, tools, valid, reachable)

CutoverInv ==
    \A p \in Procs :
        /\ inv[p].tool = "rehearsal" => Sound(inv[p])
        /\ inv[p].tool = "premortem" => Foresaw(inv[p])

-----------------------------------------------------------------------------
(* Steps. *)

\* Whoever is neither a rehearsal nor a premortem leaves those alone.
LEMMA Bystander ==
    ASSUME CutoverInv, UNCHANGED world,
           \A q \in Procs : \/ inv'[q] = inv[q]
                            \/ /\ inv[q].tool \notin {"rehearsal", "premortem"}
                               /\ inv'[q].tool \notin {"rehearsal", "premortem"}
    PROVE  CutoverInv'
<1>1. ASSUME NEW q \in Procs, inv'[q].tool = "rehearsal"
      PROVE  Sound(inv[q])'
  <2>1. inv'[q] = inv[q] /\ Sound(inv[q])
    BY <1>1 DEF CutoverInv
  <2> QED BY <2>1 DEF Sound, Seen, world
<1>2. ASSUME NEW q \in Procs, inv'[q].tool = "premortem"
      PROVE  Foresaw(inv[q])'
  BY <1>2 DEF CutoverInv, Foresaw, world
<1> QED BY <1>1, <1>2 DEF CutoverInv

\* A rehearsal's or a premortem's own step, which leaves the world alone.
LEMMA CutoverStep ==
    ASSUME TypeInv, CutoverInv, NEW p \in Procs, NEW me, Becomes(p, me), UNCHANGED world,
           me.tool = "rehearsal" => Sound(me),
           me.tool = "premortem" => Foresaw(me)
    PROVE  CutoverInv'
<1>1. \A q \in Procs : inv'[q] = IF q = p THEN me ELSE inv[q]
  BY DEF TypeInv, Becomes
<1>2. ASSUME NEW q \in Procs, inv'[q].tool = "rehearsal"
      PROVE  Sound(inv[q])'
  <2>1. Sound(inv'[q])
    BY <1>1, <1>2 DEF CutoverInv
  <2> QED BY <2>1 DEF Sound, Seen, world
<1>3. ASSUME NEW q \in Procs, inv'[q].tool = "premortem"
      PROVE  Foresaw(inv[q])'
  BY <1>1, <1>3 DEF CutoverInv, Foresaw, world
<1> QED BY <1>2, <1>3 DEF CutoverInv

\* The steps of a rehearsal.
LEMMA RehearsalStep ==
    ASSUME TypeInv, CutoverInv, NEW p \in Procs,
           BeginRehearsal(p) \/ CheckFixtures(p) \/ Smoke(p) \/ SmokeTimesOut(p) \/ WriteReport(p)
    PROVE  CutoverInv'
<1>1. CASE BeginRehearsal(p)
  <2>1. PICK live \in BOOLEAN :
          Becomes(p, [tool |-> "rehearsal", pc |-> "checks", live |-> live, second |-> now,
                      errors |-> EnvErrors(env, live), checked |-> -1,
                      attempted |-> FALSE, said |-> Nothing])
    BY <1>1 DEF BeginRehearsal
  <2> DEFINE me == [tool |-> "rehearsal", pc |-> "checks", live |-> live, second |-> now,
                    errors |-> EnvErrors(env, live), checked |-> -1,
                    attempted |-> FALSE, said |-> Nothing]
  <2>2. Sound(me)
    BY DEF Sound
  <2> QED BY <1>1, <2>1, <2>2, CutoverStep DEF BeginRehearsal
<1>2. CASE CheckFixtures(p) \/ Smoke(p) \/ SmokeTimesOut(p) \/ WriteReport(p)
  <2>1. inv[p] \in RehearsalRecords
    BY <1>2, RecordOf DEF CheckFixtures, Smoke, SmokeTimesOut, WriteReport
  <2>2. inv[p].tool = "rehearsal" /\ Sound(inv[p])
    BY <2>1 DEF RehearsalRecords, CutoverInv
  <2>3. CASE CheckFixtures(p)
    <3> DEFINE found == FixtureErrors(fixtures, [now |-> now, expires |-> expires, skew |-> Skew,
                                                 live |-> inv[p].live, key |-> env.keys])
               errors == inv[p].errors \/ found # {}
               pc == IF inv[p].live /\ ~errors THEN "smoke" ELSE "report"
               me == [inv[p] EXCEPT !.errors = errors, !.checked = now, !.pc = pc]
    <3>1. inv[p].pc = "checks" /\ Becomes(p, me) /\ UNCHANGED world
      BY <2>3 DEF CheckFixtures
    <3>2. /\ me.tool = "rehearsal"
          /\ me.live = inv[p].live /\ me.attempted = inv[p].attempted
          /\ me.checked = now /\ me.pc = pc
      BY <2>1 DEF RehearsalRecords
    <3>3. ASSUME pc = "smoke"
          PROVE  inv[p].live /\ ~EnvErrors(env, TRUE) /\ FixtureErrors(fixtures, Seen(me)) = {}
      <4>1. inv[p].live = TRUE /\ ~inv[p].errors /\ found = {}
        BY <2>1, <3>3 DEF RehearsalRecords
      <4>2. ~EnvErrors(env, TRUE)
        BY <2>2, <3>1, <4>1 DEF Sound
      <4>3. FixtureErrors(fixtures, Seen(me)) = {}
        BY <3>2, <4>1 DEF Seen
      <4> QED BY <4>1, <4>2, <4>3
    <3>4. pc \in {"smoke", "report"}
      OBVIOUS
    <3> HIDE DEF me, pc
    <3>5. Sound(me)
      BY <2>2, <3>1, <3>2, <3>3, <3>4 DEF Sound
    <3> QED BY <3>1, <3>2, <3>5, CutoverStep
  <2>4. CASE Smoke(p)
    <3>1. PICK attempted, errors :
            Becomes(p, [inv[p] EXCEPT !.pc = "report", !.attempted = attempted, !.errors = errors])
      <4>1. [inv[p] EXCEPT !.pc = "report", !.errors = TRUE]
              = [inv[p] EXCEPT !.pc = "report", !.attempted = inv[p].attempted, !.errors = TRUE]
        BY <2>1 DEF RehearsalRecords
      <4>2. \/ \E passes \in BOOLEAN :
                 Becomes(p, [inv[p] EXCEPT !.pc = "report", !.attempted = TRUE, !.errors = ~passes])
            \/ Becomes(p, [inv[p] EXCEPT !.pc = "report", !.errors = TRUE])
        BY <2>4 DEF Smoke
      <4> QED BY <4>1, <4>2
    <3> DEFINE me == [inv[p] EXCEPT !.pc = "report", !.attempted = attempted, !.errors = errors]
    <3>2. inv[p].pc = "smoke" /\ UNCHANGED world
      BY <2>4 DEF Smoke
    <3>3. /\ me.tool = "rehearsal"
          /\ me.live = inv[p].live /\ me.checked = inv[p].checked /\ me.pc = "report"
      BY <2>1 DEF RehearsalRecords
    <3> HIDE DEF me
    <3>4. Sound(me)
      BY <2>2, <3>2, <3>3 DEF Sound, Seen
    <3>5. Becomes(p, me)
      BY <3>1 DEF me
    <3> QED BY <3>2, <3>3, <3>4, <3>5, CutoverStep
  <2>5. CASE SmokeTimesOut(p)
    <3> DEFINE me == [inv[p] EXCEPT !.pc = "ended", !.attempted = TRUE]
    <3>1. inv[p].pc = "smoke" /\ Becomes(p, me) /\ UNCHANGED world
      BY <2>5 DEF SmokeTimesOut
    <3>2. /\ me.tool = "rehearsal"
          /\ me.live = inv[p].live /\ me.checked = inv[p].checked /\ me.pc = "ended"
      BY <2>1 DEF RehearsalRecords
    <3> HIDE DEF me
    <3>3. Sound(me)
      BY <2>2, <3>1, <3>2 DEF Sound, Seen
    <3> QED BY <3>1, <3>2, <3>3, CutoverStep
  <2>6. CASE WriteReport(p)
    <3> DEFINE said == [ok |-> ~inv[p].errors, retrySafe |-> RetrySafe(inv[p])]
               me == [inv[p] EXCEPT !.pc = "ended", !.said = said]
    <3>1. inv[p].pc = "report" /\ Becomes(p, me) /\ UNCHANGED world
      BY <2>6 DEF WriteReport, world
    <3>2. /\ me.tool = "rehearsal" /\ me.live = inv[p].live /\ me.checked = inv[p].checked
          /\ me.pc = "ended" /\ me.attempted = inv[p].attempted
      BY <2>1 DEF RehearsalRecords
    <3> HIDE DEF me
    <3>3. Sound(me)
      BY <2>2, <3>2 DEF Sound, Seen
    <3> QED BY <3>1, <3>2, <3>3, CutoverStep
  <2> QED BY <1>2, <2>3, <2>4, <2>5, <2>6
<1> QED BY <1>1, <1>2

\* Every step of the review stage keeps what the cutover rests on.
LEMMA StepCutover == TypeInv /\ CutoverInv /\ [Next]_vars => CutoverInv'
<1> SUFFICES ASSUME TypeInv, CutoverInv, [Next]_vars PROVE CutoverInv'
  OBVIOUS
<1>1. CASE Tick
  BY <1>1, Bystander DEF Tick
<1>2. ASSUME NEW p \in Procs,
             \/ BeginAdapter(p) \/ RunScenario(p) \/ ResolvePrompt(p) \/ Send(p) \/ WriteAnswer(p)
             \/ BeginCli(p) \/ ResolveCliPrompt(p) \/ InvokeCli(p) \/ WriteCliAnswer(p) \/ WriteFails(p)
      PROVE  CutoverInv'
  <2>1. /\ UNCHANGED world /\ inv'[p].tool = "adapter"
        /\ inv[p] \in {Idle} \cup AdapterRecords
    BY <1>2, AdapterStep
  <2>2. inv[p].tool \in {"none", "adapter"}
    <3>1. CASE inv[p] = Idle BY <3>1 DEF Idle
    <3>2. CASE inv[p] \in AdapterRecords BY <3>2 DEF AdapterRecords
    <3> QED BY <2>1, <3>1, <3>2
  <2>3. \/ \A q \in Procs \ {p} : inv'[q] = inv[q]
        \/ \E s \in Reviewers : \A q \in Procs \ {p} :
             IF inv[q].tool = "quorum" /\ Counts(results'[s])
             THEN inv'[q] = [inv[q] EXCEPT !.delivered = @ \cup {s}]
             ELSE inv'[q] = inv[q]
    BY <1>2, AdapterStep
  <2>4. ASSUME NEW q \in Procs, inv[q].tool = "quorum"
        PROVE  \A s : [inv[q] EXCEPT !.delivered = @ \cup {s}].tool = "quorum"
    BY <2>4, RecordOf DEF QuorumRecords
  <2>5. \A q \in Procs \ {p} : \/ inv'[q] = inv[q]
                               \/ inv[q].tool = "quorum" /\ inv'[q].tool = "quorum"
    BY <2>3, <2>4
  <2> QED BY <2>1, <2>2, <2>5, Bystander
<1>3. ASSUME NEW p \in Procs, BeginQuorum(p) \/ ReadResult(p) \/ ReadWaiver(p) \/ Decide(p)
      PROVE  CutoverInv'
  <2>1. PICK me : Becomes(p, me) /\ me.tool = "quorum" /\ inv[p].tool \in {"none", "quorum"}
    <3>1. CASE BeginQuorum(p)
      <4>1. inv[p] = Idle
        BY <3>1, RecordOf DEF BeginQuorum, MayBegin
      <4>2. inv[p].tool = "none"
        BY <4>1 DEF Idle
      <4> QED BY <3>1, <4>2 DEF BeginQuorum
    <3>2. CASE ReadResult(p) \/ ReadWaiver(p) \/ Decide(p)
      <4>1. inv[p] \in QuorumRecords
        BY <3>2, RecordOf DEF ReadResult, ReadWaiver, Decide
      <4>2. /\ inv[p].tool = "quorum"
            /\ [inv[p] EXCEPT !.pc = "ended"].tool = "quorum"
            /\ \A s, r : [inv[p] EXCEPT !.todo = @ \ {s}, !.status[s] = r].tool = "quorum"
            /\ \A s, valid : [inv[p] EXCEPT !.files = @ \ {s},
                                !.waived = IF valid THEN @ \cup {s} ELSE @].tool = "quorum"
            /\ \A yes, label :
                 [inv[p] EXCEPT !.pc = "ended", !.eligible = yes, !.labelled = label].tool = "quorum"
        BY <4>1 DEF QuorumRecords
      <4>3. CASE ReadResult(p)
        BY <4>2, <4>3 DEF ReadResult, Goes
      <4>4. CASE ReadWaiver(p)
        BY <4>2, <4>4 DEF ReadWaiver, Goes, TakesWaiver
      <4>5. CASE Decide(p)
        BY <4>2, <4>5 DEF Decide
      <4> QED BY <3>2, <4>3, <4>4, <4>5
    <3> QED BY <1>3, <3>1, <3>2
  <2>2. UNCHANGED world
    BY <1>3 DEF BeginQuorum, ReadResult, ReadWaiver, Decide
  <2>3. \A q \in Procs : inv'[q] = IF q = p THEN me ELSE inv[q]
    BY <2>1 DEF TypeInv, Becomes
  <2> QED BY <2>1, <2>2, <2>3, Bystander
<1>4. ASSUME NEW p \in Procs, Premortem(p)
      PROVE  CutoverInv'
  <2>1. PICK tools \in BOOLEAN, valid \in BOOLEAN, reachable \in BOOLEAN :
          Becomes(p, [tool |-> "premortem", pc |-> "ended",
                      errors |-> PremortemFixtureErrors(fixtures)
                                 \cup Diagnosed(env, tools, valid, reachable)])
    BY <1>4 DEF Premortem
  <2> DEFINE me == [tool |-> "premortem", pc |-> "ended",
                    errors |-> PremortemFixtureErrors(fixtures)
                               \cup Diagnosed(env, tools, valid, reachable)]
  <2>2. Foresaw(me)
    BY DEF Foresaw
  <2>3. UNCHANGED world
    BY <1>4 DEF Premortem
  <2> QED BY <2>1, <2>2, <2>3, CutoverStep
<1>5. CASE UNCHANGED vars
  BY <1>5, Bystander DEF vars, world
<1> QED BY <1>1, <1>2, <1>3, <1>4, <1>5, RehearsalStep DEF Next, Step

-----------------------------------------------------------------------------
(* What follows. *)

\* If the rehearsal finds no error, it reached every fixture and all are there.
LEMMA CleanFixtures ==
    ASSUME NEW files, NEW at, FixtureErrors(files, at) = {},
           \A f \in FixtureNames : files[f] \in States(f)
    PROVE  /\ \A f \in FixtureNames : files[f] \in {"good", "few_phases"}
           /\ \A f \in FixtureNames \ {"checklist"} : files[f] = "good"
           /\ ~(ParseUtc(at.expires, at.skew) <= at.now)
           /\ at.live => at.key
<1> USE DEF FixtureNames, Position
<1>1. \A f \in FixtureNames :
        Reached(f, FixtureNames, files) => files[f] # "torn" /\ ~Problem(f, files, at)
  BY DEF FixtureErrors
<1>2. files["checklist"] # "torn" /\ Reached("checklist", FixtureNames, files)
  BY <1>1 DEF Reached
<1>3. files["docs"] # "torn" /\ Reached("docs", FixtureNames, files)
  BY <1>1, <1>2 DEF Reached
<1>4. files["capabilities"] # "torn" /\ Reached("capabilities", FixtureNames, files)
  BY <1>1, <1>2, <1>3 DEF Reached
<1>5. files["browser"] # "torn" /\ Reached("browser", FixtureNames, files)
  BY <1>1, <1>2, <1>3, <1>4 DEF Reached
<1>6. files["index"] # "torn" /\ Reached("index", FixtureNames, files)
  BY <1>1, <1>2, <1>3, <1>4, <1>5 DEF Reached
<1>7. files["waiver"] # "torn" /\ Reached("waiver", FixtureNames, files)
  BY <1>1, <1>2, <1>3, <1>4, <1>5, <1>6 DEF Reached
<1>8. /\ ~ChecklistError(files["checklist"])
      /\ ~DocsError(files["docs"], at.expires, at.skew, at.now)
      /\ ~CapabilityError(files["capabilities"], at.live, at.key)
      /\ ~BrowserError(files["browser"]) /\ ~IndexError(files["index"])
      /\ ~WaiverPolicyError(files["waiver"])
  BY <1>1, <1>2, <1>3, <1>4, <1>5, <1>6, <1>7 DEF Problem
<1>9. /\ files["checklist"] \in {"good", "few_phases"} /\ files["docs"] = "good"
      /\ files["capabilities"] = "good" /\ files["browser"] = "good"
      /\ files["index"] = "good" /\ files["waiver"] = "good"
  BY <1>2, <1>3, <1>4, <1>5, <1>6, <1>7, <1>8
     DEF States, ChecklistError, DocsError, CapabilityError, BrowserError, IndexError, WaiverPolicyError
<1> QED BY <1>8, <1>9 DEF DocsError, CapabilityError

\* A smoke was made with every check behind it.
LEMMA CutoverJustified == TypeInv /\ CutoverInv => SmokeJustified
<1> SUFFICES ASSUME TypeInv, CutoverInv,
                    NEW p \in Procs, inv[p].tool = "rehearsal", inv[p].attempted
             PROVE  /\ inv[p].live /\ env.approval /\ env.switch /\ env.keys
                    /\ env.remote \in {"token", "tokens", "pool"}
                    /\ \A f \in FixtureNames : fixtures[f] \in {"good", "few_phases"}
                    /\ expires + Skew > inv[p].checked
                    /\ \A q \in Procs : inv[q].tool = "premortem" =>
                         LET found == inv[q].errors IN
                         /\ "waiver" \notin found
                         /\ "token" \in found => env.remote = "tokens"
                         /\ "checklist" \in found => fixtures["checklist"] = "few_phases"
  BY DEF SmokeJustified
<1>1. /\ inv[p].live /\ ~EnvErrors(env, TRUE)
      /\ FixtureErrors(fixtures, Seen(inv[p])) = {}
  BY DEF CutoverInv, Sound
<1>2. inv[p] \in RehearsalRecords
  BY RecordOf
<1>3. env \in Environments /\ expires \in Int /\ Skew \in Int /\ inv[p].checked \in Int
  BY <1>2, BoundsAreNumbers DEF TypeInv, Times, RehearsalRecords
<1>4. env.approval /\ env.switch /\ env.remote \in {"token", "tokens", "pool"}
  BY <1>1, <1>3 DEF EnvErrors, Environments, Remotes
<1>5. \A f \in FixtureNames : fixtures[f] \in States(f)
  BY DEF TypeInv
<1> DEFINE at == Seen(inv[p])
<1>6. /\ at.expires = expires /\ at.skew = Skew /\ at.now = inv[p].checked
      /\ at.live = TRUE /\ at.key = env.keys
  BY DEF Seen
<1> HIDE DEF at
<1>7. FixtureErrors(fixtures, at) = {}
  BY <1>1 DEF at
<1>8. /\ \A f \in FixtureNames : fixtures[f] \in {"good", "few_phases"}
      /\ \A f \in FixtureNames \ {"checklist"} : fixtures[f] = "good"
      /\ ~(expires + Skew <= inv[p].checked)
      /\ env.keys
  BY <1>5, <1>6, <1>7, CleanFixtures DEF ParseUtc
<1>9. expires + Skew > inv[p].checked
  BY <1>3, <1>8
<1>10. ASSUME NEW q \in Procs, inv[q].tool = "premortem"
       PROVE  /\ "waiver" \notin inv[q].errors
              /\ "token" \in inv[q].errors => env.remote = "tokens"
              /\ "checklist" \in inv[q].errors => fixtures["checklist"] = "few_phases"
  <2>1. PICK tools \in BOOLEAN, valid \in BOOLEAN, reachable \in BOOLEAN :
          inv[q].errors = PremortemFixtureErrors(fixtures) \cup Diagnosed(env, tools, valid, reachable)
    BY <1>10 DEF CutoverInv, Foresaw
  <2>2. fixtures["waiver"] = "good" /\ fixtures["checklist"] \in {"good", "few_phases"}
    BY <1>8 DEF FixtureNames
  <2>3. /\ "waiver" \notin PremortemFixtureErrors(fixtures)
        /\ "token" \notin PremortemFixtureErrors(fixtures)
        /\ "checklist" \in PremortemFixtureErrors(fixtures) => fixtures["checklist"] = "few_phases"
    BY <2>2 DEF PremortemFixtureErrors, PremortemNames
  <2>4. /\ "waiver" \notin Diagnosed(env, tools, valid, reachable)
        /\ "checklist" \notin Diagnosed(env, tools, valid, reachable)
        /\ "token" \in Diagnosed(env, tools, valid, reachable) => env.remote = "tokens"
    BY <1>4 DEF Diagnosed
  <2> QED BY <2>1, <2>3, <2>4
<1> QED BY <1>1, <1>4, <1>8, <1>9, <1>10

\* No rehearsal has begun at first.
LEMMA InitCutover == Init => CutoverInv
BY DEF Init, CutoverInv, Idle

\* A live smoke is made only by an approved rehearsal that asked for it, in an
\* environment that is set up for it, with every fixture in order and the docs
\* snapshot not expired by the local clock when it was looked at; and a
\* premortem of the same files could object to it only for what it alone checks.
THEOREM SmokesAreJustified == Spec => []SmokeJustified
BY InitCutover, InitTypes, StepTypes, StepCutover, CutoverJustified, PTL DEF Spec
=============================================================================
