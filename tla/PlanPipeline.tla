---------------------------- MODULE PlanPipeline ----------------------------
(***************************************************************************)
(* plan-pipeline.py: fan out to the providers of a route, normalise their  *)
(* results, compare the plans and synthesise, over the files of one run    *)
(* directory.  Each process is one invocation; it runs the stages that its *)
(* action needs, file by file, while other invocations work in the same    *)
(* directory.  Nothing locks the directory and no write is atomic.         *)
(***************************************************************************)
EXTENDS PlanIR, Naturals, Sequences, FiniteSets

CONSTANTS Procs,       \* invocations; each runs once
          Routes,      \* the route configurations a directory may have
          Listing,     \* every slot that may have a file, in sorted order
          Sourceless,  \* slots with neither an adapter nor a fixture
          Deposits,    \* slots for which the operator may put a result by hand
          NoFile, Torn, \* no file; a file cut short
          Nothing, Operator,
          MaxActive, MaxKills

Elements(seq) == {seq[i] : i \in 1..Len(seq)}
Slots == Elements(Listing)
Stages == {"fanout", "normalize", "compare", "synthesize"}
Actions == Stages \cup {"replay", "check_cache"}
Mishaps == {"fanout_failed", "cut_short", "overlap", "deposit"}

ASSUME SlotsListed == Listing \in Seq(Slots)
ASSUME RoutesListed == Routes \subseteq [first : Seq(Slots), required : Seq(Slots), optional : Seq(Slots)]
ASSUME SourcesKnown == Sourceless \cup Deposits \subseteq Slots
ASSUME OperatorIsNoProc == Operator \notin Procs
ASSUME BoundsAreNumbers == {MaxActive, MaxKills} \subseteq Nat

VARIABLES route,      \* inputs/provider-route.json, or the balanced route
          results,    \* provider_results/<slot>.json
          plans,      \* normalized_plans/<slot>.normalized.json
          comparison, \* comparison/comparison-result.json
          synthesis,  \* synthesis/final-plan-artifact.json
          inv,        \* what each invocation is doing
          mishaps     \* what has gone wrong in this directory (observation)

files == <<results, plans, comparison, synthesis>>
vars == <<route, files, inv, mishaps>>

Results == [by : Procs \cup {Operator}, text : BOOLEAN]
Plans == [by : Procs, ir : Artifacts]
Snapshots == [Slots -> Plans \cup {NoFile}]
Comparisons == [plans : Snapshots, contradictions : 0..Len(Listing)]
Syntheses == [plans : Snapshots, comparison : Comparisons, status : {"ready", "needs_review"}]
\* What a comparison or, with the comparison that was read, a synthesis has so far.
Drafts == [plans : Snapshots, comparison : Comparisons \cup {Nothing}]
NoPlans == [s \in Slots |-> NoFile]

PCs == {"idle", "call", "store", "normalize", "list_plans", "read_plans",
        "write_comparison", "read_comparison", "write_synthesis", "ended"}
Outcomes == {"ok", "failed", "killed"}
Invocations == [pc : PCs, action : Actions, forced : BOOLEAN, todo : Seq(Slots),
                held : Results \cup Drafts \cup {Nothing},
                outcome : Outcomes \cup {Nothing}]

ASSUME NothingIsApart ==
    /\ NoFile # Torn
    /\ \A f \in {NoFile, Torn} : f \notin Results \cup Plans \cup Comparisons \cup Syntheses
    /\ Nothing \notin Outcomes \cup Comparisons

Init ==
    /\ route \in Routes
    /\ results = [s \in Slots |-> NoFile]
    /\ plans = [s \in Slots |-> NoFile]
    /\ comparison = NoFile
    /\ synthesis = NoFile
    /\ inv = [p \in Procs |-> [pc |-> "idle", action |-> "fanout", forced |-> FALSE,
                               todo |-> <<>>, held |-> Nothing, outcome |-> Nothing]]
    /\ mishaps = {}

-----------------------------------------------------------------------------
(* Where an invocation begins and how it goes on.                          *)

Active(p) == inv[p].pc \notin {"idle", "ended"}
Whole(file) == file \notin {NoFile, Torn}
Listed(dir) == {s \in Slots : dir[s] # NoFile}

\* An action runs first the stages whose directory holds no file at all.
FromNormalizeAlways == "fanout"
FromNormalize == IF Listed(results) = {} THEN "fanout" ELSE "normalize"
FromCompare == IF Listed(plans) = {} THEN FromNormalize ELSE "compare"
FromSynthesize == IF comparison = NoFile THEN FromCompare ELSE "synthesize"
FirstStage(action) ==
    CASE action = "fanout" -> "fanout"
      [] action = "normalize" -> FromNormalize
      [] action = "compare" -> FromCompare
      [] action = "synthesize" -> FromSynthesize

Ended(me, outcome) ==
    [me EXCEPT !.pc = "ended", !.outcome = outcome, !.todo = <<>>, !.held = Nothing]

\* The elements of a sequence at some of its indices, in their order.
Picked(seq, indices) ==
    [k \in 1..Cardinality(indices) |->
       seq[CHOOSE i \in indices : Cardinality({j \in indices : j <= i}) = k]]

\* choose_fanout_slots: first plans, required and optional reviews, each slot
\* where it comes first.
FanoutSlots(config) ==
    LET all == config.first \o config.required \o config.optional
    IN Picked(all, {i \in DOMAIN all : \A j \in 1..(i - 1) : all[j] # all[i]})

\* sorted(dir.glob("*.json")), and what is read of it so far.
Walk(dir) == Picked(Listing, {i \in DOMAIN Listing : dir[Listing[i]] # NoFile})
Draft(c) == [plans |-> NoPlans, comparison |-> c]
WithPlan(draft, s, plan) ==
    [plans |-> [draft.plans EXCEPT ![s] = plan], comparison |-> draft.comparison]

\* Entering a stage: fan-out walks the slots of the route, if there are any,
\* normalisation the files that provider_results/ lists at that moment;
\* comparison begins with no plan read.
Enter(me, stage, dir) ==
    CASE stage = "fanout" ->
            IF FanoutSlots(route) = <<>> THEN Ended(me, "failed")
            ELSE [me EXCEPT !.pc = "call", !.todo = FanoutSlots(route), !.held = Nothing]
      [] stage = "normalize" ->
            [me EXCEPT !.pc = "normalize", !.todo = Walk(dir), !.held = Nothing]
      [] stage = "compare" ->
            [me EXCEPT !.pc = "list_plans", !.todo = <<>>, !.held = Draft(Nothing)]
      [] stage = "synthesize" ->
            [me EXCEPT !.pc = "read_comparison", !.todo = <<>>, !.held = Nothing]

\* The end of a stage is the end of the invocation, or the next stage.
After(me, stage, next, dir) ==
    IF me.action = stage THEN Ended(me, "ok") ELSE Enter(me, next, dir)

Becomes(p, me) == inv' = [inv EXCEPT ![p] = me]

\* Any error ends the invocation and leaves the files as they are.
Fails(p) ==
    /\ Becomes(p, Ended(inv[p], "failed"))
    /\ mishaps' = IF inv[p].pc = "call" THEN mishaps \cup {"fanout_failed"} ELSE mishaps
    /\ UNCHANGED files

Begin(p) ==
    /\ inv[p].pc = "idle"
    /\ Cardinality({q \in Procs : Active(q)}) < MaxActive
    /\ \E action \in Stages, forced \in BOOLEAN :
         Becomes(p, Enter([inv[p] EXCEPT !.action = action, !.forced = forced],
                          FirstStage(action), results))
    /\ mishaps' = IF \E q \in Procs : Active(q) THEN mishaps \cup {"overlap"} ELSE mishaps
    /\ UNCHANGED files

-----------------------------------------------------------------------------
(* Fan-out.                                                                *)

CallSkipping(p) ==
    /\ inv[p].pc = "call"
    /\ Becomes(p, IF Head(inv[p].todo) \notin Sourceless
                  THEN [inv[p] EXCEPT !.pc = "store", !.held = [by |-> p, text |-> TRUE]]
                  ELSE IF Len(inv[p].todo) > 1 THEN [inv[p] EXCEPT !.todo = Tail(@)]
                  ELSE After(inv[p], "fanout", "normalize", results))
    /\ UNCHANGED <<files, mishaps>>

\* An adapter that fails in any way is replaced by the slot's fixture, so that
\* only a slot with neither has no answer.
Answers(s) == s \notin Sourceless

\* The request is on disk and the slot is asked.
Call(p) ==
    /\ inv[p].pc = "call"
    /\ IF ~Answers(Head(inv[p].todo)) THEN Fails(p)
       ELSE /\ Becomes(p, [inv[p] EXCEPT !.pc = "store", !.held = [by |-> p, text |-> TRUE]])
            /\ UNCHANGED <<files, mishaps>>

Store(p) ==
    /\ inv[p].pc = "store"
    /\ LET me == inv[p]
           rest == Tail(me.todo)
       IN /\ results' = [results EXCEPT ![Head(me.todo)] = me.held]
          /\ Becomes(p, IF rest # <<>> THEN [me EXCEPT !.pc = "call", !.todo = rest, !.held = Nothing]
                        ELSE After(me, "fanout", "normalize", results'))
    /\ UNCHANGED <<plans, comparison, synthesis, mishaps>>

-----------------------------------------------------------------------------
(* Normalisation, comparison, synthesis.                                   *)

\* The converter exits with an error, or prints an envelope that is not ok.
ConverterFails(result, forced) == result = Torn \/ ~NormalizeSucceeds("export", forced)

Normalize(p) ==
    /\ inv[p].pc = "normalize"
    /\ LET me == inv[p]
           s == Head(me.todo)
           rest == Tail(me.todo)
       IN IF ConverterFails(results[s], me.forced) THEN Fails(p)
          ELSE /\ plans' = [plans EXCEPT ![s] =
                     [by |-> p, ir |-> Normalized(results[s], "export", me.forced)]]
               /\ Becomes(p, IF rest # <<>> THEN [me EXCEPT !.todo = rest]
                             ELSE After(me, "normalize", "compare", results))
               /\ UNCHANGED <<results, comparison, synthesis, mishaps>>

ContradictionsUnreferenced(snapshot) ==
    Cardinality({s \in Slots : snapshot[s] # NoFile /\ snapshot[s].ir.refs = {}})

Contradictions(snapshot) ==
    Cardinality({s \in Slots : snapshot[s] # NoFile /\ Contradicts(snapshot[s].ir)})

\* A comparison needs two plans, a synthesis one.
ListPlans(p) ==
    /\ inv[p].pc = "list_plans"
    /\ LET needed == IF inv[p].held.comparison = Nothing THEN 2 ELSE 1
       IN IF Cardinality(Listed(plans)) < needed THEN Fails(p)
          ELSE /\ Becomes(p, [inv[p] EXCEPT !.pc = "read_plans", !.todo = Walk(plans)])
               /\ UNCHANGED <<files, mishaps>>

\* One file at a time, whatever becomes of the others meanwhile.
ReadPlan(p) ==
    /\ inv[p].pc = "read_plans"
    /\ LET me == inv[p]
           s == Head(me.todo)
           rest == Tail(me.todo)
           read == WithPlan(me.held, s, plans[s])
       IN IF plans[s] = Torn THEN Fails(p)
          ELSE /\ Becomes(p, IF rest # <<>> THEN [me EXCEPT !.todo = rest, !.held = read]
                             ELSE [me EXCEPT !.todo = rest, !.held = read,
                                     !.pc = IF read.comparison = Nothing
                                            THEN "write_comparison" ELSE "write_synthesis"])
               /\ UNCHANGED <<files, mishaps>>

WriteComparison(p) ==
    /\ inv[p].pc = "write_comparison"
    /\ LET snapshot == inv[p].held.plans
       IN comparison' = [plans |-> snapshot, contradictions |-> Contradictions(snapshot)]
    /\ Becomes(p, After(inv[p], "compare", "synthesize", results))
    /\ UNCHANGED <<results, plans, synthesis, mishaps>>

\* The comparison that is there is taken as it is, whatever it was about.
ReadComparison(p) ==
    /\ inv[p].pc = "read_comparison"
    /\ IF comparison = Torn THEN Fails(p)
       ELSE /\ Becomes(p, [inv[p] EXCEPT !.pc = "list_plans", !.held = Draft(comparison)])
            /\ UNCHANGED <<files, mishaps>>

Synthesize(p) ==
    /\ inv[p].pc = "write_synthesis"
    /\ LET draft == inv[p].held
       IN synthesis' = [plans |-> draft.plans, comparison |-> draft.comparison,
            status |-> IF draft.comparison.contradictions = 0 THEN "ready" ELSE "needs_review"]
    /\ Becomes(p, Ended(inv[p], "ok"))
    /\ UNCHANGED <<results, plans, comparison, mishaps>>

-----------------------------------------------------------------------------
(* Programs that only read the directory.                                  *)

Looks(p, action, ok) ==
    /\ inv[p].pc = "idle"
    /\ Becomes(p, Ended([inv[p] EXCEPT !.action = action], IF ok THEN "ok" ELSE "failed"))
    /\ UNCHANGED <<files, mishaps>>

\* v18-replay-eval.py on a result or, with --eval-only, on a plan that is there;
\* on a whole run directory it asks run-state-machine.py instead.
Replay(p) ==
    \E s \in Slots, forced \in BOOLEAN :
      \/ /\ results[s] # NoFile
         /\ Looks(p, "replay", results[s] # Torn /\ ReplayOk(results[s], forced))
      \/ /\ plans[s] # NoFile
         /\ Looks(p, "replay", plans[s] # Torn /\ EvaluationFailures(plans[s].ir) = {})

\* manage-run-cache.py --action check parses every result until one is a success
\* of the stage asked for; no result has a stage, so that it is always a miss.
CheckCache(p) == Looks(p, "check_cache", \A s \in Slots : results[s] # Torn)

-----------------------------------------------------------------------------
(* What the processes and the operator do to each other.                   *)

\* write_text truncates before it writes: a reader that comes in between sees
\* no JSON.
ReadsHalf(p) ==
    /\ \E q \in Procs \ {p} :
         \/ /\ \/ inv[p].pc = "normalize" /\ inv[q].pc = "store"
               \/ inv[p].pc = "read_plans" /\ inv[q].pc = "normalize"
            /\ Head(inv[p].todo) = Head(inv[q].todo)
         \/ inv[p].pc = "read_comparison" /\ inv[q].pc = "write_comparison"
    /\ Fails(p)

\* A kill, or a full disk, at a write may leave the file cut short.
Kill(p) ==
    /\ Active(p)
    /\ Cardinality({q \in Procs : inv[q].outcome = "killed"}) < MaxKills
    /\ LET pc == inv[p].pc IN
         \E half \in BOOLEAN :
           /\ results' = IF half /\ pc = "store"
                         THEN [results EXCEPT ![Head(inv[p].todo)] = Torn] ELSE results
           /\ plans' = IF half /\ pc = "normalize"
                       THEN [plans EXCEPT ![Head(inv[p].todo)] = Torn] ELSE plans
           /\ comparison' = IF half /\ pc = "write_comparison" THEN Torn ELSE comparison
           /\ synthesis' = IF half /\ pc = "write_synthesis" THEN Torn ELSE synthesis
           /\ mishaps' = IF pc \in {"call", "store", "normalize"}
                         THEN mishaps \cup {"cut_short"} ELSE mishaps
    /\ Becomes(p, Ended(inv[p], "killed"))

\* The browser routes have no adapter: their results are files somebody saves.
Deposit(s) ==
    /\ "deposit" \notin mishaps
    /\ \E text \in BOOLEAN :
         results' = [results EXCEPT ![s] = [by |-> Operator, text |-> text]]
    /\ mishaps' = mishaps \cup {"deposit"}
    /\ UNCHANGED <<plans, comparison, synthesis, inv>>

Step(p) == \/ Call(p) \/ Store(p) \/ Normalize(p) \/ ListPlans(p) \/ ReadPlan(p)
           \/ WriteComparison(p) \/ ReadComparison(p) \/ Synthesize(p)

AllEnded == \A p \in Procs : inv[p].pc = "ended"
Finished == AllEnded /\ UNCHANGED vars

Next == \/ /\ \/ \E p \in Procs : Begin(p) \/ Step(p) \/ Replay(p) \/ CheckCache(p) \/ ReadsHalf(p) \/ Kill(p)
              \/ \E s \in Deposits : Deposit(s)
           /\ UNCHANGED route
        \/ Finished

Spec == Init /\ [][Next]_vars

-----------------------------------------------------------------------------
(* Properties.                                                             *)

\* What an invocation holds where it is.
Consistent(me) ==
    /\ me.pc \in {"call", "store", "normalize", "read_plans"} => me.todo # <<>>
    /\ me.pc = "store" => me.held \in Results
    /\ me.pc \in {"list_plans", "read_plans", "write_comparison", "write_synthesis"} =>
         me.held \in Drafts
    /\ me.pc = "list_plans" => me.held.plans = NoPlans
    /\ me.pc = "write_synthesis" => me.held.comparison # Nothing
    /\ me.pc \in {"idle", "read_comparison"} => me.held = Nothing
    /\ me.pc = "ended" => me.outcome # Nothing

\* The type invariant of the run directory and of the invocations in it.
TypeOK ==
    /\ route \in Routes
    /\ results \in [Slots -> Results \cup {NoFile, Torn}]
    /\ plans \in [Slots -> Plans \cup {NoFile, Torn}]
    /\ comparison \in Comparisons \cup {NoFile, Torn}
    /\ synthesis \in Syntheses \cup {NoFile, Torn}
    /\ mishaps \subseteq Mishaps
    /\ inv \in [Procs -> Invocations]
    /\ \A p \in Procs : Consistent(inv[p])

\* A synthesis has a plan of every slot of the route, unless a fan-out failed,
\* a stage that writes file after file was cut short, invocations overlapped
\* or a result was saved by hand before the fan-out: the stages look only for
\* one file, so what one of these left is taken for the whole (lines 353-374).
CompleteUnlessMishap ==
    Whole(synthesis) /\ mishaps = {} =>
        \A s \in Elements(FanoutSlots(route)) : Whole(synthesis.plans[s])

\* What the synthesis says about its plans is true of them: while invocations
\* do not overlap, a plan that the comparison has not seen, and so a
\* contradiction that "ready" does not know of, comes from a later explicit
\* normalize and from nothing else (lines 299-324, 366); and what the comparison
\* has passed, the evaluation of v18-replay-eval.py passes too.
SynthesisGrounded ==
    Whole(synthesis) /\ "overlap" \notin mishaps =>
        \A s \in Slots :
            \/ synthesis.plans[s] = synthesis.comparison.plans[s]
               /\ (synthesis.status = "ready" /\ synthesis.plans[s] # NoFile
                      => /\ ~Contradicts(synthesis.plans[s].ir)
                         /\ EvaluationFailures(synthesis.plans[s].ir) = {})
            \/ Whole(synthesis.plans[s]) /\ inv[synthesis.plans[s].by].action = "normalize"

\* A provider that has answered is not called again by a stage that runs the
\* fan-out as its predecessor, but by an explicit fanout; only a result that
\* arrived while the two were under way is paid for twice (spec.md: retry must
\* not duplicate expensive provider calls).
AnsweredOnce ==
    [][\A p \in Procs :
          /\ inv[p].pc = "call" /\ inv'[p].pc = "store"
          /\ Whole(results[Head(inv[p].todo)])
          => inv[p].action = "fanout" \/ mishaps \cap {"overlap", "deposit"} # {}]_vars

\* Every file of a run directory is whole whenever somebody looks
\* (artifact-index-atomic-writes.md:13-16: every canonical artifact is written
\* while the run lock is held, to a temporary file that is validated and then
\* renamed into place).  write_json truncates the file itself (lines 53-55).
WrittenWhole ==
    /\ \A s \in Slots : results[s] # Torn /\ plans[s] # Torn
    /\ comparison # Torn /\ synthesis # Torn
=============================================================================
