------------------------------- MODULE PlanIR -------------------------------
(***************************************************************************)
(* The conversion of a provider result into Plan IR (normalize-plan-ir.py) *)
(* and the quality evaluation of a plan (v18-replay-eval.py), as           *)
(* operators.  A provider result is a record with the fields               *)
(*   text  - whether it carries result_text_sha256.                        *)
(* A Plan IR artifact keeps its stage, the hashes of its                   *)
(* provider_result_refs (a set of booleans: a reference with or without a  *)
(* hash) and whether it has criteria, risks and items ("enriched").        *)
(***************************************************************************)

\* The values of --stage.
IRStages == {"minimal", "full", "export"}

Artifacts == [stage : {"minimal_plan_ir", "full_plan_ir", "bead_export_ready"},
              refs : SUBSET BOOLEAN, enriched : BOOLEAN]

\* A result without a hash is referred to by no reference at all.
Minimal(r) == [stage |-> "minimal_plan_ir",
               refs |-> IF r.text THEN {TRUE} ELSE {}, enriched |-> FALSE]

\* The enrichment is a mock: every list stays empty and the conversion warns.
Full(ir) == [ir EXCEPT !.stage = "full_plan_ir"]

ExportReady(ir) == [ir EXCEPT !.stage = "bead_export_ready"]

\* Under APR_V18_FORCE_FIXTURES=1 the plan is the fixture's, with one
\* reference to the result, whose hash may be null.
FixtureArtifact(r, stage) ==
    [stage |-> IF stage = "full" THEN "full_plan_ir" ELSE "bead_export_ready",
     refs |-> {r.text}, enriched |-> TRUE]

Normalized(r, stage, forced) ==
    IF stage = "minimal" THEN Minimal(r)
    ELSE IF forced THEN FixtureArtifact(r, stage)
    ELSE IF stage = "full" THEN Full(Minimal(r)) ELSE ExportReady(Full(Minimal(r)))

\* A mocked enrichment is an error, although the artifact is still printed.
NormalizeSucceeds(stage, forced) == stage = "minimal" \/ forced

\* The comparison counts an artifact whose references are absent or unhashed.
Contradicts(ir) == ir.refs = {} \/ FALSE \in ir.refs

\* What the evaluation finds missing: it asks that there are references, not
\* that they carry a hash.
EvaluationFailures(ir) ==
      (IF ir.enriched THEN {} ELSE {"acceptance_criteria", "risks"})
    \cup (IF ir.refs = {} THEN {"traceability"} ELSE {})

\* v18-replay-eval.py on a provider result: normalise for export, then evaluate.
ReplayOk(r, forced) ==
    NormalizeSucceeds("export", forced) /\ EvaluationFailures(Normalized(r, "export", forced)) = {}
=============================================================================
