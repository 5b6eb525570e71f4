---------------------------- MODULE MCBeadExport ----------------------------
EXTENDS BeadExport, TLC

CONSTANTS a, b, d, c1, c2, t, e1, e2

Item(id, deps, criteria, traced) ==
    [id |-> id, deps |-> deps, criteria |-> criteria, tests |-> {t}, traced |-> traced]
Plan(stage, items) == [stage |-> stage, items |-> items, criteria |-> {c1}, tests |-> {t}]

\* The ids a and d differ only in what slugify drops.
Slugs == [i \in {a, b, d} |-> IF i = b THEN "b" ELSE "a"]

\* In order, with a criterion that has no record; with two ids of one slug; out
\* of order, with a bead that has no criterion at all; with a dangling
\* dependency; with an id twice; without trace and not ready; and empty.
SomePlans ==
    {Plan("bead_export_ready", <<Item(a, <<>>, {c1}, TRUE), Item(b, <<a>>, {c1, c2}, TRUE)>>),
     Plan("bead_export_ready", <<Item(a, <<>>, {c1}, TRUE), Item(d, <<a>>, {c1}, TRUE)>>),
     Plan("bead_export_ready", <<Item(b, <<a>>, {c1}, TRUE), Item(a, <<>>, {c2}, TRUE)>>),
     Plan("bead_export_ready", <<Item(b, <<a>>, {c1}, TRUE)>>),
     Plan("bead_export_ready", <<Item(a, <<>>, {c1}, TRUE), Item(a, <<>>, {c1}, TRUE)>>),
     Plan("full_plan_ir", <<Item(a, <<>>, {c1}, FALSE)>>),
     Plan("bead_export_ready", <<>>)}

Symmetry == Permutations(Exporters)

\* The saved export and the tracker have nothing but the plan in common: beside
\* exports there is one edit at most, and up to MaxEdits while nobody exports.
EditsOrExports ==
    Init /\ [][Next /\ (edits <= 1 \/ \A p \in Exporters : exp[p].pc = "idle")']_vars

\* One invocation at a time, each begun after the one before has ended.
OneAtATime ==
    Init /\ [][/\ Next
               /\ Cardinality({p \in Exporters : exp[p].pc = "items"}') <= 1]_vars
=============================================================================
