----------------------------- MODULE BeadExport -----------------------------
(***************************************************************************)
(* From a plan to beads.  export-beads.py creates one bead per plan item   *)
(* with br, one after the other; plan-export-beads.py turns the plan into  *)
(* a list of proposed operations, which is saved, perhaps edited, and      *)
(* validated again before somebody applies it.  The plan may change in     *)
(* between.  br, its tracker and the editors are external.                 *)
(*                                                                         *)
(* A plan item keeps its id, the ids it depends on, the ids of its         *)
(* criteria and of its tests, for which the plan may have records, and     *)
(* whether it names sources, results and rollbacks (traced).               *)
(***************************************************************************)
EXTENDS Naturals, Sequences, FiniteSets, SequencesExt

CONSTANTS Items,      \* ids of plan items
          Plans,      \* the plans there may be: [stage, items, criteria, tests]
          Slug,       \* slugify: what becomes of each id; two may become one
          Exporters,  \* invocations of export-beads.py; each runs once
          NoFile, Nothing,
          MaxEdits    \* changes of the plan, and of the saved export

VARIABLES plan,    \* the plan artifact
          export,  \* a saved bead_export.v1: [of, stage, ops, counted]
          verdict, \* what validating it said last
          edits,   \* changes so far
          touched, \* how the saved export was edited since it was made (observation)
          beads,   \* how many beads the tracker has for an item
          exp,     \* what each invocation of export-beads does
          silent   \* beads made by an invocation that does not say so (observation)

vars == <<plan, export, verdict, edits, touched, beads, exp, silent>>

PlanItems(p) == Range(p.items)

\* A plan lists its items, and an item those it depends on: whether these are
\* in the plan, and whether it lists an id twice, nobody looks.
ASSUME PlansAreOfItems ==
    \A p \in Plans :
        /\ p.items \in Seq(PlanItems(p))
        /\ \A item \in PlanItems(p) : item.id \in Items /\ item.deps \in Seq(Items)
ASSUME EditsAreBounded == MaxEdits \in Nat
ASSUME IdsHaveSlugs == DOMAIN Slug = Items

Ids(p) == {item.id : item \in PlanItems(p)}

-----------------------------------------------------------------------------
(* plan-export-beads.py.                                                   *)

\* collect_by_id: an id without a record is dropped without a word.
LookedUp(ids, records) == ids \cap records

\* The bead has the records it found, the trace the ids as the item has them.
Create(item, p) == [op |-> "br_create", item |-> item.id, name |-> Slug[item.id],
                    criteria |-> LookedUp(item.criteria, p.criteria),
                    tests |-> LookedUp(item.tests, p.tests),
                    traced |-> item.traced /\ item.tests # {}]
\* A dependency names the two items, and to br the slugs of their ids.
DepAdd(item, on) == [op |-> "br_dep_add", item |-> item.id, on |-> on,
                     bead |-> Slug[item.id], needs |-> Slug[on]]
Cycles == [op |-> "br_dep_cycles"]

\* The operations of an item: its bead, then its dependencies, whether or not
\* the plan has the item depended on, and wherever it lists it.
ItemOpsDepsFirst(item, p) ==
    [i \in DOMAIN item.deps |-> DepAdd(item, item.deps[i])] \o <<Create(item, p)>>
ItemOps(item, p) ==
    <<Create(item, p)>> \o [i \in DOMAIN item.deps |-> DepAdd(item, item.deps[i])]

Operations(p) ==
    FlattenSeq([i \in DOMAIN p.items |-> ItemOps(p.items[i], p)]) \o <<Cycles>>

Creates(ops) == SelectSeq(ops, LAMBDA o : o.op = "br_create")

\* The summary counts all operations and the created beads.
Counts(ops) == [all |-> Len(ops), created |-> Len(Creates(ops))]

ExportFromPlan(p) ==
    [of |-> p, stage |-> p.stage, ops |-> Operations(p), counted |-> Counts(Operations(p))]

\* validate_export: the errors, and the summary's drift, which only warns.
ExportErrors(e) ==
    LET all == Range(e.ops)
        created == {o \in all : o.op = "br_create"}
    IN {code \in {"stage", "create_ops", "cycle_check", "bead_body", "trace"} :
          CASE code = "stage" -> e.stage # "bead_export_ready"
            [] code = "create_ops" -> created = {}
            [] code = "cycle_check" -> Cycles \notin all
            [] code = "bead_body" -> \E o \in created : o.criteria = {} \/ o.tests = {}
            [] code = "trace" -> \E o \in created : ~o.traced}

ExportDriftsOnCreates(e) == Counts(e.ops).created # e.counted.created
ExportDrifts(e) == Counts(e.ops) # e.counted

Validation(e) == [ok |-> ExportErrors(e) = {}, warned |-> ExportDrifts(e)]

\* Without --validate the export is made from the plan; it is printed, and
\* validated, whatever the validation finds.
Generate ==
    /\ export' = ExportFromPlan(plan)
    /\ verdict' = Validation(export')
    /\ touched' = {}
    /\ UNCHANGED <<plan, edits, beads, exp, silent>>

\* With --validate the saved export is looked at alone: neither the plan it is
\* about nor the hash it has of it is read again.
ValidateSaved ==
    /\ export # NoFile
    /\ verdict' = Validation(export)
    /\ UNCHANGED <<plan, export, edits, touched, beads, exp, silent>>

\* Somebody edits the saved export: strikes an operation, puts one in or in the
\* place of another, or makes the summary fit again.  What is put in is an
\* operation of some plan.
AnyOperation == UNION {Range(Operations(p)) : p \in Plans}

Edited(how, ops, counted) ==
    /\ edits < MaxEdits
    /\ edits' = edits + 1
    /\ export' = [of |-> export.of, stage |-> export.stage, ops |-> ops, counted |-> counted]
    /\ touched' = touched \cup {how}
    /\ verdict' = Nothing
    /\ UNCHANGED <<plan, beads, exp, silent>>

Strike ==
    /\ export # NoFile
    /\ \E i \in DOMAIN export.ops : Edited("struck", RemoveAt(export.ops, i), export.counted)
PutIn ==
    /\ export # NoFile
    /\ \E i \in 1..(Len(export.ops) + 1), o \in AnyOperation :
         Edited("put in", InsertAt(export.ops, i, o), export.counted)
Change ==
    /\ export # NoFile
    /\ \E i \in DOMAIN export.ops, o \in AnyOperation :
         Edited("changed", [export.ops EXCEPT ![i] = o], export.counted)
Recount ==
    /\ export # NoFile
    /\ Edited("recounted", export.ops, Counts(export.ops))

EditPlan ==
    /\ edits < MaxEdits
    /\ edits' = edits + 1
    /\ plan' \in Plans \ {plan}
    /\ UNCHANGED <<export, verdict, touched, beads, exp, silent>>

-----------------------------------------------------------------------------
(* export-beads.py.                                                        *)

Said(item, status) == [item |-> item.id, status |-> status]

\* The plan is read once; a stage that is not bead_export_ready only warns.
BeginExport(p) ==
    /\ exp[p].pc = "idle"
    /\ \E dry \in BOOLEAN :
         exp' = [exp EXCEPT ![p] = [@ EXCEPT !.pc = "items", !.dry = dry, !.read = plan.items,
                                             !.todo = plan.items]]
    /\ UNCHANGED <<plan, export, verdict, edits, touched, beads, silent>>

Says(p, status) ==
    exp' = [exp EXCEPT ![p].todo = Tail(@), ![p].said = Append(@, Said(Head(exp[p].todo), status))]

Proposes(p) ==
    /\ exp[p].dry
    /\ Says(p, "proposed")
    /\ UNCHANGED <<beads, silent>>

CreatesBeadRetrying(p) ==
    /\ ~exp[p].dry
    /\ beads' = [beads EXCEPT ![Head(exp[p].todo).id] = @ + 2]
    /\ Says(p, "created")
    /\ UNCHANGED silent

\* br creates the bead and prints it as JSON.
CreatesBead(p) ==
    /\ ~exp[p].dry
    /\ beads' = [beads EXCEPT ![Head(exp[p].todo).id] = @ + 1]
    /\ Says(p, "created")
    /\ UNCHANGED silent

\* br creates the bead, but exits with an error after that, or prints what does
\* not parse: the item counts as failed.
CreatesSilently(p) ==
    /\ ~exp[p].dry
    /\ beads' = [beads EXCEPT ![Head(exp[p].todo).id] = @ + 1]
    /\ silent' = [silent EXCEPT ![Head(exp[p].todo).id] = @ + 1]
    /\ Says(p, "failed")

\* br is not there or exits with an error and no bead is made; the next item is
\* tried all the same.
FailsToCreate(p) ==
    /\ ~exp[p].dry
    /\ Says(p, "failed")
    /\ UNCHANGED <<beads, silent>>

ExportItem(p) ==
    /\ exp[p].pc = "items" /\ exp[p].todo # <<>>
    /\ Proposes(p) \/ CreatesBead(p) \/ CreatesSilently(p) \/ FailsToCreate(p)
    /\ UNCHANGED <<plan, export, verdict, edits, touched>>

EndsOkIfAny(p) == \E i \in DOMAIN exp[p].said : exp[p].said[i].status # "failed"
EndsOk(p) == \A i \in DOMAIN exp[p].said : exp[p].said[i].status # "failed"

EndExport(p) ==
    /\ exp[p].pc = "items" /\ exp[p].todo = <<>>
    /\ exp' = [exp EXCEPT ![p].pc = IF EndsOk(p) THEN "ok" ELSE "failed"]
    /\ UNCHANGED <<plan, export, verdict, edits, touched, beads, silent>>

\* A kill while br works: the bead may be there, and nothing is printed at all.
KillExport(p) ==
    /\ exp[p].pc = "items" /\ exp[p].todo # <<>>
    /\ exp' = [exp EXCEPT ![p].pc = "killed"]
    /\ \E made \in BOOLEAN :
         LET id == Head(exp[p].todo).id IN
         /\ made => ~exp[p].dry
         /\ beads' = IF made THEN [beads EXCEPT ![id] = @ + 1] ELSE beads
         /\ silent' = IF made THEN [silent EXCEPT ![id] = @ + 1] ELSE silent
    /\ UNCHANGED <<plan, export, verdict, edits, touched>>

Init ==
    /\ plan \in Plans
    /\ export = NoFile
    /\ verdict = Nothing
    /\ edits = 0
    /\ touched = {}
    /\ beads = [i \in Items |-> 0]
    /\ exp = [p \in Exporters |-> [pc |-> "idle", dry |-> FALSE, read |-> <<>>, todo |-> <<>>, said |-> <<>>]]
    /\ silent = [i \in Items |-> 0]

Next ==
    \/ Generate \/ ValidateSaved \/ EditPlan
    \/ Strike \/ PutIn \/ Change \/ Recount
    \/ \E p \in Exporters : BeginExport(p) \/ ExportItem(p) \/ EndExport(p) \/ KillExport(p)

Spec == Init /\ [][Next]_vars

-----------------------------------------------------------------------------
(* Properties.                                                             *)

\* The lines in which invocations say they have created a bead of an item.
Claims(i) ==
    UNION {{p} \X {k \in DOMAIN exp[p].said : exp[p].said[k] = Said([id |-> i], "created")} :
           p \in Exporters}

\* Every bead is accounted for: the tracker has one for each time that an
\* invocation says so and one for each whose output did not parse or whose maker
\* was killed over it.  So a rerun after a failure, which the envelope calls
\* retry_safe, makes second beads of exactly the items that had not failed or
\* failed silently.
BeadsAccounted == \A i \in Items : beads[i] = Cardinality(Claims(i)) + silent[i]

\* An export that ended well and was no dry run has made a bead of every item
\* of the plan it read, in its order, although the plan may have changed under
\* it; a dry run makes none.
OkMeansAll ==
    \A p \in Exporters :
      /\ exp[p].pc = "ok" /\ ~exp[p].dry =>
           \A k \in DOMAIN exp[p].read : <<p, k>> \in Claims(exp[p].read[k].id)
      /\ exp[p].dry => \A i \in Items : \A c \in Claims(i) : c[1] # p

\* The saved export was only struck from, or only added to, since it was made.
OneWay == touched \subseteq {"struck"} \/ touched \subseteq {"put in"}

\* A saved export that validates without a warning still is what it was made as,
\* no bead, dependency or cycle check struck from it and none put in; against
\* edits that go both ways the counts are no help.  One that validates at all
\* has a cycle check, a plan that was ready, and in each bead that is of its
\* plan a criterion and a test of the plan, and all that its item names if the
\* plan has a record of them all (lines 248-307).
QuietMeansWhole ==
    export # NoFile /\ verdict # Nothing /\ verdict.ok =>
        /\ ~verdict.warned /\ OneWay => export.ops = Operations(export.of)
        /\ Cycles \in Range(export.ops) /\ export.of.stage = "bead_export_ready"
        /\ \A o \in Range(export.ops) \cap Range(Operations(export.of)) :
             o.op = "br_create" =>
               \E item \in PlanItems(export.of) :
                 /\ item.id = o.item /\ item.traced
                 /\ o.criteria # {} /\ o.criteria \subseteq item.criteria
                 /\ o.tests # {} /\ o.tests \subseteq item.tests
                 /\ item.criteria \subseteq export.of.criteria => o.criteria = item.criteria

\* Every item comes after those it depends on, and those are in the plan.
Ordered(p) ==
    \A i \in DOMAIN p.items : \A k \in DOMAIN p.items[i].deps :
        \E j \in 1..(i - 1) : p.items[j].id = p.items[i].deps[k]

\* The operations of an export that validates without a warning can be applied
\* one after the other: each dependency comes after the beads of both its items,
\* under the names it has for them, and the check for cycles after them all.
\* This is owed to the order of the plan: an export of a plan that is not in
\* order, or depends on an item it does not have, validates as well.
AppliesInOrder ==
    export # NoFile /\ verdict # Nothing /\ Ordered(export.of) =>
        \A i \in DOMAIN export.ops :
          verdict.ok /\ ~verdict.warned /\ OneWay =>
          LET o == export.ops[i] IN
            /\ o.op = "br_dep_add" =>
                 \A d \in {<<o.item, o.bead>>, <<o.on, o.needs>>} :
                   \E j \in 1..(i - 1) : LET c == export.ops[j] IN
                     c.op = "br_create" /\ <<c.item, c.name>> = d
            /\ o = Cycles => i = Len(export.ops)

\* What docs/plan-export-beads.md:24 says of an export that validates: an item
\* that it has two beads of is found.  Nothing looks for it.
NoTwins ==
    export # NoFile /\ verdict # Nothing /\ verdict.ok =>
        \A i, j \in DOMAIN export.ops :
          /\ i # j
          /\ export.ops[i].op = "br_create" /\ export.ops[j].op = "br_create"
          => export.ops[i].item # export.ops[j].item

\* What ROBOTS.md:128 says of an envelope with retry_safe, which that of a failed
\* export has: to retry makes no bead that the failed one has said it created.
RetryMakesNoTwins ==
    \A p, q \in Exporters, i \in Items :
        p # q /\ exp[p].pc = "failed" =>
          \A c, d \in Claims(i) : ~(c[1] = p /\ d[1] = q)
=============================================================================
