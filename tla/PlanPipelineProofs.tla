------------------------- MODULE PlanPipelineProofs -------------------------
(***************************************************************************)
(* Proofs about PlanPipeline, for every number of invocations, routes and  *)
(* slots.                                                                  *)
(***************************************************************************)
EXTENDS PlanPipeline, FiniteSetTheorems, TLAPS

NoRepeat(seq) == \A i, j \in 1..Len(seq) : seq[i] = seq[j] => i = j

\* What the route asks for.
Wanted == Elements(FanoutSlots(route))
Calling(p) == inv[p].pc \in {"call", "store"}
Normalizing(p) == inv[p].pc = "normalize"
Seen(c) == \A s \in Slots : c.plans[s] # NoFile => c.plans[s].ir.enriched
                               /\ (c.contradictions = 0 => ~Contradicts(c.plans[s].ir))

\* No file disappears, and what an invocation has begun on was there.
Present ==
    /\ comparison # NoFile => Listed(plans) # {}
    /\ \A p \in Procs :
         /\ Normalizing(p) => Elements(inv[p].todo) \subseteq Listed(results)
         /\ inv[p].pc = "read_comparison" => comparison # NoFile

\* Every plan is from a converter that succeeded, in an invocation that has
\* begun, and every comparison has counted the plans it holds.
Honest ==
    /\ \A s \in Slots : Whole(plans[s]) => plans[s].ir.enriched /\ inv[plans[s].by].pc # "idle"
    /\ Whole(comparison) => Seen(comparison)
    /\ Whole(synthesis) => \A s \in Slots : synthesis.plans[s] # NoFile =>
                                inv[synthesis.plans[s].by].pc # "idle"

\* Until invocations overlap there is at most one at work.
Alone == "overlap" \notin mishaps => \A p, q \in Procs : Active(p) /\ Active(q) => p = q

\* Until then a comparison is of the plans that are there, but for those that
\* a later explicit normalize has written.
Current ==
    "overlap" \notin mishaps =>
    /\ Whole(comparison) => \A s \in Slots :
         \/ plans[s] = comparison.plans[s]
         \/ plans[s] = Torn
         \/ Whole(plans[s]) /\ inv[plans[s].by].action = "normalize"
    /\ \A p \in Procs :
         /\ Normalizing(p) => inv[p].action # "fanout"
         /\ Calling(p) \/ Normalizing(p) =>
              inv[p].action \in {"fanout", "normalize"} \/ ~Whole(comparison)

\* Until something goes wrong a directory holds nothing or all the route asks
\* for, except where an invocation is at work on it.
Filled ==
    mishaps = {} =>
    /\ \A s \in Slots : results[s] # Torn /\ plans[s] # Torn
    /\ (\A p \in Procs : ~Calling(p)) => Listed(results) = {} \/ Wanted \subseteq Listed(results)
    /\ (\A p \in Procs : ~Normalizing(p)) => Listed(plans) = {} \/ Wanted \subseteq Listed(plans)
    /\ \A p \in Procs :
         /\ Calling(p) => Wanted \subseteq Elements(inv[p].todo) \cup Listed(results)
         /\ Normalizing(p) =>
              /\ Wanted \subseteq Elements(inv[p].todo) \cup Listed(plans)
              /\ inv[p].forced \/ Listed(plans) = {} \/ Wanted \subseteq Listed(plans)

\* A fan-out asks each slot once, and one that was run as a predecessor found
\* no result, so that those still to be asked have none.
Unasked ==
    \A p \in Procs : Calling(p) =>
        /\ NoRepeat(inv[p].todo)
        /\ \/ inv[p].action = "fanout"
           \/ mishaps \cap {"overlap", "deposit"} # {}
           \/ Elements(inv[p].todo) \cap Listed(results) = {}

\* What a comparison or a synthesis has read is honest, and until invocations
\* overlap it is what the files still hold.
Drafting(p) == inv[p].pc \in {"list_plans", "read_plans", "write_comparison", "write_synthesis"}
DraftInv(p) ==
    /\ inv[p].pc # "list_plans" => Listed(plans) # {}
    /\ inv[p].held.comparison # Nothing => comparison # NoFile /\ Seen(inv[p].held.comparison)
    /\ \A s \in Slots : inv[p].held.plans[s] # NoFile =>
         /\ inv[p].held.plans[s].ir.enriched
         /\ inv[inv[p].held.plans[s].by].pc # "idle"
    /\ "overlap" \notin mishaps =>
         /\ inv[p].held.comparison # Nothing => inv[p].held.comparison = comparison
         /\ inv[p].pc = "read_plans" =>
              \A s \in Slots : inv[p].held.plans[s] = plans[s] \/ s \in Elements(inv[p].todo)
         /\ inv[p].pc \in {"write_comparison", "write_synthesis"} => inv[p].held.plans = plans
Drafted == \A p \in Procs : Drafting(p) => DraftInv(p)

PipelineInv == Present /\ Honest /\ Alone /\ Current /\ Filled /\ Unasked /\ Drafted
                  /\ SynthesisGrounded /\ CompleteUnlessMishap
-----------------------------------------------------------------------------
(* Sequences. *)

\* The elements of a sequence that is not empty are its head and those of its tail.
LEMMA HeadAndTail ==
    ASSUME NEW S, NEW seq \in Seq(S), seq # <<>>
    PROVE  /\ Head(seq) \in S /\ Tail(seq) \in Seq(S)
           /\ Elements(seq) = {Head(seq)} \cup Elements(Tail(seq))
           /\ Elements(seq) \subseteq S
           /\ Tail(seq) = <<>> => Elements(Tail(seq)) = {}
<1>1. /\ Len(seq) \in Nat \ {0} /\ seq \in [1..Len(seq) -> S] /\ Head(seq) = seq[1]
      /\ Tail(seq) \in Seq(S) /\ Len(Tail(seq)) = Len(seq) - 1
      /\ \A i \in 1..(Len(seq) - 1) : Tail(seq)[i] = seq[i + 1]
  OBVIOUS
<1>2. Elements(seq) \subseteq {Head(seq)} \cup Elements(Tail(seq))
  <2> SUFFICES ASSUME NEW i \in 1..Len(seq), i # 1 PROVE seq[i] \in Elements(Tail(seq))
    BY <1>1 DEF Elements
  <2>1. i - 1 \in 1..(Len(seq) - 1) /\ Tail(seq)[i - 1] = seq[i]
    BY <1>1
  <2> QED BY <1>1, <2>1 DEF Elements
<1>3. {Head(seq)} \cup Elements(Tail(seq)) \subseteq Elements(seq)
  <2>1. \A i \in 1..Len(Tail(seq)) : i + 1 \in 1..Len(seq) /\ Tail(seq)[i] = seq[i + 1]
    BY <1>1
  <2> QED BY <1>1, <2>1 DEF Elements
<1>4. Elements(seq) \subseteq S
  BY <1>1 DEF Elements
<1>5. Tail(seq) = <<>> => Elements(Tail(seq)) = {}
  BY <1>1 DEF Elements
<1> QED BY <1>1, <1>2, <1>3, <1>4, <1>5

\* In a sequence without repetition the head does not come again.
LEMMA HeadOnce ==
    ASSUME NEW S, NEW seq \in Seq(S), seq # <<>>, NoRepeat(seq)
    PROVE  NoRepeat(Tail(seq)) /\ Head(seq) \notin Elements(Tail(seq))
<1>1. /\ Len(seq) \in Nat \ {0} /\ Head(seq) = seq[1] /\ Len(Tail(seq)) = Len(seq) - 1
      /\ \A i \in 1..(Len(seq) - 1) : Tail(seq)[i] = seq[i + 1]
  OBVIOUS
<1>2. NoRepeat(Tail(seq))
  BY <1>1 DEF NoRepeat
<1>3. \A i \in 1..(Len(seq) - 1) : seq[i + 1] # seq[1]
  BY <1>1 DEF NoRepeat
<1> QED BY <1>1, <1>2, <1>3 DEF Elements

\* Each number up to the size of a finite set of indices is the rank of one of
\* them, and of one only.
LEMMA Ranks ==
    ASSUME NEW n \in Nat, NEW I \in SUBSET (1..n)
    PROVE  /\ Cardinality(I) \in Nat
           /\ \A i \in I : Cardinality({j \in I : j <= i}) \in 1..Cardinality(I)
           /\ \A i, k \in I : Cardinality({j \in I : j <= i}) = Cardinality({j \in I : j <= k}) => i = k
           /\ \A r \in 1..Cardinality(I) : \E i \in I : Cardinality({j \in I : j <= i}) = r
<1> DEFINE upto(i) == {j \in I : j <= i}
<1>1. IsFiniteSet(I) /\ Cardinality(I) \in Nat
  <2>1. IsFiniteSet(1..n)
    BY FS_Interval
  <2> QED BY <2>1, FS_Subset, FS_CardinalityType
<1>2. \A i \in I : IsFiniteSet(upto(i)) /\ Cardinality(upto(i)) \in 1..Cardinality(I)
  <2> SUFFICES ASSUME NEW i \in I
               PROVE  IsFiniteSet(upto(i)) /\ Cardinality(upto(i)) \in 1..Cardinality(I)
    OBVIOUS
  <2>1. upto(i) \in SUBSET I /\ i \in upto(i)
    OBVIOUS
  <2>2. /\ IsFiniteSet(upto(i)) /\ Cardinality(upto(i)) <= Cardinality(I)
        /\ Cardinality(upto(i)) \in Nat
    BY <1>1, <2>1, FS_Subset, FS_CardinalityType
  <2>3. Cardinality(upto(i)) # 0
    BY <2>1, <2>2, FS_EmptySet
  <2> QED BY <1>1, <2>2, <2>3
<1>3. ASSUME NEW i \in I, NEW k \in I, i < k PROVE Cardinality(upto(i)) # Cardinality(upto(k))
  <2>1. upto(i) \in SUBSET upto(k) /\ k \in upto(k) /\ k \notin upto(i)
    <3>1. \A j \in I : j \in Int
      OBVIOUS
    <3>2. \A j \in I : j <= i => j <= k
      BY <1>3, <3>1
    <3>3. k <= k /\ ~(k <= i)
      BY <1>3, <3>1
    <3> QED BY <3>2, <3>3
  <2>2. IsFiniteSet(upto(k)) /\ upto(i) # upto(k)
    BY <1>2, <2>1
  <2> HIDE DEF upto
  <2>3. Cardinality(upto(k)) = Cardinality(upto(i)) => upto(k) = upto(i)
    BY <2>1, <2>2, FS_Subset
  <2> QED BY <2>2, <2>3
<1>4. \A i, k \in I : Cardinality(upto(i)) = Cardinality(upto(k)) => i = k
  <2> HIDE DEF upto
  <2> QED BY <1>3
<1> DEFINE rank == [i \in I |-> Cardinality(upto(i))]
<1>5. rank \in Injection(I, 1..Cardinality(I))
  <2> HIDE DEF upto
  <2> QED BY <1>2, <1>4 DEF Injection, IsInjective
<1>6. rank \in Surjection(I, 1..Cardinality(I))
  <2>1. IsFiniteSet(1..Cardinality(I)) /\ Cardinality(1..Cardinality(I)) = Cardinality(I)
    BY <1>1, FS_Interval
  <2> HIDE DEF rank
  <2> QED BY <1>5, <2>1, FS_Injection
<1>7. \A r \in 1..Cardinality(I) : \E i \in I : Cardinality(upto(i)) = r
  <2> HIDE DEF upto
  <2> QED BY <1>6 DEF Surjection
<1> QED BY <1>1, <1>2, <1>4, <1>7

\* The elements that are picked are those at the indices, each once.
LEMMA PickedFacts ==
    ASSUME NEW S, NEW seq \in Seq(S), NEW I \in SUBSET (DOMAIN seq)
    PROVE  /\ Picked(seq, I) \in Seq(S)
           /\ Elements(Picked(seq, I)) = {seq[i] : i \in I}
           /\ I # {} => Picked(seq, I) # <<>>
           /\ (\A i, k \in I : seq[i] = seq[k] => i = k) => NoRepeat(Picked(seq, I))
<1> DEFINE rank(i) == Cardinality({j \in I : j <= i})
           at(r) == CHOOSE i \in I : rank(i) = r
           n == Cardinality(I)
<1>1. /\ Len(seq) \in Nat /\ DOMAIN seq = 1..Len(seq) /\ I \in SUBSET (1..Len(seq))
      /\ \A i \in I : seq[i] \in S
  OBVIOUS
<1>2. /\ n \in Nat /\ \A i \in I : rank(i) \in 1..n
      /\ \A i, k \in I : rank(i) = rank(k) => i = k
      /\ \A r \in 1..n : \E i \in I : rank(i) = r
  BY <1>1, Ranks
<1>3. Picked(seq, I) = [r \in 1..n |-> seq[at(r)]]
  BY DEF Picked
<1> HIDE DEF rank, n
<1>4. \A r \in 1..n : at(r) \in I /\ rank(at(r)) = r
  BY <1>2
<1>5. \A i \in I : at(rank(i)) = i
  BY <1>2, <1>4
<1> HIDE DEF at
<1>6. Picked(seq, I) \in Seq(S) /\ Len(Picked(seq, I)) = n
  BY <1>1, <1>2, <1>3, <1>4
<1>7. Elements(Picked(seq, I)) = {seq[i] : i \in I}
  BY <1>2, <1>3, <1>4, <1>5, <1>6 DEF Elements
<1>8. I # {} => Picked(seq, I) # <<>>
  BY <1>2, <1>6
<1>9. (\A i, k \in I : seq[i] = seq[k] => i = k) => NoRepeat(Picked(seq, I))
  BY <1>3, <1>4, <1>6 DEF NoRepeat
<1> QED BY <1>6, <1>7, <1>8, <1>9
-----------------------------------------------------------------------------
(* Where an invocation goes on. *)

\* There are finitely many slots, and not more than the listing has entries.
LEMMA SlotsFinite ==
    /\ Len(Listing) \in Nat /\ IsFiniteSet(Slots)
    /\ \A T \in SUBSET Slots : IsFiniteSet(T) /\ Cardinality(T) \in 0..Len(Listing)
<1>1. /\ Len(Listing) \in Nat /\ DOMAIN Listing = 1..Len(Listing)
      /\ \A i \in 1..Len(Listing) : Listing[i] \in Slots
  BY SlotsListed
<1> DEFINE f == [i \in 1..Len(Listing) |-> Listing[i]]
<1>2. f \in Surjection(1..Len(Listing), Slots)
  BY <1>1 DEF Surjection, Slots, Elements
<1>3. IsFiniteSet(1..Len(Listing)) /\ Cardinality(1..Len(Listing)) = Len(Listing)
  BY <1>1, FS_Interval
<1>4. IsFiniteSet(Slots) /\ Cardinality(Slots) <= Len(Listing)
  <2> HIDE DEF f
  <2> QED BY <1>2, <1>3, FS_Surjection
<1>5. ASSUME NEW T \in SUBSET Slots
      PROVE  IsFiniteSet(T) /\ Cardinality(T) \in 0..Len(Listing)
  <2>1. /\ IsFiniteSet(T) /\ Cardinality(T) <= Cardinality(Slots) /\ Cardinality(T) \in Nat
        /\ Cardinality(Slots) \in Nat
    BY <1>4, FS_Subset, FS_CardinalityType
  <2> QED BY <1>1, <1>4, <2>1
<1> QED BY <1>1, <1>4, <1>5

\* A fan-out walks slots, each once.
LEMMA FanoutFacts ==
    ASSUME route \in Routes
    PROVE  FanoutSlots(route) \in Seq(Slots) /\ NoRepeat(FanoutSlots(route))
<1> DEFINE all == route.first \o route.required \o route.optional
           firsts == {i \in DOMAIN all : \A j \in 1..(i - 1) : all[j] # all[i]}
<1>1. all \in Seq(Slots)
  BY RoutesListed
<1> HIDE DEF all
<1>2. Len(all) \in Nat /\ DOMAIN all = 1..Len(all)
  BY <1>1
<1>3. \A i, k \in firsts : all[i] = all[k] => i = k
  <2>1. \A i, k \in firsts : i < k => all[i] # all[k]
    BY <1>2
  <2> QED BY <1>2, <2>1
<1>4. firsts \in SUBSET (DOMAIN all)
  OBVIOUS
<1>5. FanoutSlots(route) = Picked(all, firsts)
  BY DEF FanoutSlots, all
<1> HIDE DEF firsts
<1> QED BY <1>1, <1>3, <1>4, <1>5, PickedFacts

\* Normalisation walks the slots that have a file.
LEMMA ListingFacts ==
    ASSUME NEW dir
    PROVE  /\ Walk(dir) \in Seq(Slots) /\ Elements(Walk(dir)) = Listed(dir)
           /\ Listed(dir) # {} => Walk(dir) # <<>>
<1> DEFINE indices == {i \in DOMAIN Listing : dir[Listing[i]] # NoFile}
<1>1. DOMAIN Listing = 1..Len(Listing)
  BY SlotsListed
<1>2. Listed(dir) = {Listing[i] : i \in indices}
  BY <1>1 DEF Listed, Slots, Elements
<1>3. indices \in SUBSET (DOMAIN Listing) /\ (Listed(dir) # {} => indices # {})
  BY <1>2
<1> HIDE DEF indices
<1>4. /\ Picked(Listing, indices) \in Seq(Slots)
      /\ Elements(Picked(Listing, indices)) = {Listing[i] : i \in indices}
      /\ indices # {} => Picked(Listing, indices) # <<>>
  BY <1>3, SlotsListed, PickedFacts
<1>5. Walk(dir) = Picked(Listing, indices)
  BY DEF Walk, indices
<1> QED BY <1>2, <1>3, <1>4, <1>5

\* What has been read of the plans at first and after one more of them.
LEMMA DraftFacts ==
    /\ \A c \in Comparisons \cup {Nothing} :
         Draft(c) \in Drafts /\ Draft(c).plans = NoPlans /\ Draft(c).comparison = c
    /\ \A d \in Drafts, s \in Slots, plan \in Plans \cup {NoFile} :
         /\ WithPlan(d, s, plan) \in Drafts /\ WithPlan(d, s, plan).comparison = d.comparison
         /\ WithPlan(d, s, plan).plans[s] = plan
         /\ \A t \in Slots \ {s} : WithPlan(d, s, plan).plans[t] = d.plans[t]
BY DEF Draft, WithPlan, Drafts, NoPlans, Snapshots

\* The invocation w is me, just entered into the stage.
Entered(w, me, stage, dir) ==
    /\ w \in Invocations /\ Consistent(w)
    /\ w.action = me.action /\ w.forced = me.forced
    /\ \/ /\ stage = "fanout" /\ w.pc = "call" /\ w.todo = FanoutSlots(route)
       \/ stage = "fanout" /\ w.pc = "ended" /\ FanoutSlots(route) = <<>>
       \/ stage = "normalize" /\ w.pc = "normalize" /\ Elements(w.todo) = Listed(dir)
       \/ stage = "compare" /\ w.pc = "list_plans" /\ w.held = Draft(Nothing)
       \/ stage = "synthesize" /\ w.pc = "read_comparison"

\* What entering a stage amounts to; normalisation needs a file to begin with.
LEMMA EnterFacts ==
    ASSUME route \in Routes, NEW me \in Invocations, NEW stage \in Stages, NEW dir,
           stage = "normalize" => Listed(dir) # {}
    PROVE  Entered(Enter(me, stage, dir), me, stage, dir)
<1> DEFINE w == Enter(me, stage, dir)
<1>0. <<>> \in Seq(Slots)
  OBVIOUS
<1>1. CASE stage = "fanout" /\ FanoutSlots(route) = <<>>
  <2>1. w = Ended(me, "failed")
    BY <1>1 DEF Enter
  <2> QED BY <1>0, <1>1, <2>1, NothingIsApart DEF Entered, Ended, Consistent, Invocations, PCs, Outcomes
<1>2. CASE stage = "fanout" /\ FanoutSlots(route) # <<>>
  <2>1. w = [me EXCEPT !.pc = "call", !.todo = FanoutSlots(route), !.held = Nothing]
    BY <1>2 DEF Enter
  <2> QED BY <1>2, <2>1, FanoutFacts DEF Entered, Consistent, Invocations, PCs
<1>3. CASE stage = "normalize"
  <2> DEFINE walk == Walk(dir)
  <2>1. w = [me EXCEPT !.pc = "normalize", !.todo = walk, !.held = Nothing]
    BY <1>3 DEF Enter
  <2>2. walk \in Seq(Slots) /\ Elements(walk) = Listed(dir) /\ walk # <<>>
    BY <1>3, ListingFacts
  <2> HIDE DEF walk
  <2> QED BY <1>3, <2>1, <2>2 DEF Entered, Consistent, Invocations, PCs
<1>4. CASE stage = "compare"
  <2> DEFINE blank == Draft(Nothing)
  <2>1. w = [me EXCEPT !.pc = "list_plans", !.todo = <<>>, !.held = blank]
    BY <1>4 DEF Enter
  <2>2. blank \in Drafts /\ blank.plans = NoPlans
    BY DraftFacts
  <2> HIDE DEF blank
  <2>3. /\ w \in Invocations /\ Consistent(w) /\ w.action = me.action /\ w.forced = me.forced
        /\ w.pc = "list_plans" /\ w.held = blank
    BY <1>0, <2>1, <2>2 DEF Consistent, Invocations, PCs
  <2> QED BY <1>4, <2>3 DEF Entered, blank
<1>5. CASE stage = "synthesize"
  <2>1. w = [me EXCEPT !.pc = "read_comparison", !.todo = <<>>, !.held = Nothing]
    BY <1>5 DEF Enter
  <2> QED BY <1>0, <1>5, <2>1 DEF Entered, Consistent, Invocations, PCs
<1> QED BY <1>1, <1>2, <1>3, <1>4, <1>5 DEF Stages

\* Only p has moved.
Goes(p) ==
    /\ inv' \in [Procs -> Invocations]
    /\ \A q \in Procs : Consistent(inv'[q])
    /\ \A q \in Procs \ {p} : inv'[q] = inv[q]

\* What becomes of an invocation is what the others see of it, and all they see.
LEMMA BecomesFacts ==
    ASSUME TypeOK, NEW p \in Procs, NEW me \in Invocations, Consistent(me), Becomes(p, me)
    PROVE  Goes(p) /\ inv'[p] = me
<1>1. inv' \in [Procs -> Invocations] /\ inv'[p] = me /\ \A q \in Procs \ {p} : inv'[q] = inv[q]
  BY DEF TypeOK, Becomes
<1> QED BY <1>1 DEF Goes, TypeOK

\* An invocation that ends keeps its action.
LEMMA EndedFacts ==
    ASSUME NEW me \in Invocations, NEW outcome \in Outcomes
    PROVE  /\ Ended(me, outcome) \in Invocations /\ Consistent(Ended(me, outcome))
           /\ Ended(me, outcome).pc = "ended" /\ Ended(me, outcome).action = me.action
           /\ Ended(me, outcome).forced = me.forced
<1>1. <<>> \in Seq(Slots)
  OBVIOUS
<1> QED BY <1>1, NothingIsApart DEF Ended, Invocations, Consistent, PCs, Outcomes

\* An error changes no file.
LEMMA FailsFacts ==
    ASSUME TypeOK, NEW p \in Procs, Fails(p), UNCHANGED route
    PROVE  /\ TypeOK' /\ Goes(p) /\ UNCHANGED files
           /\ inv'[p].pc = "ended" /\ inv'[p].action = inv[p].action
           /\ mishaps \subseteq mishaps' /\ (inv[p].pc = "call" => mishaps' # {})
<1>1. /\ Ended(inv[p], "failed") \in Invocations /\ Consistent(Ended(inv[p], "failed"))
      /\ Ended(inv[p], "failed").pc = "ended" /\ Ended(inv[p], "failed").action = inv[p].action
  BY EndedFacts DEF TypeOK, Outcomes
<1>2. Goes(p) /\ inv'[p] = Ended(inv[p], "failed")
  BY <1>1, BecomesFacts DEF Fails
<1>3. /\ UNCHANGED files /\ mishaps \subseteq mishaps' /\ mishaps' \subseteq Mishaps
      /\ (inv[p].pc = "call" => mishaps' # {})
  BY DEF Fails, TypeOK, Mishaps
<1> QED BY <1>1, <1>2, <1>3 DEF Goes, TypeOK, files
-----------------------------------------------------------------------------
(* What every step keeps. *)

\* A step that leaves the synthesis alone, or cuts it short, and sends nobody
\* back keeps what has been shown of it.
LEMMA SynthesisKept ==
    ASSUME TypeOK, Honest, SynthesisGrounded, CompleteUnlessMishap,
           synthesis' \in {synthesis, Torn}, mishaps \subseteq mishaps', UNCHANGED route,
           \A q \in Procs : inv[q].pc # "idle" => inv'[q].pc # "idle" /\ inv'[q].action = inv[q].action
    PROVE  /\ SynthesisGrounded' /\ CompleteUnlessMishap'
           /\ Whole(synthesis)' => \A s \in Slots : synthesis'.plans[s] # NoFile =>
                                       inv'[synthesis'.plans[s].by].pc # "idle"
<1> SUFFICES ASSUME Whole(synthesis)'
             PROVE  /\ SynthesisGrounded' /\ CompleteUnlessMishap'
                    /\ \A s \in Slots : synthesis'.plans[s] # NoFile =>
                                       inv'[synthesis'.plans[s].by].pc # "idle"
  BY DEF SynthesisGrounded, CompleteUnlessMishap
<1>1. synthesis' = synthesis /\ Whole(synthesis) /\ synthesis \in Syntheses
  BY DEF Whole, TypeOK
<1>2. \A s \in Slots : synthesis.plans[s] # NoFile =>
        /\ synthesis.plans[s].by \in Procs /\ inv[synthesis.plans[s].by].pc # "idle"
  BY <1>1 DEF Honest, Syntheses, Snapshots, Plans
<1>3. SynthesisGrounded'
  <2> SUFFICES ASSUME "overlap" \notin mishaps', NEW s \in Slots,
                      ~(Whole(synthesis.plans[s]) /\ inv'[synthesis.plans[s].by].action = "normalize")
               PROVE  /\ synthesis.plans[s] = synthesis.comparison.plans[s]
                      /\ synthesis.status = "ready" /\ synthesis.plans[s] # NoFile
                            => /\ ~Contradicts(synthesis.plans[s].ir)
                               /\ EvaluationFailures(synthesis.plans[s].ir) = {}
    BY <1>1 DEF SynthesisGrounded, Whole
  <2>1. ~(Whole(synthesis.plans[s]) /\ inv[synthesis.plans[s].by].action = "normalize")
    BY <1>2 DEF Whole
  <2> QED BY <1>1, <2>1 DEF SynthesisGrounded
<1>4. CompleteUnlessMishap'
  BY <1>1 DEF CompleteUnlessMishap, Whole
<1> QED BY <1>1, <1>2, <1>3, <1>4

\* No step but a beginning puts a second invocation to work.
LEMMA AloneKept ==
    ASSUME Alone, mishaps \subseteq mishaps', \A q \in Procs : Active(q)' => Active(q)
    PROVE  Alone'
BY DEF Alone

\* A comparison begins with nothing read.
LEMMA BlankDraft ==
    ASSUME NEW p \in Procs, inv'[p].pc = "list_plans", inv'[p].held = Draft(Nothing)
    PROVE  DraftInv(p)'
<1>1. inv'[p].held.comparison = Nothing /\ inv'[p].held.plans = [s \in Slots |-> NoFile]
  BY DraftFacts DEF NoPlans
<1> QED BY <1>1 DEF DraftInv

\* Who reads is not disturbed by an invocation that leaves the plans and the
\* comparison alone, and by another one only where they overlap.
LEMMA DraftedKept ==
    ASSUME TypeOK, Alone, Drafted, NEW p \in Procs, mishaps \subseteq mishaps',
           \A q \in Procs \ {p} : inv'[q] = inv[q],
           \A q \in Procs : inv[q].pc # "idle" => inv'[q].pc # "idle",
           Active(p) \/ (plans' = plans /\ comparison' = comparison),
           Listed(plans) # {} => Listed(plans') # {},
           comparison # NoFile => comparison' # NoFile,
           Drafting(p)' => DraftInv(p)'
    PROVE  Drafted'
<1> SUFFICES ASSUME NEW q \in Procs \ {p}, Drafting(q)' PROVE DraftInv(q)'
  BY DEF Drafted
<1>1. inv'[q] = inv[q] /\ Drafting(q) /\ DraftInv(q)
  BY DEF Drafting, Drafted
<1>2. inv[q].held \in Drafts
  BY <1>1 DEF TypeOK, Consistent, Drafting
<1>3. \A s \in Slots : inv[q].held.plans[s] # NoFile => inv[q].held.plans[s].by \in Procs
  BY <1>2 DEF Drafts, Snapshots, Plans
<1>4. "overlap" \notin mishaps' => "overlap" \notin mishaps /\ plans' = plans /\ comparison' = comparison
  BY <1>1 DEF Alone, Active, Drafting
<1>5. /\ inv'[q].pc # "list_plans" => Listed(plans') # {}
      /\ inv'[q].held.comparison # Nothing =>
           comparison' # NoFile /\ Seen(inv'[q].held.comparison)
      /\ \A s \in Slots : inv'[q].held.plans[s] # NoFile =>
           /\ inv'[q].held.plans[s].ir.enriched
           /\ inv'[inv'[q].held.plans[s].by].pc # "idle"
  BY <1>1, <1>3 DEF DraftInv
<1>6. "overlap" \notin mishaps' =>
         /\ inv'[q].held.comparison # Nothing => inv'[q].held.comparison = comparison'
         /\ inv'[q].pc = "read_plans" =>
              \A s \in Slots : inv'[q].held.plans[s] = plans'[s] \/ s \in Elements(inv'[q].todo)
         /\ inv'[q].pc \in {"write_comparison", "write_synthesis"} => inv'[q].held.plans = plans'
  BY <1>1, <1>4 DEF DraftInv
<1> QED BY <1>5, <1>6 DEF DraftInv, Listed, Seen

\* An error keeps the invariant: the invocation was at nothing, had written
\* nothing, or its failure is known.
LEMMA FailsKeeps ==
    ASSUME TypeOK, PipelineInv, NEW p \in Procs, Fails(p), UNCHANGED route,
           inv[p].pc \in {"call", "normalize", "list_plans", "read_plans", "read_comparison"},
           \/ inv[p].pc # "normalize" \/ mishaps # {}
           \/ Listed(plans) = {} \/ Wanted \subseteq Listed(plans)
    PROVE  TypeOK' /\ PipelineInv'
<1> USE DEF Calling, Normalizing, Active, files, Listed
<1>1. /\ TypeOK' /\ UNCHANGED <<route, results, plans, comparison, synthesis>>
      /\ inv'[p].pc = "ended" /\ inv'[p].action = inv[p].action
      /\ mishaps \subseteq mishaps' /\ (inv[p].pc = "call" => mishaps' # {})
      /\ \A q \in Procs \ {p} : inv'[q] = inv[q]
  BY FailsFacts DEF Goes
<1>2. \A q \in Procs : inv[q].pc # "idle" => inv'[q].pc # "idle" /\ inv'[q].action = inv[q].action
  BY <1>1
<1>3. Present'
  BY <1>1 DEF PipelineInv, Present
<1>4. /\ SynthesisGrounded' /\ CompleteUnlessMishap'
      /\ Whole(synthesis)' => \A s \in Slots : synthesis'.plans[s] # NoFile =>
                                  inv'[synthesis'.plans[s].by].pc # "idle"
  BY <1>1, <1>2, SynthesisKept DEF PipelineInv
<1>5. \A s \in Slots : Whole(plans[s]) => plans[s].by \in Procs /\ inv[plans[s].by].pc # "idle"
  BY DEF PipelineInv, Honest, TypeOK, Whole, Plans
<1>6. Honest'
  BY <1>1, <1>2, <1>4, <1>5 DEF PipelineInv, Honest, Whole, Seen
<1>7. Alone'
  BY <1>1, AloneKept DEF PipelineInv
<1>8. Current'
  BY <1>1, <1>2, <1>5 DEF PipelineInv, Current, Whole
<1>9. Filled'
  <2>1. Wanted' = Wanted
    BY <1>1 DEF Wanted, FanoutSlots
  <2> QED BY <1>1, <2>1 DEF PipelineInv, Filled
<1>10. Unasked'
  BY <1>1 DEF PipelineInv, Unasked
<1>11. Drafted'
  BY <1>1, <1>2, DraftedKept DEF PipelineInv, Drafting
<1> QED BY <1>1, <1>3, <1>4, <1>6, <1>7, <1>8, <1>9, <1>10, <1>11 DEF PipelineInv

\* A program that only reads the directory has never begun on it.
LEMMA LooksKeeps ==
    ASSUME TypeOK, PipelineInv, NEW p \in Procs, NEW action \in Actions, NEW ok \in BOOLEAN,
           Looks(p, action, ok), UNCHANGED route
    PROVE  TypeOK' /\ PipelineInv'
<1> USE DEF Calling, Normalizing, Active, files, Listed
<1> DEFINE me == [inv[p] EXCEPT !.action = action]
           outcome == IF ok THEN "ok" ELSE "failed"
<1>1. me \in Invocations /\ outcome \in Outcomes
  BY DEF TypeOK, Invocations, Outcomes
<1>2. Becomes(p, Ended(me, outcome)) /\ inv[p].pc = "idle"
  BY DEF Looks
<1> HIDE DEF me, outcome
<1>3. /\ UNCHANGED <<route, results, plans, comparison, synthesis, mishaps>>
      /\ inv[p].pc = "idle" /\ inv'[p].pc = "ended" /\ Goes(p)
  BY <1>1, <1>2, EndedFacts, BecomesFacts DEF Looks
<1>4. TypeOK'
  BY <1>3 DEF TypeOK, Goes
<1>5. \A q \in Procs \ {p} : inv'[q] = inv[q]
  BY <1>3 DEF Goes
<1>6. \A q \in Procs : inv[q].pc # "idle" => inv'[q].pc # "idle" /\ inv'[q].action = inv[q].action
  BY <1>3, <1>5
<1>7. Present'
  BY <1>3, <1>5 DEF PipelineInv, Present
<1>8. /\ SynthesisGrounded' /\ CompleteUnlessMishap'
      /\ Whole(synthesis)' => \A s \in Slots : synthesis'.plans[s] # NoFile =>
                                  inv'[synthesis'.plans[s].by].pc # "idle"
  BY <1>3, <1>6, SynthesisKept DEF PipelineInv
<1>9. \A s \in Slots : Whole(plans[s]) => plans[s].by \in Procs /\ inv[plans[s].by].pc # "idle"
  BY DEF PipelineInv, Honest, TypeOK, Whole, Plans
<1>10. Honest'
  BY <1>3, <1>5, <1>6, <1>8, <1>9 DEF PipelineInv, Honest, Whole, Seen
<1>11. Alone'
  BY <1>3, <1>5, AloneKept DEF PipelineInv
<1>12. Current'
  BY <1>3, <1>5, <1>6, <1>9 DEF PipelineInv, Current, Whole
<1>13. Filled'
  <2>1. Wanted' = Wanted
    BY <1>3 DEF Wanted, FanoutSlots
  <2> QED BY <1>3, <1>5, <2>1 DEF PipelineInv, Filled
<1>14. Unasked'
  BY <1>3, <1>5 DEF PipelineInv, Unasked
<1>15. Drafted'
  BY <1>3, <1>5, <1>6, DraftedKept DEF PipelineInv, Drafting
<1> QED BY <1>4, <1>7, <1>8, <1>10, <1>11, <1>12, <1>13, <1>14, <1>15 DEF PipelineInv

\* An action begins with the first stage that has something to work on: it asks
\* again only if it is told to, and goes to the plans only if there are none
\* that a comparison could be about.
LEMMA FirstStageFacts ==
    ASSUME Present, NEW action \in Stages
    PROVE  LET stage == FirstStage(action)
           IN  /\ stage \in Stages
               /\ stage = "fanout" => action = "fanout" \/ Listed(results) = {}
               /\ stage = "normalize" => action # "fanout" /\ Listed(results) # {}
               /\ stage \in {"fanout", "normalize"} =>
                    action \in {"fanout", "normalize"} \/ comparison = NoFile
               /\ stage = "synthesize" => comparison # NoFile
<1>1. CASE action = "fanout"
  BY <1>1 DEF FirstStage, Stages
<1>2. CASE action = "normalize"
  BY <1>2 DEF FirstStage, FromNormalize, Stages
<1>3. CASE action = "compare"
  BY <1>3 DEF FirstStage, FromCompare, FromNormalize, Stages, Present
<1>4. CASE action = "synthesize"
  BY <1>4 DEF FirstStage, FromSynthesize, FromCompare, FromNormalize, Stages
<1> QED BY <1>1, <1>2, <1>3, <1>4 DEF Stages

\* What a beginning amounts to.
LEMMA BeginFacts ==
    ASSUME TypeOK, Present, NEW p \in Procs, Begin(p), UNCHANGED route
    PROVE  /\ TypeOK' /\ UNCHANGED <<results, plans, comparison, synthesis>>
           /\ inv[p].pc = "idle" /\ \A q \in Procs \ {p} : inv'[q] = inv[q]
           /\ mishaps \subseteq mishaps'
           /\ (\E q \in Procs : Active(q)) => "overlap" \in mishaps'
           /\ \/ /\ inv'[p].pc = "call" /\ inv'[p].todo = FanoutSlots(route)
                 /\ inv'[p].action = "fanout" \/ Listed(results) = {}
                 /\ inv'[p].action \in {"fanout", "normalize"} \/ comparison = NoFile
              \/ /\ inv'[p].pc = "normalize" /\ Elements(inv'[p].todo) = Listed(results)
                 /\ inv'[p].action # "fanout" /\ Listed(results) # {}
                 /\ inv'[p].action = "normalize" \/ comparison = NoFile
              \/ inv'[p].pc = "read_comparison" /\ comparison # NoFile
              \/ inv'[p].pc = "list_plans" /\ inv'[p].held = Draft(Nothing)
              \/ inv'[p].pc = "ended"
<1>1. PICK action \in Stages, forced \in BOOLEAN :
        Becomes(p, Enter([inv[p] EXCEPT !.action = action, !.forced = forced],
                         FirstStage(action), results))
  BY DEF Begin
<1> DEFINE me == [inv[p] EXCEPT !.action = action, !.forced = forced]
           stage == FirstStage(action)
<1>2. me \in Invocations /\ me.action = action
  BY DEF TypeOK, Invocations, Stages, Actions
<1>3. /\ stage \in Stages
      /\ stage = "fanout" => action = "fanout" \/ Listed(results) = {}
      /\ stage = "normalize" => action # "fanout" /\ Listed(results) # {}
      /\ stage \in {"fanout", "normalize"} => action \in {"fanout", "normalize"} \/ comparison = NoFile
      /\ stage = "synthesize" => comparison # NoFile
  BY FirstStageFacts
<1> HIDE DEF me, stage
<1>4. Entered(Enter(me, stage, results), me, stage, results)
  BY <1>2, <1>3, EnterFacts DEF TypeOK
<1>5. Becomes(p, Enter(me, stage, results))
  BY <1>1 DEF me, stage
<1>6. Goes(p) /\ Entered(inv'[p], me, stage, results)
  BY <1>4, <1>5, BecomesFacts DEF Entered
<1>7. /\ UNCHANGED <<results, plans, comparison, synthesis>> /\ inv[p].pc = "idle"
      /\ mishaps \subseteq mishaps' /\ mishaps' \subseteq Mishaps
      /\ (\E q \in Procs : Active(q)) => "overlap" \in mishaps'
  BY DEF Begin, files, TypeOK, Mishaps
<1>8. TypeOK'
  BY <1>6, <1>7 DEF TypeOK, Goes
<1> QED BY <1>2, <1>3, <1>6, <1>7, <1>8 DEF Entered, Goes

\* A beginning keeps the invariant.
LEMMA BeginKeeps ==
    ASSUME TypeOK, PipelineInv, NEW p \in Procs, Begin(p), UNCHANGED route
    PROVE  TypeOK' /\ PipelineInv'
<1> USE DEF Calling, Normalizing, Active, Listed
<1>1. /\ TypeOK' /\ UNCHANGED <<route, results, plans, comparison, synthesis>>
      /\ inv[p].pc = "idle" /\ \A q \in Procs \ {p} : inv'[q] = inv[q]
      /\ mishaps \subseteq mishaps'
      /\ (\E q \in Procs : Active(q)) => "overlap" \in mishaps'
  BY BeginFacts DEF PipelineInv
<1>2. \/ /\ inv'[p].pc = "call" /\ inv'[p].todo = FanoutSlots(route)
         /\ inv'[p].action = "fanout" \/ Listed(results) = {}
         /\ inv'[p].action \in {"fanout", "normalize"} \/ comparison = NoFile
      \/ /\ inv'[p].pc = "normalize" /\ Elements(inv'[p].todo) = Listed(results)
         /\ inv'[p].action # "fanout" /\ Listed(results) # {}
         /\ inv'[p].action = "normalize" \/ comparison = NoFile
      \/ inv'[p].pc = "read_comparison" /\ comparison # NoFile
      \/ inv'[p].pc = "list_plans" /\ inv'[p].held = Draft(Nothing)
      \/ inv'[p].pc = "ended"
  BY BeginFacts DEF PipelineInv
<1>3. \A q \in Procs : inv[q].pc # "idle" => inv'[q].pc # "idle" /\ inv'[q].action = inv[q].action
  BY <1>1
<1>4. Present'
  BY <1>1, <1>2 DEF PipelineInv, Present
<1>5. /\ SynthesisGrounded' /\ CompleteUnlessMishap'
      /\ Whole(synthesis)' => \A s \in Slots : synthesis'.plans[s] # NoFile =>
                                  inv'[synthesis'.plans[s].by].pc # "idle"
  BY <1>1, <1>3, SynthesisKept DEF PipelineInv
<1>6. \A s \in Slots : Whole(plans[s]) => plans[s].by \in Procs /\ inv[plans[s].by].pc # "idle"
  BY DEF PipelineInv, Honest, TypeOK, Whole, Plans
<1>7. Honest'
  BY <1>1, <1>2, <1>3, <1>5, <1>6 DEF PipelineInv, Honest, Whole, Seen
<1>8. Alone'
  BY <1>1 DEF PipelineInv, Alone
<1>9. Current'
  BY <1>1, <1>2, <1>3, <1>6 DEF PipelineInv, Current, Whole
<1>10. Filled'
  <2>1. Wanted' = Wanted
    BY <1>1 DEF Wanted, FanoutSlots
  <2> SUFFICES ASSUME mishaps' = {} PROVE Filled'
    BY DEF Filled
  <2>2. mishaps = {} /\ \A q \in Procs : ~Calling(q) /\ ~Normalizing(q)
    BY <1>1
  <2>3. /\ \A s \in Slots : results[s] # Torn /\ plans[s] # Torn
        /\ Listed(results) = {} \/ Wanted \subseteq Listed(results)
        /\ Listed(plans) = {} \/ Wanted \subseteq Listed(plans)
    BY <2>2 DEF PipelineInv, Filled
  <2>4. inv'[p].pc = "call" => Wanted \subseteq Elements(inv'[p].todo)
    BY <1>2 DEF Wanted
  <2>5. \A q \in Procs \ {p} : ~Calling(q)' /\ ~Normalizing(q)'
    BY <1>1, <2>2
  <2> HIDE DEF Calling, Normalizing
  <2>6. Calling(p)' => Wanted \subseteq Elements(inv'[p].todo)
    BY <1>2, <2>4 DEF Calling
  <2>7. Normalizing(p)' => Wanted \subseteq Elements(inv'[p].todo)
    BY <1>2, <2>3 DEF Normalizing
  <2> QED BY <1>1, <2>1, <2>3, <2>5, <2>6, <2>7 DEF Filled
<1>11. Unasked'
  BY <1>1, <1>2, FanoutFacts DEF PipelineInv, Unasked, TypeOK
<1>12. Drafted'
  <2>1. Drafting(p)' => DraftInv(p)'
    BY <1>2, BlankDraft DEF Drafting
  <2> QED BY <1>1, <1>3, <2>1, DraftedKept DEF PipelineInv
<1> QED BY <1>1, <1>4, <1>5, <1>7, <1>8, <1>9, <1>10, <1>11, <1>12 DEF PipelineInv

\* A slot that is asked answers, or the fan-out fails.
LEMMA CallKeeps ==
    ASSUME TypeOK, PipelineInv, NEW p \in Procs, Call(p), UNCHANGED route
    PROVE  TypeOK' /\ PipelineInv'
<1> DEFINE me == [inv[p] EXCEPT !.pc = "store", !.held = [by |-> p, text |-> TRUE]]
<1>1. CASE Fails(p)
  BY <1>1, FailsKeeps DEF Call
<1>2. CASE Becomes(p, me) /\ UNCHANGED <<files, mishaps>>
  <2> USE DEF Calling, Normalizing, Active, Listed, files
  <2>1. inv[p].pc = "call" /\ inv[p].todo # <<>>
    BY DEF Call, TypeOK, Consistent
  <2>2. /\ me \in Invocations /\ Consistent(me)
        /\ me.pc = "store" /\ me.action = inv[p].action /\ me.todo = inv[p].todo
    BY <2>1 DEF TypeOK, Invocations, Consistent, PCs, Results
  <2>3. Goes(p) /\ inv'[p] = me
    <3> HIDE DEF me
    <3> QED BY <1>2, <2>2, BecomesFacts
  <2> HIDE DEF me
  <2>4. /\ UNCHANGED <<route, results, plans, comparison, synthesis, mishaps>>
        /\ inv[p].pc = "call" /\ inv'[p].pc = "store"
        /\ inv'[p].action = inv[p].action /\ inv'[p].todo = inv[p].todo
        /\ \A q \in Procs \ {p} : inv'[q] = inv[q]
    BY <1>2, <2>1, <2>2, <2>3 DEF Goes
  <2>5. TypeOK'
    BY <2>3, <2>4 DEF TypeOK, Goes
  <2>6. \A q \in Procs : inv[q].pc # "idle" => inv'[q].pc # "idle" /\ inv'[q].action = inv[q].action
    BY <2>4
  <2>7. Present'
    BY <2>4 DEF PipelineInv, Present
  <2>8. /\ SynthesisGrounded' /\ CompleteUnlessMishap'
        /\ Whole(synthesis)' => \A s \in Slots : synthesis'.plans[s] # NoFile =>
                                    inv'[synthesis'.plans[s].by].pc # "idle"
    BY <2>4, <2>6, SynthesisKept DEF PipelineInv
  <2>9. \A s \in Slots : Whole(plans[s]) => plans[s].by \in Procs /\ inv[plans[s].by].pc # "idle"
    BY DEF PipelineInv, Honest, TypeOK, Whole, Plans
  <2>10. Honest'
    BY <2>4, <2>6, <2>8, <2>9 DEF PipelineInv, Honest, Whole, Seen
  <2>11. Alone'
    BY <2>4, AloneKept DEF PipelineInv
  <2>12. Current'
    BY <2>4, <2>6, <2>9 DEF PipelineInv, Current, Whole
  <2>13. Filled'
    <3>1. Wanted' = Wanted
      BY <2>4 DEF Wanted, FanoutSlots
    <3> QED BY <2>4, <3>1 DEF PipelineInv, Filled
  <2>14. Unasked'
    BY <2>4 DEF PipelineInv, Unasked
  <2>15. Drafted'
    BY <2>4, <2>6, DraftedKept DEF PipelineInv, Drafting
  <2> QED BY <2>5, <2>7, <2>8, <2>10, <2>11, <2>12, <2>13, <2>14, <2>15 DEF PipelineInv
<1> QED BY <1>1, <1>2 DEF Call

\* What storing an answer amounts to: the slot has a result, and the walk goes
\* on with the rest, ends, or leads to the normalisation of what there is.
LEMMA StoreFacts ==
    ASSUME TypeOK, NEW p \in Procs, Store(p), UNCHANGED route
    PROVE  /\ TypeOK' /\ UNCHANGED <<plans, comparison, synthesis, mishaps>>
           /\ inv[p].pc = "store" /\ inv'[p].action = inv[p].action
           /\ \A q \in Procs \ {p} : inv'[q] = inv[q]
           /\ Head(inv[p].todo) \in Slots /\ Whole(results'[Head(inv[p].todo)])
           /\ \A s \in Slots \ {Head(inv[p].todo)} : results'[s] = results[s]
           /\ \/ inv'[p].pc = "call" /\ inv'[p].todo = Tail(inv[p].todo)
              \/ /\ inv'[p].pc = "ended" /\ Tail(inv[p].todo) = <<>>
              \/ /\ inv'[p].pc = "normalize" /\ Tail(inv[p].todo) = <<>>
                 /\ inv[p].action # "fanout" /\ Elements(inv'[p].todo) = Listed(results')
<1> DEFINE s == Head(inv[p].todo)
           rest == Tail(inv[p].todo)
           next == [inv[p] EXCEPT !.pc = "call", !.todo = rest, !.held = Nothing]
<1>1. /\ inv[p].pc = "store" /\ inv[p] \in Invocations /\ inv[p].todo \in Seq(Slots)
      /\ inv[p].todo # <<>> /\ inv[p].held \in Results
  BY DEF Store, TypeOK, Consistent, Invocations
<1>2. s \in Slots /\ rest \in Seq(Slots)
  BY <1>1, HeadAndTail
<1>3. /\ results' = [results EXCEPT ![s] = inv[p].held]
      /\ Becomes(p, IF rest # <<>> THEN next ELSE After(inv[p], "fanout", "normalize", results'))
      /\ UNCHANGED <<plans, comparison, synthesis, mishaps>>
  BY DEF Store
<1> HIDE DEF s
<1>4. /\ results' \in [Slots -> Results \cup {NoFile, Torn}]
      /\ results'[s] = inv[p].held /\ \A t \in Slots \ {s} : results'[t] = results[t]
  BY <1>1, <1>2, <1>3 DEF TypeOK
<1>5. Whole(results'[s]) /\ Listed(results') # {}
  BY <1>1, <1>2, <1>4, NothingIsApart DEF Whole, Listed
<1>6. CASE rest # <<>>
  <2>1. /\ next \in Invocations /\ Consistent(next) /\ next.pc = "call"
        /\ next.action = inv[p].action /\ next.todo = rest
    BY <1>1, <1>2, <1>6 DEF Invocations, Consistent, PCs
  <2> HIDE DEF next, rest
  <2>2. Goes(p) /\ inv'[p] = next
    BY <1>3, <1>6, <2>1, BecomesFacts
  <2>3. TypeOK'
    BY <1>3, <1>4, <2>2 DEF TypeOK, Goes
  <2> QED BY <1>1, <1>2, <1>3, <1>4, <1>5, <2>1, <2>2, <2>3 DEF Goes, s, rest
<1>7. CASE rest = <<>> /\ inv[p].action = "fanout"
  <2>1. Becomes(p, Ended(inv[p], "ok"))
    BY <1>3, <1>7 DEF After
  <2>2. /\ Goes(p) /\ inv'[p].pc = "ended" /\ inv'[p].action = inv[p].action
    BY <1>1, <2>1, EndedFacts, BecomesFacts DEF Outcomes
  <2>3. TypeOK'
    BY <1>3, <1>4, <2>2 DEF TypeOK, Goes
  <2> QED BY <1>1, <1>2, <1>3, <1>4, <1>5, <1>7, <2>2, <2>3 DEF Goes, s
<1>8. CASE rest = <<>> /\ inv[p].action # "fanout"
  <2>1. Becomes(p, Enter(inv[p], "normalize", results'))
    BY <1>3, <1>8 DEF After
  <2>2. Entered(Enter(inv[p], "normalize", results'), inv[p], "normalize", results')
    BY <1>1, <1>5, EnterFacts DEF TypeOK, Stages
  <2>3. Goes(p) /\ Entered(inv'[p], inv[p], "normalize", results')
    BY <2>1, <2>2, BecomesFacts DEF Entered
  <2>4. TypeOK'
    BY <1>3, <1>4, <2>3 DEF TypeOK, Goes
  <2> QED BY <1>1, <1>2, <1>3, <1>4, <1>5, <1>8, <2>3, <2>4 DEF Goes, Entered, s
<1> QED BY <1>6, <1>7, <1>8

\* Storing keeps the invariant.
LEMMA StoreKeeps ==
    ASSUME TypeOK, PipelineInv, NEW p \in Procs, Store(p), UNCHANGED route
    PROVE  TypeOK' /\ PipelineInv'
<1> USE DEF Calling, Normalizing, Active
<1> DEFINE h == Head(inv[p].todo)
           rest == Tail(inv[p].todo)
<1>1. /\ TypeOK' /\ UNCHANGED <<route, plans, comparison, synthesis, mishaps>>
      /\ inv[p].pc = "store" /\ inv'[p].action = inv[p].action
      /\ \A q \in Procs \ {p} : inv'[q] = inv[q]
      /\ h \in Slots /\ Whole(results'[h])
      /\ \A s \in Slots \ {h} : results'[s] = results[s]
  BY StoreFacts
<1>2. \/ inv'[p].pc = "call" /\ inv'[p].todo = rest
      \/ inv'[p].pc = "ended" /\ rest = <<>>
      \/ /\ inv'[p].pc = "normalize" /\ rest = <<>>
         /\ inv[p].action # "fanout" /\ Elements(inv'[p].todo) = Listed(results')
  BY StoreFacts
<1>3. /\ inv[p].todo \in Seq(Slots) /\ inv[p].todo # <<>>
      /\ Elements(inv[p].todo) = {h} \cup Elements(rest)
      /\ rest = <<>> => Elements(rest) = {}
  <2>1. inv[p].todo \in Seq(Slots) /\ inv[p].todo # <<>>
    BY <1>1 DEF TypeOK, Consistent, Invocations
  <2> QED BY <2>1, HeadAndTail
<1> HIDE DEF h, rest
<1>4. Listed(results') = Listed(results) \cup {h}
  BY <1>1 DEF Listed, Whole
<1>5. \A q \in Procs : inv[q].pc # "idle" => inv'[q].pc # "idle" /\ inv'[q].action = inv[q].action
  BY <1>1, <1>2
<1>6. Present'
  BY <1>1, <1>2, <1>4 DEF PipelineInv, Present
<1>7. /\ SynthesisGrounded' /\ CompleteUnlessMishap'
      /\ Whole(synthesis)' => \A s \in Slots : synthesis'.plans[s] # NoFile =>
                                  inv'[synthesis'.plans[s].by].pc # "idle"
  BY <1>1, <1>5, SynthesisKept DEF PipelineInv
<1>8. \A s \in Slots : Whole(plans[s]) => plans[s].by \in Procs /\ inv[plans[s].by].pc # "idle"
  BY DEF PipelineInv, Honest, TypeOK, Whole, Plans
<1>9. Honest'
  BY <1>1, <1>2, <1>5, <1>7, <1>8 DEF PipelineInv, Honest, Whole, Seen
<1>10. Alone'
  BY <1>1, AloneKept DEF PipelineInv
<1>11. Current'
  BY <1>1, <1>2, <1>5, <1>8 DEF PipelineInv, Current, Whole
<1>12. Filled'
  <2> SUFFICES ASSUME mishaps = {} PROVE Filled'
    BY <1>1 DEF Filled
  <2>1. Wanted' = Wanted
    BY <1>1 DEF Wanted, FanoutSlots
  <2>2. \A q \in Procs \ {p} : ~Active(q) /\ ~Active(q)'
    BY <1>1 DEF PipelineInv, Alone
  <2>3. /\ \A s \in Slots : results[s] # Torn /\ plans[s] # Torn
        /\ Wanted \subseteq Elements(inv[p].todo) \cup Listed(results)
        /\ Listed(plans) = {} \/ Wanted \subseteq Listed(plans)
    BY <1>1, <2>2 DEF PipelineInv, Filled
  <2>4. \A s \in Slots : results'[s] # Torn /\ plans'[s] # Torn
    BY <1>1, <2>3 DEF Whole
  <2>5. Listed(plans') = Listed(plans)
    BY <1>1
  <2>6. /\ Wanted \subseteq Elements(rest) \cup Listed(results')
        /\ rest = <<>> => Wanted \subseteq Listed(results')
    BY <1>3, <1>4, <2>3
  <2> QED BY <1>2, <2>1, <2>2, <2>3, <2>4, <2>5, <2>6 DEF Filled
<1>13. Unasked'
  <2> SUFFICES ASSUME NEW q \in Procs, Calling(q)'
               PROVE  /\ NoRepeat(inv'[q].todo)
                      /\ \/ inv'[q].action = "fanout"
                         \/ mishaps \cap {"overlap", "deposit"} # {}
                         \/ Elements(inv'[q].todo) \cap Listed(results') = {}
    BY <1>1 DEF Unasked
  <2>1. CASE q = p
    <3>1. NoRepeat(inv[p].todo)
      BY <1>1 DEF PipelineInv, Unasked
    <3>2. NoRepeat(rest) /\ h \notin Elements(rest)
      BY <1>3, <3>1, HeadOnce DEF h, rest
    <3> QED BY <1>1, <1>2, <1>3, <1>4, <2>1, <3>2 DEF PipelineInv, Unasked
  <2>2. CASE q # p
    <3>1. inv'[q] = inv[q] /\ Calling(q)
      BY <1>1, <2>2
    <3>2. "overlap" \in mishaps
      BY <1>1, <2>2, <3>1 DEF PipelineInv, Alone
    <3> QED BY <3>1, <3>2 DEF PipelineInv, Unasked
  <2> QED BY <2>1, <2>2
<1>14. Drafted'
  BY <1>1, <1>2, <1>5, DraftedKept DEF PipelineInv, Drafting
<1> QED BY <1>1, <1>6, <1>7, <1>9, <1>10, <1>11, <1>12, <1>13, <1>14 DEF PipelineInv

\* A converter that succeeds leaves a plan with everything the evaluation asks
\* for but, perhaps, references.
LEMMA ConvertedFacts ==
    ASSUME NEW r, r.text \in BOOLEAN, NEW forced \in BOOLEAN, NormalizeSucceeds("export", forced)
    PROVE  /\ forced
           /\ Normalized(r, "export", forced) \in Artifacts
           /\ Normalized(r, "export", forced).enriched
BY DEF NormalizeSucceeds, Normalized, FixtureArtifact, Artifacts

\* What a conversion amounts to.
LEMMA NormalizeFacts ==
    ASSUME TypeOK, Present, NEW p \in Procs, Normalize(p), UNCHANGED route,
           ~ConverterFails(results[Head(inv[p].todo)], inv[p].forced)
    PROVE  /\ TypeOK' /\ UNCHANGED <<results, comparison, synthesis, mishaps>>
           /\ Normalizing(p) /\ inv[p].forced
           /\ inv'[p].action = inv[p].action /\ inv'[p].forced = inv[p].forced
           /\ \A q \in Procs \ {p} : inv'[q] = inv[q]
           /\ LET h == Head(inv[p].todo)
              IN  /\ h \in Slots /\ Whole(plans'[h]) /\ plans'[h].by = p /\ plans'[h].ir.enriched
                  /\ \A s \in Slots \ {h} : plans'[s] = plans[s]
           /\ \/ inv'[p].pc = "normalize" /\ inv'[p].todo = Tail(inv[p].todo)
              \/ inv'[p].pc = "ended" /\ Tail(inv[p].todo) = <<>>
              \/ /\ inv'[p].pc = "list_plans" /\ Tail(inv[p].todo) = <<>>
                 /\ inv[p].action # "normalize" /\ inv'[p].held = Draft(Nothing)
<1> DEFINE h == Head(inv[p].todo)
           rest == Tail(inv[p].todo)
           plan == [by |-> p, ir |-> Normalized(results[h], "export", inv[p].forced)]
           next == [inv[p] EXCEPT !.todo = rest]
<1>1. /\ inv[p].pc = "normalize" /\ inv[p] \in Invocations /\ inv[p].todo \in Seq(Slots)
      /\ inv[p].todo # <<>> /\ inv[p].forced \in BOOLEAN
  BY DEF Normalize, TypeOK, Consistent, Invocations
<1>2. /\ h \in Slots /\ rest \in Seq(Slots) /\ h \in Elements(inv[p].todo)
      /\ Elements(rest) \subseteq Elements(inv[p].todo)
  BY <1>1, HeadAndTail
<1>3. /\ plans' = [plans EXCEPT ![h] = plan]
      /\ Becomes(p, IF rest # <<>> THEN next ELSE After(inv[p], "normalize", "compare", results))
      /\ UNCHANGED <<results, comparison, synthesis, mishaps>>
  BY DEF Normalize
<1>4. results[h] \in Results /\ NormalizeSucceeds("export", inv[p].forced)
  BY <1>1, <1>2 DEF Present, Normalizing, Listed, ConverterFails, TypeOK
<1>5. inv[p].forced /\ plan \in Plans /\ plan.by = p /\ plan.ir.enriched
  BY <1>1, <1>4, ConvertedFacts DEF Plans, Results
<1> HIDE DEF h, plan
<1>6. /\ plans' \in [Slots -> Plans \cup {NoFile, Torn}]
      /\ plans'[h] = plan /\ \A s \in Slots \ {h} : plans'[s] = plans[s]
  BY <1>2, <1>3, <1>5 DEF TypeOK
<1>7. Whole(plans'[h])
  BY <1>5, <1>6, NothingIsApart DEF Whole
<1>8. CASE rest # <<>>
  <2>1. /\ next \in Invocations /\ Consistent(next) /\ next.pc = "normalize"
        /\ next.action = inv[p].action /\ next.forced = inv[p].forced /\ next.todo = rest
    BY <1>1, <1>2, <1>8 DEF Invocations, Consistent, PCs
  <2> HIDE DEF next, rest
  <2>2. Goes(p) /\ inv'[p] = next
    BY <1>3, <1>8, <2>1, BecomesFacts
  <2>3. TypeOK'
    BY <1>3, <1>6, <2>2 DEF TypeOK, Goes
  <2> QED BY <1>1, <1>2, <1>3, <1>5, <1>6, <1>7, <2>1, <2>2, <2>3 DEF Goes, h, rest, Normalizing
<1>9. CASE rest = <<>> /\ inv[p].action = "normalize"
  <2>1. Becomes(p, Ended(inv[p], "ok"))
    BY <1>3, <1>9 DEF After
  <2>2. /\ Goes(p) /\ inv'[p].pc = "ended" /\ inv'[p].action = inv[p].action
        /\ inv'[p].forced = inv[p].forced
    BY <1>1, <2>1, EndedFacts, BecomesFacts DEF Outcomes
  <2>3. TypeOK'
    BY <1>3, <1>6, <2>2 DEF TypeOK, Goes
  <2> QED BY <1>1, <1>2, <1>3, <1>5, <1>6, <1>7, <1>9, <2>2, <2>3 DEF Goes, h, Normalizing
<1>10. CASE rest = <<>> /\ inv[p].action # "normalize"
  <2>1. Becomes(p, Enter(inv[p], "compare", results))
    BY <1>3, <1>10 DEF After
  <2>2. Entered(Enter(inv[p], "compare", results), inv[p], "compare", results)
    BY <1>1, EnterFacts DEF TypeOK, Stages
  <2>3. Goes(p) /\ Entered(inv'[p], inv[p], "compare", results)
    BY <2>1, <2>2, BecomesFacts DEF Entered
  <2>4. TypeOK'
    BY <1>3, <1>6, <2>3 DEF TypeOK, Goes
  <2> QED BY <1>1, <1>2, <1>3, <1>5, <1>6, <1>7, <1>10, <2>3, <2>4 DEF Goes, Entered, h, Normalizing
<1> QED BY <1>8, <1>9, <1>10

\* A conversion keeps the invariant; one that fails does so on the first file.
LEMMA NormalizeKeeps ==
    ASSUME TypeOK, PipelineInv, NEW p \in Procs, Normalize(p), UNCHANGED route
    PROVE  TypeOK' /\ PipelineInv'
<1> DEFINE h == Head(inv[p].todo)
           rest == Tail(inv[p].todo)
<1>1. /\ inv[p].pc = "normalize" /\ inv[p].todo \in Seq(Slots) /\ inv[p].todo # <<>>
      /\ inv[p].forced \in BOOLEAN
  BY DEF Normalize, TypeOK, Consistent, Invocations
<1>2. /\ Elements(inv[p].todo) = {h} \cup Elements(rest) /\ h \in Slots
      /\ rest = <<>> => Elements(rest) = {}
  BY <1>1, HeadAndTail
<1>3. CASE ConverterFails(results[h], inv[p].forced)
  <2>1. Fails(p)
    BY <1>3 DEF Normalize
  <2>2. mishaps # {} \/ Listed(plans) = {} \/ Wanted \subseteq Listed(plans)
    BY <1>1, <1>2, <1>3 DEF PipelineInv, Filled, Normalizing, ConverterFails, NormalizeSucceeds
  <2> QED BY <1>1, <2>1, <2>2, FailsKeeps
<1>4. CASE ~ConverterFails(results[h], inv[p].forced)
  <2> USE DEF Calling, Normalizing, Active
  <2>1. /\ TypeOK' /\ UNCHANGED <<route, results, comparison, synthesis, mishaps>>
        /\ inv[p].forced /\ inv'[p].action = inv[p].action /\ inv'[p].forced = inv[p].forced
        /\ \A q \in Procs \ {p} : inv'[q] = inv[q]
        /\ Whole(plans'[h]) /\ plans'[h].by = p /\ plans'[h].ir.enriched
        /\ \A s \in Slots \ {h} : plans'[s] = plans[s]
    BY <1>4, NormalizeFacts DEF PipelineInv
  <2>2. \/ inv'[p].pc = "normalize" /\ inv'[p].todo = rest
        \/ inv'[p].pc = "ended" /\ rest = <<>>
        \/ /\ inv'[p].pc = "list_plans" /\ rest = <<>> /\ inv[p].action # "normalize"
           /\ inv'[p].held = Draft(Nothing)
    BY <1>4, NormalizeFacts DEF PipelineInv
  <2> HIDE DEF h, rest
  <2>3. Listed(plans') = Listed(plans) \cup {h}
    BY <1>2, <2>1 DEF Listed, Whole
  <2>4. \A q \in Procs : inv[q].pc # "idle" => inv'[q].pc # "idle" /\ inv'[q].action = inv[q].action
    BY <1>1, <2>1, <2>2
  <2>5. Present'
    <3>1. Elements(inv'[p].todo) \subseteq Elements(inv[p].todo) \/ inv'[p].pc # "normalize"
      BY <1>2, <2>2
    <3>2. Listed(results') = Listed(results) /\ Listed(plans) \subseteq Listed(plans')
      BY <2>1, <2>3
    <3>3. Elements(inv[p].todo) \subseteq Listed(results)
      BY <1>1 DEF PipelineInv, Present
    <3> QED BY <1>1, <2>1, <2>2, <3>1, <3>2, <3>3 DEF PipelineInv, Present
  <2>6. /\ SynthesisGrounded' /\ CompleteUnlessMishap'
        /\ Whole(synthesis)' => \A s \in Slots : synthesis'.plans[s] # NoFile =>
                                    inv'[synthesis'.plans[s].by].pc # "idle"
    BY <2>1, <2>4, SynthesisKept DEF PipelineInv
  <2>7. \A s \in Slots : Whole(plans[s]) => plans[s].by \in Procs /\ inv[plans[s].by].pc # "idle"
    BY DEF PipelineInv, Honest, TypeOK, Whole, Plans
  <2>8. Honest'
    <3>1. \A s \in Slots : Whole(plans'[s]) =>
            plans'[s].ir.enriched /\ inv'[plans'[s].by].pc # "idle"
      BY <1>1, <2>1, <2>2, <2>4, <2>7 DEF PipelineInv, Honest
    <3> QED BY <1>1, <2>1, <2>2, <2>6, <3>1 DEF PipelineInv, Honest, Whole, Seen
  <2>9. Alone'
    BY <1>1, <2>1, AloneKept DEF PipelineInv
  <2>10. Current'
    <3> SUFFICES ASSUME "overlap" \notin mishaps PROVE Current'
      BY <2>1 DEF Current
    <3>1. /\ \A q \in Procs \ {p} : ~Active(q) /\ ~Active(q)'
          /\ inv[p].action = "normalize" \/ ~Whole(comparison)
          /\ inv[p].action # "fanout"
      BY <1>1, <2>1 DEF PipelineInv, Alone, Current
    <3>2. Whole(comparison) => \A s \in Slots :
             \/ plans'[s] = comparison.plans[s]
             \/ plans'[s] = Torn
             \/ Whole(plans'[s]) /\ inv'[plans'[s].by].action = "normalize"
      BY <2>1, <2>4, <2>7, <3>1 DEF PipelineInv, Current
    <3> QED BY <2>1, <2>2, <3>1, <3>2 DEF Current
  <2>11. Filled'
    <3> SUFFICES ASSUME mishaps = {} PROVE Filled'
      BY <2>1 DEF Filled
    <3>1. Wanted' = Wanted
      BY <2>1 DEF Wanted, FanoutSlots
    <3>2. \A q \in Procs \ {p} : ~Active(q) /\ ~Active(q)'
      BY <1>1, <2>1 DEF PipelineInv, Alone
    <3>3. /\ \A s \in Slots : results[s] # Torn /\ plans[s] # Torn
          /\ Wanted \subseteq Elements(inv[p].todo) \cup Listed(plans)
          /\ Listed(results) = {} \/ Wanted \subseteq Listed(results)
      BY <1>1, <3>2 DEF PipelineInv, Filled
    <3>4. \A s \in Slots : results'[s] # Torn /\ plans'[s] # Torn
      BY <2>1, <3>3 DEF Whole
    <3>5. Listed(results') = Listed(results)
      BY <2>1
    <3>6. /\ Wanted \subseteq Elements(rest) \cup Listed(plans')
          /\ rest = <<>> => Wanted \subseteq Listed(plans')
      BY <1>2, <2>3, <3>3
    <3> QED BY <2>1, <2>2, <3>1, <3>2, <3>3, <3>4, <3>5, <3>6 DEF Filled
  <2>12. Unasked'
    BY <1>1, <2>1, <2>2 DEF PipelineInv, Unasked, Listed
  <2>13. Drafted'
    <3>1. Drafting(p)' => DraftInv(p)'
      BY <2>2, BlankDraft DEF Drafting
    <3>2. Listed(plans) # {} => Listed(plans') # {}
      BY <2>3
    <3> QED BY <1>1, <2>1, <2>4, <3>1, <3>2, DraftedKept DEF PipelineInv
  <2> QED BY <2>1, <2>5, <2>6, <2>8, <2>9, <2>10, <2>11, <2>12, <2>13 DEF PipelineInv
<1> QED BY <1>3, <1>4

\* A file caught half written is caught only by an invocation that overlaps
\* with the one that writes it.
LEMMA ReadsHalfKeeps ==
    ASSUME TypeOK, PipelineInv, NEW p \in Procs, ReadsHalf(p), UNCHANGED route
    PROVE  TypeOK' /\ PipelineInv'
<1>1. /\ inv[p].pc \in {"normalize", "read_plans", "read_comparison"}
      /\ \E q \in Procs \ {p} : Active(q)
  BY DEF ReadsHalf, Active
<1>2. mishaps # {}
  BY <1>1 DEF PipelineInv, Alone, Active
<1> QED BY <1>1, <1>2, FailsKeeps DEF ReadsHalf

\* A comparison has looked at every plan it counts.
LEMMA ContradictionsFacts ==
    ASSUME NEW snapshot \in Snapshots
    PROVE  /\ Contradictions(snapshot) \in 0..Len(Listing)
           /\ Contradictions(snapshot) = 0 =>
                \A s \in Slots : snapshot[s] # NoFile => ~Contradicts(snapshot[s].ir)
<1> DEFINE bad == {s \in Slots : snapshot[s] # NoFile /\ Contradicts(snapshot[s].ir)}
<1>1. bad \in SUBSET Slots /\ Contradictions(snapshot) = Cardinality(bad)
  BY DEF Contradictions
<1>2. IsFiniteSet(bad) /\ Cardinality(bad) \in 0..Len(Listing)
  BY <1>1, SlotsFinite
<1>3. Cardinality(bad) = 0 => bad = {}
  BY <1>2, FS_EmptySet
<1> QED BY <1>1, <1>2, <1>3

\* A step between two stages of reading and writing: only the invocation moves.
LEMMA TurnKeeps ==
    ASSUME TypeOK, PipelineInv, NEW p \in Procs, NEW me \in Invocations, Consistent(me),
           Becomes(p, me), UNCHANGED <<route, files, mishaps>>,
           inv[p].pc \in {"list_plans", "read_plans", "read_comparison"},
           me.pc \in {"list_plans", "read_plans", "write_comparison", "write_synthesis"},
           me.action = inv[p].action, DraftInv(p)'
    PROVE  TypeOK' /\ PipelineInv'
<1> USE DEF Calling, Normalizing, Active, Listed, files
<1>1. /\ UNCHANGED <<route, results, plans, comparison, synthesis, mishaps>>
      /\ Goes(p) /\ inv'[p] = me /\ \A q \in Procs \ {p} : inv'[q] = inv[q]
  BY BecomesFacts DEF Goes
<1>2. TypeOK'
  BY <1>1 DEF TypeOK, Goes
<1>3. \A q \in Procs : inv[q].pc # "idle" => inv'[q].pc # "idle" /\ inv'[q].action = inv[q].action
  BY <1>1
<1>4. Present'
  BY <1>1 DEF PipelineInv, Present
<1>5. /\ SynthesisGrounded' /\ CompleteUnlessMishap'
      /\ Whole(synthesis)' => \A s \in Slots : synthesis'.plans[s] # NoFile =>
                                  inv'[synthesis'.plans[s].by].pc # "idle"
  BY <1>1, <1>3, SynthesisKept DEF PipelineInv
<1>6. \A s \in Slots : Whole(plans[s]) => plans[s].by \in Procs /\ inv[plans[s].by].pc # "idle"
  BY DEF PipelineInv, Honest, TypeOK, Whole, Plans
<1>7. Honest'
  BY <1>1, <1>3, <1>5, <1>6 DEF PipelineInv, Honest, Whole, Seen
<1>8. Alone'
  BY <1>1, AloneKept DEF PipelineInv
<1>9. Current'
  BY <1>1, <1>3, <1>6 DEF PipelineInv, Current, Whole
<1>10. Filled'
  <2>1. Wanted' = Wanted
    BY <1>1 DEF Wanted, FanoutSlots
  <2> QED BY <1>1, <2>1 DEF PipelineInv, Filled
<1>11. Unasked'
  BY <1>1 DEF PipelineInv, Unasked
<1>12. Drafted'
  BY <1>1, <1>3, DraftedKept DEF PipelineInv
<1> QED BY <1>2, <1>4, <1>5, <1>7, <1>8, <1>9, <1>10, <1>11, <1>12 DEF PipelineInv

\* Two plans or one: there is a plan to begin with.
LEMMA ListPlansKeeps ==
    ASSUME TypeOK, PipelineInv, NEW p \in Procs, ListPlans(p), UNCHANGED route
    PROVE  TypeOK' /\ PipelineInv'
<1> DEFINE walk == Walk(plans)
           me == [inv[p] EXCEPT !.pc = "read_plans", !.todo = walk]
<1>1. CASE Fails(p)
  <2>1. inv[p].pc = "list_plans"
    BY DEF ListPlans
  <2> QED BY <1>1, <2>1, FailsKeeps
<1>2. CASE ~Fails(p)
  <2>1. /\ inv[p].pc = "list_plans" /\ Becomes(p, me) /\ UNCHANGED <<files, mishaps>>
        /\ ~(Cardinality(Listed(plans)) < 1)
    <3>1. Cardinality(Listed(plans)) \in Nat
      BY SlotsFinite DEF Listed
    <3>2. CASE inv[p].held.comparison = Nothing
      BY <1>2, <3>1, <3>2 DEF ListPlans
    <3>3. CASE inv[p].held.comparison # Nothing
      BY <1>2, <3>1, <3>3 DEF ListPlans
    <3> QED BY <3>2, <3>3
  <2>2. Listed(plans) # {}
    BY <2>1, FS_EmptySet
  <2>3. walk \in Seq(Slots) /\ walk # <<>> /\ Elements(walk) = Listed(plans)
    BY <2>2, ListingFacts
  <2> HIDE DEF walk
  <2>4. /\ inv[p] \in Invocations /\ inv[p].held \in Drafts /\ inv[p].held.plans = NoPlans
        /\ DraftInv(p)
    BY <2>1 DEF TypeOK, Consistent, PipelineInv, Drafted, Drafting
  <2>5. /\ me \in Invocations /\ Consistent(me) /\ me.pc = "read_plans"
        /\ me.action = inv[p].action /\ me.held = inv[p].held /\ me.todo = walk
    BY <2>3, <2>4 DEF Invocations, Consistent, PCs
  <2> HIDE DEF me
  <2>6. inv'[p] = me /\ UNCHANGED <<plans, comparison, mishaps>>
    BY <2>1, <2>5, BecomesFacts DEF files
  <2>7. \A s \in Slots : inv[p].held.plans[s] = NoFile
    BY <2>4 DEF NoPlans
  <2>8. \A s \in Slots : plans[s] = NoFile \/ s \in Elements(walk)
    BY <2>3 DEF Listed
  <2>9. DraftInv(p)'
    BY <2>2, <2>4, <2>5, <2>6, <2>7, <2>8 DEF DraftInv, Listed, Seen
  <2> QED BY <2>1, <2>5, <2>9, TurnKeeps
<1> QED BY <1>1, <1>2

\* Each plan is read as it is, so that in the end, where nobody else has been at
\* work, all of them are.
LEMMA ReadPlanKeeps ==
    ASSUME TypeOK, PipelineInv, NEW p \in Procs, ReadPlan(p), UNCHANGED route
    PROVE  TypeOK' /\ PipelineInv'
<1> DEFINE s == Head(inv[p].todo)
           rest == Tail(inv[p].todo)
           read == WithPlan(inv[p].held, s, plans[s])
           last == IF read.comparison = Nothing THEN "write_comparison" ELSE "write_synthesis"
           me == IF rest # <<>> THEN [inv[p] EXCEPT !.todo = rest, !.held = read]
                 ELSE [inv[p] EXCEPT !.todo = rest, !.held = read, !.pc = last]
<1>1. CASE Fails(p)
  <2>1. inv[p].pc = "read_plans"
    BY DEF ReadPlan
  <2> QED BY <1>1, <2>1, FailsKeeps
<1>2. CASE ~Fails(p)
  <2>1. /\ inv[p].pc = "read_plans" /\ Becomes(p, me) /\ UNCHANGED <<files, mishaps>>
        /\ plans[s] # Torn
    BY <1>2 DEF ReadPlan
  <2>2. /\ inv[p] \in Invocations /\ inv[p].held \in Drafts /\ inv[p].todo \in Seq(Slots)
        /\ inv[p].todo # <<>> /\ DraftInv(p)
    BY <2>1 DEF TypeOK, Consistent, Invocations, PipelineInv, Drafted, Drafting
  <2>3. /\ s \in Slots /\ rest \in Seq(Slots) /\ Elements(inv[p].todo) = {s} \cup Elements(rest)
        /\ rest = <<>> => Elements(rest) = {}
    BY <2>2, HeadAndTail
  <2> HIDE DEF s, rest
  <2>4. plans[s] \in Plans \cup {NoFile}
    BY <2>1, <2>3 DEF TypeOK
  <2>5. /\ read \in Drafts /\ read.comparison = inv[p].held.comparison /\ read.plans[s] = plans[s]
        /\ \A t \in Slots \ {s} : read.plans[t] = inv[p].held.plans[t]
    BY <2>2, <2>3, <2>4, DraftFacts
  <2> HIDE DEF read
  <2>6. last \in {"write_comparison", "write_synthesis"}
        /\ (last = "write_synthesis" => read.comparison # Nothing)
    OBVIOUS
  <2> HIDE DEF last
  <2>7. /\ me \in Invocations /\ Consistent(me) /\ me.action = inv[p].action
        /\ me.held = read /\ me.todo = rest
        /\ me.pc = (IF rest # <<>> THEN "read_plans" ELSE last)
    <3>1. CASE rest # <<>>
      BY <2>1, <2>2, <2>3, <2>5, <3>1 DEF Invocations, Consistent
    <3>2. CASE rest = <<>>
      BY <2>1, <2>2, <2>3, <2>5, <2>6, <3>2 DEF Invocations, Consistent, PCs
    <3> QED BY <3>1, <3>2
  <2> HIDE DEF me
  <2>8. inv'[p] = me /\ Goes(p) /\ UNCHANGED <<plans, comparison, mishaps>>
    BY <2>1, <2>7, BecomesFacts DEF files
  <2>9. Listed(plans) # {} /\ (read.comparison # Nothing => comparison # NoFile /\ Seen(read.comparison))
    BY <2>1, <2>2, <2>5 DEF DraftInv
  <2>10. \A t \in Slots : read.plans[t] # NoFile =>
           /\ read.plans[t].ir.enriched /\ read.plans[t].by \in Procs
           /\ inv[read.plans[t].by].pc # "idle"
    <3>1. plans[s] # NoFile => /\ plans[s].ir.enriched /\ plans[s].by \in Procs
                               /\ inv[plans[s].by].pc # "idle"
      BY <2>1, <2>3, <2>4 DEF PipelineInv, Honest, Whole, Plans
    <3>2. \A t \in Slots : inv[p].held.plans[t] # NoFile =>
            /\ inv[p].held.plans[t].ir.enriched /\ inv[p].held.plans[t].by \in Procs
            /\ inv[inv[p].held.plans[t].by].pc # "idle"
      BY <2>2 DEF DraftInv, Drafts, Snapshots, Plans
    <3> QED BY <2>3, <2>5, <3>1, <3>2
  <2>11. \A t \in Slots : read.plans[t] # NoFile =>
           read.plans[t].ir.enriched /\ inv'[read.plans[t].by].pc # "idle"
    BY <2>1, <2>6, <2>7, <2>8, <2>10 DEF Goes
  <2>12. ASSUME "overlap" \notin mishaps
         PROVE  /\ read.comparison # Nothing => read.comparison = comparison
                /\ \A t \in Slots : read.plans[t] = plans[t] \/ t \in Elements(rest)
                /\ rest = <<>> => read.plans = plans
    <3>1. /\ read.comparison # Nothing => read.comparison = comparison
          /\ \A t \in Slots : inv[p].held.plans[t] = plans[t] \/ t \in Elements(inv[p].todo)
      BY <2>1, <2>2, <2>5, <2>12 DEF DraftInv
    <3>2. \A t \in Slots : read.plans[t] = plans[t] \/ t \in Elements(rest)
      BY <2>3, <2>5, <3>1
    <3>3. ASSUME rest = <<>> PROVE read.plans = plans
      <4>1. \A t \in Slots : read.plans[t] = plans[t]
        BY <2>3, <3>2, <3>3
      <4>2. read.plans = [t \in Slots |-> read.plans[t]] /\ plans = [t \in Slots |-> plans[t]]
        BY <2>5 DEF Drafts, Snapshots, TypeOK
      <4> QED BY <4>1, <4>2
    <3> QED BY <3>1, <3>2, <3>3
  <2>13. DraftInv(p)'
    BY <2>6, <2>7, <2>8, <2>9, <2>11, <2>12 DEF DraftInv, Listed, Seen
  <2>14. me.pc \in {"read_plans", "write_comparison", "write_synthesis"}
    BY <2>6, <2>7
  <2> QED BY <2>1, <2>7, <2>13, <2>14, TurnKeeps
<1> QED BY <1>1, <1>2

\* The comparison is read as it is.
LEMMA ReadComparisonKeeps ==
    ASSUME TypeOK, PipelineInv, NEW p \in Procs, ReadComparison(p), UNCHANGED route
    PROVE  TypeOK' /\ PipelineInv'
<1> DEFINE blank == Draft(comparison)
           me == [inv[p] EXCEPT !.pc = "list_plans", !.held = blank]
<1>1. CASE Fails(p)
  BY <1>1, FailsKeeps DEF ReadComparison
<1>2. CASE ~Fails(p)
  <2>1. /\ inv[p].pc = "read_comparison" /\ Becomes(p, me) /\ UNCHANGED <<files, mishaps>>
        /\ comparison # Torn
    BY <1>2 DEF ReadComparison
  <2>2. comparison # NoFile
    BY <2>1 DEF PipelineInv, Present
  <2>3. comparison \in Comparisons /\ Seen(comparison)
    BY <2>1, <2>2 DEF PipelineInv, Honest, Whole, TypeOK
  <2>4. blank \in Drafts /\ blank.plans = NoPlans /\ blank.comparison = comparison
    BY <2>3, DraftFacts
  <2> HIDE DEF blank
  <2>5. /\ me \in Invocations /\ Consistent(me) /\ me.pc = "list_plans"
        /\ me.action = inv[p].action /\ me.held = blank
    BY <2>4 DEF TypeOK, Invocations, Consistent, PCs
  <2> HIDE DEF me
  <2>6. inv'[p] = me /\ UNCHANGED <<plans, comparison, mishaps>>
    BY <2>1, <2>5, BecomesFacts DEF files
  <2>7. \A s \in Slots : blank.plans[s] = NoFile
    BY <2>4 DEF NoPlans
  <2>8. DraftInv(p)'
    BY <2>2, <2>3, <2>4, <2>5, <2>6, <2>7 DEF DraftInv, Seen
  <2> QED BY <2>1, <2>5, <2>8, TurnKeeps
<1> QED BY <1>1, <1>2

\* The comparison that is written is of the plans that are there.
LEMMA WriteComparisonKeeps ==
    ASSUME TypeOK, PipelineInv, NEW p \in Procs, WriteComparison(p), UNCHANGED route
    PROVE  TypeOK' /\ PipelineInv'
<1> USE DEF Calling, Normalizing, Active
<1> DEFINE snapshot == inv[p].held.plans
           written == [plans |-> snapshot, contradictions |-> Contradictions(snapshot)]
<1>0. /\ inv[p].pc = "write_comparison" /\ inv[p].held \in Drafts /\ DraftInv(p)
      /\ comparison' = written
  BY DEF WriteComparison, TypeOK, Consistent, PipelineInv, Drafted, Drafting
<1>16. snapshot \in Snapshots
  BY <1>0 DEF Drafts
<1>17. written \in Comparisons /\ written.plans = snapshot
  BY <1>16, ContradictionsFacts DEF Comparisons
<1>18. Seen(written)
  BY <1>0, <1>16, ContradictionsFacts DEF Seen, DraftInv
<1> HIDE DEF written
<1>1. /\ inv[p].pc = "write_comparison" /\ inv[p] \in Invocations /\ comparison' \in Comparisons
      /\ Seen(comparison') /\ Listed(plans) # {}
      /\ UNCHANGED <<route, results, plans, synthesis, mishaps>> /\ comparison'.plans = snapshot
  BY <1>0, <1>17, <1>18 DEF WriteComparison, TypeOK, DraftInv
<1>2. /\ Goes(p) /\ inv'[p].action = inv[p].action
      /\ inv'[p].pc \in {"ended", "read_comparison"}
  <2>1. CASE inv[p].action = "compare"
    <3>1. Becomes(p, Ended(inv[p], "ok"))
      BY <2>1 DEF WriteComparison, After
    <3> QED BY <1>1, <3>1, EndedFacts, BecomesFacts DEF Outcomes
  <2>2. CASE inv[p].action # "compare"
    <3>1. Becomes(p, Enter(inv[p], "synthesize", results))
      BY <2>2 DEF WriteComparison, After
    <3>2. Entered(Enter(inv[p], "synthesize", results), inv[p], "synthesize", results)
      BY <1>1, EnterFacts DEF TypeOK, Stages
    <3>3. Goes(p) /\ Entered(inv'[p], inv[p], "synthesize", results)
      BY <3>1, <3>2, BecomesFacts DEF Entered
    <3> QED BY <3>3 DEF Entered
  <2> QED BY <2>1, <2>2
<1>3. TypeOK'
  BY <1>1, <1>2 DEF TypeOK, Goes
<1>4. \A q \in Procs \ {p} : inv'[q] = inv[q]
  BY <1>2 DEF Goes
<1>5. \A q \in Procs : inv[q].pc # "idle" => inv'[q].pc # "idle" /\ inv'[q].action = inv[q].action
  BY <1>1, <1>2, <1>4
<1>6. comparison' # NoFile /\ Whole(comparison')
  BY <1>1, NothingIsApart DEF Whole
<1>7. Present'
  BY <1>1, <1>2, <1>4, <1>6 DEF PipelineInv, Present, Listed
<1>8. /\ SynthesisGrounded' /\ CompleteUnlessMishap'
      /\ Whole(synthesis)' => \A s \in Slots : synthesis'.plans[s] # NoFile =>
                                  inv'[synthesis'.plans[s].by].pc # "idle"
  BY <1>1, <1>5, SynthesisKept DEF PipelineInv
<1>9. \A s \in Slots : Whole(plans[s]) => plans[s].by \in Procs /\ inv[plans[s].by].pc # "idle"
  BY DEF PipelineInv, Honest, TypeOK, Whole, Plans
<1>10. Honest'
  BY <1>1, <1>2, <1>4, <1>5, <1>8, <1>9 DEF PipelineInv, Honest, Whole, Seen
<1>11. Alone'
  BY <1>1, <1>4, AloneKept DEF PipelineInv
<1>12. Current'
  <2> SUFFICES ASSUME "overlap" \notin mishaps PROVE Current'
    BY <1>1 DEF Current
  <2>1. /\ \A q \in Procs \ {p} : ~Active(q) /\ ~Active(q)'
        /\ inv[p].held.plans = plans
    BY <1>0, <1>1, <1>4 DEF PipelineInv, Alone, DraftInv
  <2> QED BY <1>1, <1>2, <2>1 DEF Current
<1>13. Filled'
  <2>1. Wanted' = Wanted
    BY <1>1 DEF Wanted, FanoutSlots
  <2> QED BY <1>1, <1>2, <1>4, <2>1 DEF PipelineInv, Filled, Listed
<1>14. Unasked'
  BY <1>1, <1>2, <1>4 DEF PipelineInv, Unasked, Listed
<1>15. Drafted'
  BY <1>1, <1>2, <1>4, <1>5, <1>6, DraftedKept DEF PipelineInv, Drafting, Listed
<1> QED BY <1>3, <1>7, <1>8, <1>10, <1>11, <1>12, <1>13, <1>14, <1>15 DEF PipelineInv

\* A plan that has everything and does not contradict passes the evaluation.
LEMMA PassesFacts ==
    ASSUME NEW ir, ir.enriched, ~Contradicts(ir)
    PROVE  EvaluationFailures(ir) = {}
BY DEF Contradicts, EvaluationFailures

\* What is synthesised is what the comparison was of, and all that was wanted.
LEMMA SynthesizeFacts ==
    ASSUME TypeOK, PipelineInv, NEW p \in Procs, Synthesize(p), UNCHANGED route
    PROVE  /\ TypeOK' /\ UNCHANGED <<results, plans, comparison, mishaps>>
           /\ \A q \in Procs \ {p} : inv'[q] = inv[q]
           /\ inv[p].pc = "write_synthesis"
           /\ inv'[p].pc = "ended" /\ inv'[p].action = inv[p].action
           /\ \A s \in Slots : synthesis'.plans[s] # NoFile => inv'[synthesis'.plans[s].by].pc # "idle"
           /\ SynthesisGrounded' /\ CompleteUnlessMishap'
<1> DEFINE d == inv[p].held
<1>1. /\ inv[p].pc = "write_synthesis" /\ inv[p] \in Invocations /\ DraftInv(p)
      /\ d.plans \in Snapshots /\ d.comparison \in Comparisons /\ d.comparison # Nothing
      /\ synthesis' = [plans |-> d.plans, comparison |-> d.comparison,
             status |-> IF d.comparison.contradictions = 0 THEN "ready" ELSE "needs_review"]
      /\ Becomes(p, Ended(inv[p], "ok"))
      /\ UNCHANGED <<results, plans, comparison, mishaps>>
  BY DEF Synthesize, TypeOK, Consistent, Drafts, PipelineInv, Drafted, Drafting
<1>2. Goes(p) /\ inv'[p].pc = "ended" /\ inv'[p].action = inv[p].action
  BY <1>1, EndedFacts, BecomesFacts DEF Outcomes
<1>3. \A q \in Procs : inv[q].pc # "idle" => inv'[q].pc # "idle" /\ inv'[q].action = inv[q].action
  BY <1>1, <1>2 DEF Goes
<1>4. synthesis' \in Syntheses
  BY <1>1 DEF Syntheses
<1>5. TypeOK'
  BY <1>1, <1>2, <1>4 DEF TypeOK, Goes
<1>6. \A s \in Slots : d.plans[s] # NoFile =>
        /\ Whole(d.plans[s]) /\ d.plans[s].by \in Procs /\ d.plans[s].ir.enriched
        /\ inv[d.plans[s].by].pc # "idle"
  BY <1>1, NothingIsApart DEF DraftInv, Whole, Snapshots, Plans
<1>7. \A s \in Slots : synthesis'.plans[s] # NoFile => inv'[synthesis'.plans[s].by].pc # "idle"
  BY <1>1, <1>3, <1>6
<1>8. comparison # NoFile /\ Seen(d.comparison)
  BY <1>1 DEF DraftInv
<1> HIDE DEF d
<1>9. SynthesisGrounded'
  <2> SUFFICES ASSUME "overlap" \notin mishaps, NEW s \in Slots,
                      ~(Whole(d.plans[s]) /\ inv'[d.plans[s].by].action = "normalize")
               PROVE  /\ d.plans[s] = d.comparison.plans[s]
                      /\ d.comparison.contradictions = 0 /\ d.plans[s] # NoFile
                            => ~Contradicts(d.plans[s].ir) /\ EvaluationFailures(d.plans[s].ir) = {}
    BY <1>1 DEF SynthesisGrounded
  <2>1. d.comparison = comparison /\ d.plans = plans
    BY <1>1 DEF DraftInv, d
  <2>2. Whole(comparison)
    BY <1>1, <1>8, <2>1, NothingIsApart DEF Whole
  <2>3. ~(Whole(plans[s]) /\ inv[plans[s].by].action = "normalize")
    BY <1>3, <1>6, <2>1 DEF Whole
  <2>4. plans[s] = comparison.plans[s]
    <3>1. plans[s] # Torn
      BY <1>1, <2>1, NothingIsApart DEF Snapshots
    <3> QED BY <2>2, <2>3, <3>1 DEF PipelineInv, Current
  <2>5. comparison.contradictions = 0 /\ plans[s] # NoFile =>
          plans[s].ir.enriched /\ ~Contradicts(plans[s].ir)
    BY <1>8, <2>1, <2>4 DEF Seen
  <2> QED BY <2>1, <2>4, <2>5, PassesFacts
<1>10. CompleteUnlessMishap'
  <2> SUFFICES ASSUME mishaps = {}, NEW s \in Wanted PROVE Whole(d.plans[s])
    BY <1>1 DEF CompleteUnlessMishap, Wanted, FanoutSlots
  <2>1. \A q \in Procs : ~Normalizing(q)
    BY <1>1 DEF PipelineInv, Alone, Active, Normalizing
  <2>2. Listed(plans) # {} /\ d.plans = plans
    BY <1>1 DEF DraftInv, d
  <2>3. s \in Listed(plans)
    BY <2>1, <2>2 DEF PipelineInv, Filled
  <2> QED BY <1>6, <2>2, <2>3 DEF Listed
<1> QED BY <1>1, <1>2, <1>5, <1>7, <1>9, <1>10 DEF Goes

\* A synthesis keeps the invariant.
LEMMA SynthesizeKeeps ==
    ASSUME TypeOK, PipelineInv, NEW p \in Procs, Synthesize(p), UNCHANGED route
    PROVE  TypeOK' /\ PipelineInv'
<1> USE DEF Calling, Normalizing, Active
<1>1. /\ TypeOK' /\ UNCHANGED <<route, results, plans, comparison, mishaps>>
      /\ \A q \in Procs \ {p} : inv'[q] = inv[q]
      /\ inv[p].pc = "write_synthesis"
      /\ inv'[p].pc = "ended" /\ inv'[p].action = inv[p].action
      /\ SynthesisGrounded' /\ CompleteUnlessMishap'
  BY SynthesizeFacts
<1>2. \A s \in Slots : synthesis'.plans[s] # NoFile => inv'[synthesis'.plans[s].by].pc # "idle"
  BY SynthesizeFacts
<1>3. \A q \in Procs : inv[q].pc # "idle" => inv'[q].pc # "idle" /\ inv'[q].action = inv[q].action
  BY <1>1
<1>4. Present'
  BY <1>1 DEF PipelineInv, Present, Listed
<1>5. \A s \in Slots : Whole(plans[s]) => plans[s].by \in Procs /\ inv[plans[s].by].pc # "idle"
  BY DEF PipelineInv, Honest, TypeOK, Whole, Plans
<1>6. Honest'
  BY <1>1, <1>2, <1>3, <1>5 DEF PipelineInv, Honest, Whole, Seen
<1>7. Alone'
  BY <1>1, AloneKept DEF PipelineInv
<1>8. Current'
  BY <1>1, <1>3, <1>5 DEF PipelineInv, Current, Whole
<1>9. Filled'
  <2>1. Wanted' = Wanted
    BY <1>1 DEF Wanted, FanoutSlots
  <2> QED BY <1>1, <2>1 DEF PipelineInv, Filled, Listed
<1>10. Unasked'
  BY <1>1 DEF PipelineInv, Unasked, Listed
<1>11. Drafted'
  BY <1>1, <1>3, DraftedKept DEF PipelineInv, Drafting, Listed
<1> QED BY <1>1, <1>4, <1>6, <1>7, <1>8, <1>9, <1>10, <1>11 DEF PipelineInv

\* A kill leaves at most one file torn, in a stage that is then known to be cut
\* short or that writes one file only.
LEMMA KillKeeps ==
    ASSUME TypeOK, PipelineInv, NEW p \in Procs, Kill(p), UNCHANGED route
    PROVE  TypeOK' /\ PipelineInv'
<1> USE DEF Calling, Normalizing, Active
<1>1. /\ inv[p].pc \notin {"idle", "ended"} /\ inv[p] \in Invocations
      /\ inv[p].todo \in Seq(Slots)
  BY DEF Kill, TypeOK, Invocations
<1>2. Goes(p) /\ inv'[p].pc = "ended" /\ inv'[p].action = inv[p].action
  <2>1. Becomes(p, Ended(inv[p], "killed"))
    BY DEF Kill
  <2> QED BY <1>1, <2>1, EndedFacts, BecomesFacts DEF Outcomes
<1>3. PICK half \in BOOLEAN :
        /\ results' = IF half /\ inv[p].pc = "store"
                      THEN [results EXCEPT ![Head(inv[p].todo)] = Torn] ELSE results
        /\ plans' = IF half /\ inv[p].pc = "normalize"
                    THEN [plans EXCEPT ![Head(inv[p].todo)] = Torn] ELSE plans
        /\ comparison' = IF half /\ inv[p].pc = "write_comparison" THEN Torn ELSE comparison
        /\ synthesis' = IF half /\ inv[p].pc = "write_synthesis" THEN Torn ELSE synthesis
        /\ mishaps' = IF inv[p].pc \in {"call", "store", "normalize"}
                      THEN mishaps \cup {"cut_short"} ELSE mishaps
  BY DEF Kill
<1> DEFINE h == Head(inv[p].todo)
<1>4. /\ results' = results \/ (results' = [results EXCEPT ![h] = Torn] /\ inv[p].pc = "store")
      /\ plans' = plans \/ (plans' = [plans EXCEPT ![h] = Torn] /\ inv[p].pc = "normalize")
      /\ comparison' = comparison \/ (comparison' = Torn /\ inv[p].pc = "write_comparison")
      /\ synthesis' = synthesis \/ synthesis' = Torn
  <2>1. CASE half
    BY <1>3, <2>1
  <2>2. CASE ~half
    BY <1>3, <2>2
  <2> QED BY <2>1, <2>2
<1> HIDE DEF h
<1>5. /\ results' \in [Slots -> Results \cup {NoFile, Torn}]
      /\ \A s \in Slots : results'[s] = results[s] \/ (results'[s] = Torn /\ inv[p].pc = "store")
      /\ plans' \in [Slots -> Plans \cup {NoFile, Torn}]
      /\ \A s \in Slots : plans'[s] = plans[s] \/ (plans'[s] = Torn /\ inv[p].pc = "normalize")
  BY <1>4 DEF TypeOK
<1>6. /\ mishaps \subseteq mishaps' /\ mishaps' \subseteq Mishaps
      /\ inv[p].pc \in {"call", "store", "normalize"} => mishaps' # {}
  BY <1>3 DEF TypeOK, Mishaps
<1>7. \A q \in Procs \ {p} : inv'[q] = inv[q]
  BY <1>2 DEF Goes
<1>8. TypeOK'
  BY <1>2, <1>4, <1>5, <1>6 DEF TypeOK, Goes
<1>9. \A q \in Procs : inv[q].pc # "idle" => inv'[q].pc # "idle" /\ inv'[q].action = inv[q].action
  BY <1>2, <1>7
<1>10. Listed(results) \subseteq Listed(results') /\ Listed(plans) \subseteq Listed(plans')
  BY <1>5, NothingIsApart DEF Listed
<1>11. Present'
  <2>1. comparison' # NoFile => Listed(plans') # {}
    <3>1. comparison # NoFile \/ inv[p].pc = "write_comparison" => Listed(plans) # {}
      BY DEF PipelineInv, Present, Drafted, Drafting, DraftInv
    <3>2. comparison' # NoFile => comparison # NoFile \/ inv[p].pc = "write_comparison"
      BY <1>4
    <3> QED BY <1>10, <3>1, <3>2
  <2>2. comparison # NoFile => comparison' # NoFile
    BY <1>4, NothingIsApart
  <2> QED BY <1>2, <1>7, <1>10, <2>1, <2>2 DEF PipelineInv, Present
<1>12. /\ SynthesisGrounded' /\ CompleteUnlessMishap'
       /\ Whole(synthesis)' => \A s \in Slots : synthesis'.plans[s] # NoFile =>
                                   inv'[synthesis'.plans[s].by].pc # "idle"
  BY <1>4, <1>6, <1>9, SynthesisKept DEF PipelineInv
<1>13. \A s \in Slots : Whole(plans[s]) => plans[s].by \in Procs /\ inv[plans[s].by].pc # "idle"
  BY DEF PipelineInv, Honest, TypeOK, Whole, Plans
<1>14. Honest'
  <2>1. \A s \in Slots : Whole(plans'[s]) =>
          plans'[s].ir.enriched /\ inv'[plans'[s].by].pc # "idle"
    BY <1>5, <1>9, <1>13 DEF PipelineInv, Honest, Whole
  <2>2. Whole(comparison') => Seen(comparison')
    BY <1>4 DEF PipelineInv, Honest, Whole
  <2> QED BY <1>2, <1>7, <1>12, <2>1, <2>2 DEF PipelineInv, Honest, Whole, Seen
<1>15. Alone'
  BY <1>1, <1>2, <1>6, <1>7, AloneKept DEF PipelineInv
<1>16. Current'
  <2> SUFFICES ASSUME "overlap" \notin mishaps' PROVE Current'
    BY DEF Current
  <2>1. "overlap" \notin mishaps /\ \A q \in Procs \ {p} : ~Active(q) /\ ~Active(q)'
    BY <1>1, <1>6, <1>7 DEF PipelineInv, Alone
  <2>2. Whole(comparison') => \A s \in Slots :
          \/ plans'[s] = comparison'.plans[s]
          \/ plans'[s] = Torn
          \/ Whole(plans'[s]) /\ inv'[plans'[s].by].action = "normalize"
    BY <1>4, <1>5, <1>9, <1>13, <2>1 DEF PipelineInv, Current, Whole
  <2> QED BY <1>2, <2>1, <2>2 DEF Current
<1>17. Filled'
  <2>1. Wanted' = Wanted
    BY DEF Wanted, FanoutSlots
  <2> SUFFICES ASSUME mishaps' = {} PROVE Filled'
    BY DEF Filled
  <2>2. /\ mishaps = {} /\ results' = results /\ plans' = plans
        /\ ~Calling(p) /\ ~Normalizing(p)
    BY <1>4, <1>6
  <2> QED BY <1>2, <1>7, <2>1, <2>2 DEF PipelineInv, Filled, Listed
<1>18. Unasked'
  <2> SUFFICES ASSUME NEW q \in Procs, Calling(q)'
               PROVE  /\ NoRepeat(inv'[q].todo)
                      /\ \/ inv'[q].action = "fanout"
                         \/ mishaps' \cap {"overlap", "deposit"} # {}
                         \/ Elements(inv'[q].todo) \cap Listed(results') = {}
    BY DEF Unasked
  <2>1. q # p /\ inv'[q] = inv[q] /\ Calling(q)
    BY <1>2, <1>7
  <2>2. "overlap" \in mishaps'
    BY <1>1, <1>6, <2>1 DEF PipelineInv, Alone
  <2> QED BY <2>1, <2>2 DEF PipelineInv, Unasked
<1>19. Drafted'
  <2>1. Listed(plans) # {} => Listed(plans') # {}
    BY <1>10
  <2>2. comparison # NoFile => comparison' # NoFile
    BY <1>4, NothingIsApart
  <2> QED BY <1>1, <1>2, <1>6, <1>7, <1>9, <2>1, <2>2, DraftedKept DEF PipelineInv, Drafting
<1> QED BY <1>8, <1>11, <1>12, <1>14, <1>15, <1>16, <1>17, <1>18, <1>19 DEF PipelineInv

\* A result that somebody saves is a mishap the invariant knows of.
LEMMA DepositKeeps ==
    ASSUME TypeOK, PipelineInv, NEW s \in Deposits, Deposit(s), UNCHANGED route
    PROVE  TypeOK' /\ PipelineInv'
<1> USE DEF Calling, Normalizing, Active
<1>1. /\ UNCHANGED <<route, plans, comparison, synthesis, inv>>
      /\ mishaps \subseteq mishaps' /\ mishaps' \subseteq Mishaps /\ "deposit" \in mishaps'
  BY DEF Deposit, TypeOK, Mishaps
<1>2. PICK text \in BOOLEAN : results' = [results EXCEPT ![s] = [by |-> Operator, text |-> text]]
  BY DEF Deposit
<1>3. [by |-> Operator, text |-> text] \in Results
  BY DEF Results
<1>4. results' \in [Slots -> Results \cup {NoFile, Torn}] /\ Listed(results) \subseteq Listed(results')
  BY <1>2, <1>3, SourcesKnown, NothingIsApart DEF TypeOK, Listed
<1>5. TypeOK'
  BY <1>1, <1>4 DEF TypeOK
<1>6. Present'
  BY <1>1, <1>4 DEF PipelineInv, Present, Listed
<1>7. SynthesisGrounded' /\ CompleteUnlessMishap'
  BY <1>1, SynthesisKept DEF PipelineInv
<1>8. Honest'
  BY <1>1 DEF PipelineInv, Honest, Whole, Seen
<1>9. Alone'
  BY <1>1, AloneKept DEF PipelineInv
<1>10. Current'
  BY <1>1 DEF PipelineInv, Current, Whole
<1>11. Filled'
  BY <1>1 DEF Filled
<1>12. Unasked'
  BY <1>1 DEF PipelineInv, Unasked
<1>13. Drafted'
  BY <1>1 DEF PipelineInv, Drafted, Drafting, DraftInv, Listed, Seen
<1> QED BY <1>5, <1>6, <1>7, <1>8, <1>9, <1>10, <1>11, <1>12, <1>13 DEF PipelineInv

-----------------------------------------------------------------------------
(* The theorems. *)

\* A run directory begins empty.
LEMMA InitHolds == ASSUME Init PROVE TypeOK /\ PipelineInv
<1>1. <<>> \in Seq(Slots)
  OBVIOUS
<1>2. TypeOK
  BY <1>1 DEF Init, TypeOK, Consistent, Invocations, PCs, Actions, Stages, Mishaps
<1>3. \A p \in Procs : inv[p].pc = "idle"
  BY DEF Init
<1>4. Listed(results) = {} /\ Listed(plans) = {}
  BY DEF Init, Listed
<1>5. /\ \A s \in Slots : ~Whole(plans[s]) /\ results[s] # Torn /\ plans[s] # Torn
      /\ ~Whole(comparison) /\ ~Whole(synthesis) /\ comparison = NoFile
  BY NothingIsApart DEF Init, Whole
<1>6. Present /\ Honest /\ Alone /\ Current /\ Filled /\ Unasked
  BY <1>3, <1>4, <1>5 DEF Present, Honest, Alone, Current, Filled, Unasked,
     Active, Calling, Normalizing
<1>7. SynthesisGrounded /\ CompleteUnlessMishap
  BY <1>5 DEF SynthesisGrounded, CompleteUnlessMishap
<1>8. Drafted
  BY <1>3 DEF Drafted, Drafting
<1> QED BY <1>2, <1>6, <1>7, <1>8 DEF PipelineInv

\* Every step keeps the types and the invariant.
LEMMA StepKeeps == TypeOK /\ PipelineInv /\ [Next]_vars => (TypeOK /\ PipelineInv)'
<1> SUFFICES ASSUME TypeOK, PipelineInv, [Next]_vars PROVE TypeOK' /\ PipelineInv'
  OBVIOUS
<1>1. CASE UNCHANGED vars
  <2>1. UNCHANGED <<route, results, plans, comparison, synthesis, inv, mishaps>>
    BY <1>1 DEF vars, files
  <2>2. TypeOK'
    BY <2>1 DEF TypeOK
  <2>3. Present' /\ Honest' /\ Alone' /\ Current'
    BY <2>1 DEF PipelineInv, Present, Honest, Alone, Current, Active, Calling, Normalizing,
       Listed, Whole, Seen
  <2>4. Filled' /\ Unasked'
    <3>1. Wanted' = Wanted
      BY <2>1 DEF Wanted, FanoutSlots
    <3>2. Filled'
      BY <2>1, <3>1 DEF PipelineInv, Filled, Calling, Normalizing, Listed
    <3> QED BY <2>1, <3>2 DEF PipelineInv, Unasked, Calling, Listed
  <2>5. SynthesisGrounded' /\ CompleteUnlessMishap'
    BY <2>1, SynthesisKept DEF PipelineInv
  <2>6. Drafted'
    BY <2>1 DEF PipelineInv, Drafted, Drafting, DraftInv, Listed, Seen
  <2> QED BY <2>2, <2>3, <2>4, <2>5, <2>6 DEF PipelineInv
<1>2. CASE Finished
  BY <1>1, <1>2 DEF Finished
<1>3. CASE Next /\ ~Finished
  <2>1. /\ UNCHANGED route
        /\ \/ \E p \in Procs : \/ Begin(p) \/ Step(p) \/ Replay(p) \/ CheckCache(p)
                               \/ ReadsHalf(p) \/ Kill(p)
           \/ \E s \in Deposits : Deposit(s)
    BY <1>3 DEF Next
  <2>2. ASSUME NEW p \in Procs, Begin(p) \/ Step(p) \/ ReadsHalf(p) \/ Kill(p)
        PROVE  TypeOK' /\ PipelineInv'
    <3>1. CASE Begin(p) \/ ReadsHalf(p) \/ Kill(p)
      BY <2>1, <3>1, BeginKeeps, ReadsHalfKeeps, KillKeeps
    <3>2. CASE Step(p)
      BY <2>1, <3>2, CallKeeps, StoreKeeps, NormalizeKeeps, ListPlansKeeps, ReadPlanKeeps,
         WriteComparisonKeeps, ReadComparisonKeeps, SynthesizeKeeps DEF Step
    <3> QED BY <2>2, <3>1, <3>2
  <2>3. ASSUME NEW p \in Procs, Replay(p) \/ CheckCache(p) PROVE TypeOK' /\ PipelineInv'
    <3>1. \E action \in Actions, ok \in BOOLEAN : Looks(p, action, ok)
      <4>1. CASE Replay(p)
        <5>1. PICK s \in Slots, forced \in BOOLEAN :
                \/ Looks(p, "replay", results[s] # Torn /\ ReplayOk(results[s], forced))
                \/ Looks(p, "replay", plans[s] # Torn /\ EvaluationFailures(plans[s].ir) = {})
          BY <4>1 DEF Replay
        <5>2. Looks(p, "replay", TRUE) \/ Looks(p, "replay", FALSE)
          BY <5>1 DEF Looks
        <5> QED BY <5>2 DEF Actions
      <4>2. CASE CheckCache(p)
        <5>1. Looks(p, "check_cache", TRUE) \/ Looks(p, "check_cache", FALSE)
          BY <4>2 DEF CheckCache, Looks
        <5> QED BY <5>1 DEF Actions
      <4> QED BY <2>3, <4>1, <4>2
    <3> QED BY <2>1, <3>1, LooksKeeps
  <2> QED BY <2>1, <2>2, <2>3, DepositKeeps
<1> QED BY <1>1, <1>2, <1>3

\* Every variable keeps its type, whatever the invocations, routes and slots.
THEOREM TypeCorrect == Spec => []TypeOK
BY InitHolds, StepKeeps, PTL DEF Spec

\* The invariant that the properties rest on.
THEOREM PipelineHolds == Spec => []PipelineInv
BY InitHolds, StepKeeps, PTL DEF Spec

\* Without a mishap a synthesis is of all the plans the route asks for.
THEOREM NothingMissing == Spec => []CompleteUnlessMishap
<1>1. PipelineInv => CompleteUnlessMishap
  BY DEF PipelineInv
<1> QED BY <1>1, PipelineHolds, PTL

\* While invocations do not overlap, the synthesis says nothing of its plans
\* that is not so, but for those of a later explicit normalize.
THEOREM SynthesisTrue == Spec => []SynthesisGrounded
<1>1. PipelineInv => SynthesisGrounded
  BY DEF PipelineInv
<1> QED BY <1>1, PipelineHolds, PTL

\* No provider that has answered is asked again but by an explicit fan-out, or
\* when invocations overlapped or a result was saved by hand.
THEOREM AskedOnce == Spec => AnsweredOnce
<1>1. TypeOK /\ PipelineInv /\ [Next]_vars =>
        [\A p \in Procs :
            /\ inv[p].pc = "call" /\ inv'[p].pc = "store"
            /\ Whole(results[Head(inv[p].todo)])
            => inv[p].action = "fanout" \/ mishaps \cap {"overlap", "deposit"} # {}]_vars
  <2> SUFFICES ASSUME TypeOK, PipelineInv, NEW p \in Procs, inv[p].pc = "call",
                      Whole(results[Head(inv[p].todo)]), inv[p].action # "fanout"
               PROVE  mishaps \cap {"overlap", "deposit"} # {}
    OBVIOUS
  <2>1. inv[p].todo \in Seq(Slots) /\ inv[p].todo # <<>>
    BY DEF TypeOK, Consistent, Invocations
  <2>2. Head(inv[p].todo) \in Elements(inv[p].todo) /\ Head(inv[p].todo) \in Slots
    BY <2>1, HeadAndTail
  <2>3. Head(inv[p].todo) \in Listed(results)
    BY <2>2 DEF Listed, Whole
  <2> QED BY <2>2, <2>3 DEF PipelineInv, Unasked, Calling
<1> QED BY <1>1, TypeCorrect, PipelineHolds, PTL DEF AnsweredOnce, Spec
=============================================================================
