--------------------------- MODULE BeadExportProofs ---------------------------
(***************************************************************************)
(* Proofs about module BeadExport, for every set of plans, of any length,  *)
(* with any dependencies, and for any number of invocations and edits.     *)
(*                                                                         *)
(* Of export-beads.py: an invocation has said something of the items it    *)
(* has behind it, in the order of the plan it read, and has the others     *)
(* still to do (Told); the tracker has a bead for each line that claims    *)
(* one, and for each silent one (Counted).                                 *)
(*                                                                         *)
(* Of plan-export-beads.py: a saved export that nobody has edited is the   *)
(* one that was made, and one that was only struck from or only added to   *)
(* has fewer or more operations (Saved).  What it was made as is known     *)
(* from the operations of the plan's items one after the other (Laid).     *)
(***************************************************************************)
EXTENDS BeadExport, FiniteSetTheorems, WellFoundedInduction, TLAPS

AllItems == UNION {PlanItems(p) : p \in Plans}
Sayings == [item : Items, status : {"proposed", "created", "failed"}]
Progress == [pc : {"idle", "items", "ok", "failed", "killed"}, dry : BOOLEAN,
             read : Seq(AllItems), todo : Seq(AllItems), said : Seq(Sayings)]

ExportTypes ==
    /\ plan \in Plans
    /\ beads \in [Items -> Nat] /\ silent \in [Items -> Nat]
    /\ exp \in [Exporters -> Progress]

\* What an invocation may say of an item.
Answers(x) == IF x.dry THEN {"proposed"} ELSE {"created", "failed"}

\* What x says is about the items of the plan it read, one after the other.
ToldOf(x) ==
    /\ Len(x.said) + Len(x.todo) = Len(x.read)
    /\ \A k \in 1..Len(x.said) :
         /\ x.said[k].item = x.read[k].id
         /\ x.said[k].status \in Answers(x)
    /\ \A k \in 1..Len(x.todo) : x.todo[k] = x.read[Len(x.said) + k]
    /\ x.pc = "idle" => x.said = <<>>
    /\ x.pc = "ok" => x.todo = <<>> /\ \A k \in 1..Len(x.said) : x.said[k].status # "failed"

Told == \A p \in Exporters : ToldOf(exp[p])

\* The tracker has a bead of an item for each claim, and the silent ones.
Counted ==
    \A i \in Items : IsFiniteSet(Claims(i)) /\ beads[i] = Cardinality(Claims(i)) + silent[i]

ExportInv == ExportTypes /\ Told /\ Counted
-----------------------------------------------------------------------------
(* What is said, and what it claims. *)

\* A sequence of some things is one of more things.
LEMMA SeqOfMore ==
    ASSUME NEW S, NEW T, S \subseteq T, NEW s \in Seq(S)
    PROVE  s \in Seq(T)
OBVIOUS

\* The items of a plan are items.
LEMMA PlansOfItems ==
    ASSUME NEW p \in Plans
    PROVE  p.items \in Seq(AllItems)
<1>1. p.items \in Seq(PlanItems(p)) /\ PlanItems(p) \subseteq AllItems
  BY PlansAreOfItems DEF AllItems
<1> HIDE DEF AllItems
<1> QED BY <1>1, SeqOfMore

\* Every item has an id.
LEMMA ItemsHaveIds == \A item \in AllItems : item.id \in Items
BY PlansAreOfItems DEF AllItems

\* A claim is a line of an invocation.
LEMMA ClaimIs ==
    ASSUME NEW i, NEW c
    PROVE  c \in Claims(i) <=> \E p \in Exporters : \E k \in DOMAIN exp[p].said :
                                   c = <<p, k>> /\ exp[p].said[k] = Said([id |-> i], "created")
BY DEF Claims

\* Who says nothing claims nothing.
LEMMA ClaimsKept ==
    ASSUME \A p \in Exporters : exp'[p].said = exp[p].said, NEW i
    PROVE  Claims(i)' = Claims(i)
BY DEF Claims, Said

\* A line that is said of an item claims a bead of that item, if it says so.
LEMMA ClaimsGrow ==
    ASSUME exp \in [Exporters -> Progress], NEW p \in Exporters, NEW line \in Sayings, NEW rest,
           exp' = [exp EXCEPT ![p].todo = rest, ![p].said = Append(@, line)], NEW i \in Items
    PROVE  LET c == <<p, Len(exp[p].said) + 1>> IN
           /\ c \notin Claims(i)
           /\ Claims(i)' = IF line = Said([id |-> i], "created") THEN Claims(i) \cup {c} ELSE Claims(i)
<1> DEFINE c == <<p, Len(exp[p].said) + 1>>
           sure == Said([id |-> i], "created")
<1>1. /\ exp'[p].said = Append(exp[p].said, line)
      /\ \A q \in Exporters : q # p => exp'[q].said = exp[q].said
      /\ exp[p].said \in Seq(Sayings)
  BY DEF Progress
<1>2. /\ DOMAIN exp[p].said = 1..Len(exp[p].said) /\ Len(exp[p].said) \in Nat
      /\ DOMAIN exp'[p].said = 1..(Len(exp[p].said) + 1)
      /\ exp'[p].said[Len(exp[p].said) + 1] = line
      /\ \A k \in 1..Len(exp[p].said) : exp'[p].said[k] = exp[p].said[k]
  <2> DEFINE s == exp[p].said
             S == Sayings
  <2>1. s \in Seq(S) /\ line \in S /\ exp'[p].said = Append(s, line)
    BY <1>1
  <2> HIDE DEF s, S
  <2>2. /\ DOMAIN s = 1..Len(s) /\ Len(s) \in Nat
        /\ DOMAIN Append(s, line) = 1..(Len(s) + 1)
        /\ Append(s, line)[Len(s) + 1] = line
        /\ \A k \in 1..Len(s) : Append(s, line)[k] = s[k]
    BY <2>1
  <2> QED BY <2>1, <2>2 DEF s
<1>3. c \notin Claims(i)
  <2>1. Len(exp[p].said) + 1 \notin 1..Len(exp[p].said)
    BY <1>2
  <2> SUFFICES ASSUME c \in Claims(i) PROVE FALSE
    OBVIOUS
  <2>2. PICK q \in Exporters : \E k \in DOMAIN exp[q].said : c = <<q, k>>
    BY ClaimIs
  <2>3. PICK k \in DOMAIN exp[q].said : c = <<q, k>>
    BY <2>2
  <2>4. q = p /\ k = Len(exp[p].said) + 1
    BY <2>3
  <2> QED BY <1>2, <2>1, <2>3, <2>4
<1>4. \A d : d \in Claims(i)' <=> \E q \in Exporters : \E k \in DOMAIN exp'[q].said :
                                   d = <<q, k>> /\ exp'[q].said[k] = sure
  BY DEF Claims, Said
<1>5. \A d : d \in Claims(i)' <=> d \in Claims(i) \/ (line = sure /\ d = c)
  <2> TAKE d
  <2>1. ASSUME d \in Claims(i)' PROVE d \in Claims(i) \/ (line = sure /\ d = c)
    <3>0. PICK q \in Exporters : \E k \in DOMAIN exp'[q].said : d = <<q, k>> /\ exp'[q].said[k] = sure
      BY <1>4, <2>1
    <3>1. PICK k \in DOMAIN exp'[q].said : d = <<q, k>> /\ exp'[q].said[k] = sure
      BY <3>0
    <3>2. CASE q # p
      BY <1>1, <3>1, <3>2, ClaimIs
    <3>3. CASE q = p /\ k \in 1..Len(exp[p].said)
      BY <1>2, <3>1, <3>3, ClaimIs
    <3>4. CASE q = p /\ k = Len(exp[p].said) + 1
      BY <1>2, <3>1, <3>4
    <3>5. q = p => k \in 1..Len(exp[p].said) \/ k = Len(exp[p].said) + 1
      BY <1>2, <3>1
    <3> QED BY <3>2, <3>3, <3>4, <3>5
  <2>2. ASSUME d \in Claims(i) PROVE d \in Claims(i)'
    <3>0. PICK q \in Exporters : \E k \in DOMAIN exp[q].said : d = <<q, k>> /\ exp[q].said[k] = sure
      BY <2>2, ClaimIs
    <3>1. PICK k \in DOMAIN exp[q].said : d = <<q, k>> /\ exp[q].said[k] = sure
      BY <3>0
    <3>2. k \in DOMAIN exp'[q].said /\ exp'[q].said[k] = exp[q].said[k]
      BY <1>1, <1>2, <3>1
    <3> QED BY <1>4, <3>1, <3>2
  <2>3. ASSUME line = sure, d = c PROVE d \in Claims(i)'
    <3>1. Len(exp[p].said) + 1 \in DOMAIN exp'[p].said
      BY <1>2
    <3> QED BY <1>2, <1>4, <2>3, <3>1
  <2> QED BY <2>1, <2>2, <2>3
<1> HIDE DEF c, sure
<1>6. Claims(i)' = IF line = sure THEN Claims(i) \cup {c} ELSE Claims(i)
  BY <1>5
<1> QED BY <1>3, <1>6 DEF c, sure

\* x after it has said something of the first item that is left.
After(x, status) ==
    [pc |-> x.pc, dry |-> x.dry, read |-> x.read, todo |-> Tail(x.todo),
     said |-> Append(x.said, Said(Head(x.todo), status))]

\* Saying something of the first item that is left keeps the account of what
\* was said.
LEMMA SayingOne ==
    ASSUME NEW x \in Progress, ToldOf(x), x.todo # <<>>, x.pc = "items",
           NEW status \in Answers(x)
    PROVE  /\ After(x, status) \in Progress /\ ToldOf(After(x, status))
           /\ Head(x.todo) \in AllItems
           /\ Head(x.todo).id \in Items
           /\ Said(Head(x.todo), status) \in Sayings
<1> DEFINE line == Said(Head(x.todo), status)
           y == After(x, status)
<1>1. x.todo \in Seq(AllItems) /\ x.said \in Seq(Sayings) /\ x.read \in Seq(AllItems)
  BY DEF Progress
<1>2. /\ Len(x.todo) \in Nat /\ Len(x.todo) > 0 /\ Head(x.todo) = x.todo[1] /\ x.todo[1] \in AllItems
      /\ Tail(x.todo) \in Seq(AllItems) /\ Len(Tail(x.todo)) = Len(x.todo) - 1
      /\ \A k \in 1..(Len(x.todo) - 1) : Tail(x.todo)[k] = x.todo[k + 1]
  <2> DEFINE s == x.todo
             S == AllItems
  <2>1. s \in Seq(S) /\ s # <<>>
    BY <1>1
  <2> HIDE DEF s, S
  <2>2. /\ Len(s) \in Nat /\ Len(s) > 0 /\ Head(s) = s[1] /\ s[1] \in S
        /\ Tail(s) \in Seq(S) /\ Len(Tail(s)) = Len(s) - 1
        /\ \A k \in 1..(Len(s) - 1) : Tail(s)[k] = s[k + 1]
    BY <2>1
  <2> QED BY <2>2 DEF s, S
<1>3. line \in Sayings /\ line.item = x.todo[1].id /\ line.status = status /\ Head(x.todo).id \in Items
  BY <1>2, ItemsHaveIds DEF Said, Sayings, Answers
<1>4. /\ Append(x.said, line) \in Seq(Sayings) /\ Len(Append(x.said, line)) = Len(x.said) + 1
      /\ Append(x.said, line)[Len(x.said) + 1] = line /\ Len(x.said) \in Nat
      /\ \A k \in 1..Len(x.said) : Append(x.said, line)[k] = x.said[k]
  <2> DEFINE s == x.said
             S == Sayings
  <2>1. s \in Seq(S) /\ line \in S
    BY <1>1, <1>3
  <2> HIDE DEF s, S, line
  <2>2. /\ Append(s, line) \in Seq(S) /\ Len(Append(s, line)) = Len(s) + 1
        /\ Append(s, line)[Len(s) + 1] = line /\ Len(s) \in Nat
        /\ \A k \in 1..Len(s) : Append(s, line)[k] = s[k]
    BY <2>1
  <2> QED BY <2>2 DEF s, S
<1>5. /\ y.todo = Tail(x.todo) /\ y.said = Append(x.said, line)
      /\ y.pc = x.pc /\ y.dry = x.dry /\ y.read = x.read
      /\ y \in Progress
  BY <1>2, <1>4 DEF Progress, After
<1> HIDE DEF y
<1>6. Answers(y) = Answers(x)
  BY <1>5 DEF Answers
<1>7. /\ Len(x.said) + Len(x.todo) = Len(x.read)
      /\ \A k \in 1..Len(x.said) : x.said[k].item = x.read[k].id /\ x.said[k].status \in Answers(x)
      /\ \A k \in 1..Len(x.todo) : x.todo[k] = x.read[Len(x.said) + k]
  BY DEF ToldOf
<1> HIDE DEF line
<1> DEFINE n == Len(x.said)
           m == Len(x.todo)
<1>8. n \in Nat /\ m \in Nat /\ m > 0 /\ n + m = Len(x.read)
  BY <1>2, <1>4, <1>7
<1>9. Len(y.said) = n + 1 /\ Len(y.todo) = m - 1 /\ Len(y.read) = Len(x.read)
  BY <1>2, <1>4, <1>5
<1>10. /\ x.todo[1] = x.read[n + 1]
       /\ \A k \in 1..n : y.said[k] = x.said[k]
       /\ y.said[n + 1] = line
       /\ \A k \in 1..(m - 1) : y.todo[k] = x.todo[k + 1]
       /\ \A k \in 1..n : x.said[k].item = x.read[k].id /\ x.said[k].status \in Answers(x)
       /\ \A k \in 1..m : x.todo[k] = x.read[n + k]
  BY <1>2, <1>4, <1>5, <1>7
<1> HIDE DEF n, m
<1>11. \A k \in 1..(n + 1) : y.said[k].item = y.read[k].id /\ y.said[k].status \in Answers(y)
  <2> TAKE k \in 1..(n + 1)
  <2>1. CASE k \in 1..n
    BY <1>5, <1>6, <1>10, <2>1
  <2>2. CASE k = n + 1
    BY <1>3, <1>5, <1>6, <1>10, <2>2
  <2>3. k \in 1..n \/ k = n + 1
    BY <1>8
  <2> QED BY <2>1, <2>2, <2>3
<1>12. \A k \in 1..(m - 1) : y.todo[k] = y.read[(n + 1) + k]
  <2> TAKE k \in 1..(m - 1)
  <2>1. k + 1 \in 1..m /\ n + (k + 1) = (n + 1) + k
    BY <1>8
  <2>2. x.todo[k + 1] = x.read[n + (k + 1)]
    BY <1>10, <2>1
  <2> QED BY <1>5, <1>10, <2>1, <2>2
<1>13. (n + 1) + (m - 1) = n + m
  BY <1>8
<1>14. ToldOf(y)
  BY <1>5, <1>8, <1>9, <1>11, <1>12, <1>13 DEF ToldOf
<1> QED BY <1>2, <1>3, <1>5, <1>14 DEF line, y

\* So does the step of an invocation that says it.
LEMMA SaysTold ==
    ASSUME ExportTypes, Told, NEW p \in Exporters, exp[p].todo # <<>>, exp[p].pc = "items",
           NEW status \in Answers(exp[p]), Says(p, status)
    PROVE  /\ exp' \in [Exporters -> Progress] /\ Told'
           /\ Head(exp[p].todo).id \in Items
           /\ Said(Head(exp[p].todo), status) \in Sayings
<1>1. exp[p] \in Progress /\ ToldOf(exp[p]) /\ exp \in [Exporters -> Progress]
  BY DEF ExportTypes, Told
<1>2. /\ exp'[p] = After(exp[p], status)
      /\ \A q \in Exporters : q # p => exp'[q] = exp[q]
      /\ exp' = [exp EXCEPT ![p] = exp'[p]]
  BY <1>1 DEF Says, Progress, After
<1>3. /\ exp'[p] \in Progress /\ ToldOf(exp'[p])
      /\ Head(exp[p].todo).id \in Items
      /\ Said(Head(exp[p].todo), status) \in Sayings
  BY <1>1, <1>2, SayingOne
<1>4. exp' \in [Exporters -> Progress]
  BY <1>1, <1>2, <1>3
<1>5. \A q \in Exporters : ToldOf(exp'[q])
  BY <1>2, <1>3 DEF Told
<1>6. Told'
  BY <1>5 DEF Told, ToldOf, Answers
<1> QED BY <1>3, <1>4, <1>6

-----------------------------------------------------------------------------
(* The steps of export-beads.py. *)

\* One thing more that is said claims one bead more of its item, if it is that
\* a bead was created.
LEMMA SaysCounted ==
    ASSUME ExportInv, NEW p \in Exporters, exp[p].todo # <<>>, exp[p].pc = "items",
           NEW status \in Answers(exp[p]), Says(p, status), NEW i \in Items
    PROVE  /\ IsFiniteSet(Claims(i)') /\ Cardinality(Claims(i)) \in Nat
           /\ Cardinality(Claims(i)') = Cardinality(Claims(i))
                  + IF status = "created" /\ Head(exp[p].todo).id = i THEN 1 ELSE 0
<1> DEFINE line == Said(Head(exp[p].todo), status)
           c == <<p, Len(exp[p].said) + 1>>
<1>1. ExportTypes /\ Told /\ IsFiniteSet(Claims(i)) /\ exp \in [Exporters -> Progress]
  BY DEF ExportInv, Counted, ExportTypes
<1>2. line \in Sayings
  BY <1>1, SaysTold
<1>3. line = Said([id |-> i], "created") <=> status = "created" /\ Head(exp[p].todo).id = i
  BY DEF Said
<1>4. exp' = [exp EXCEPT ![p].todo = Tail(@), ![p].said = Append(@, line)]
  BY DEF Says
<1>4a. exp' = [exp EXCEPT ![p].todo = Tail(exp[p].todo), ![p].said = Append(@, line)]
  BY <1>1, <1>4
<1>5. /\ c \notin Claims(i)
      /\ Claims(i)' = IF line = Said([id |-> i], "created") THEN Claims(i) \cup {c} ELSE Claims(i)
  <2> DEFINE rest == Tail(exp[p].todo)
  <2> HIDE DEF line, rest
  <2>1. exp' = [exp EXCEPT ![p].todo = rest, ![p].said = Append(@, line)]
    BY <1>4a DEF rest
  <2> QED BY <1>1, <1>2, <2>1, ClaimsGrow
<1>6. /\ IsFiniteSet(Claims(i) \cup {c}) /\ Cardinality(Claims(i)) \in Nat
      /\ Cardinality(Claims(i) \cup {c}) = Cardinality(Claims(i)) + 1
  BY <1>1, <1>5, FS_AddElement, FS_CardinalityType
<1> HIDE DEF line, c
<1>7. CASE line = Said([id |-> i], "created")
  BY <1>3, <1>5, <1>6, <1>7
<1>8. CASE line # Said([id |-> i], "created")
  BY <1>1, <1>3, <1>5, <1>6, <1>8
<1> QED BY <1>7, <1>8

\* Each way to deal with an item keeps what is known of the invocations.
LEMMA ItemKeepsInv ==
    ASSUME ExportInv, NEW p \in Exporters, ExportItem(p)
    PROVE  ExportInv'
<1> DEFINE h == Head(exp[p].todo).id
<1>1. /\ exp[p].pc = "items" /\ exp[p].todo # <<>> /\ plan' = plan
      /\ Proposes(p) \/ CreatesBead(p) \/ CreatesSilently(p) \/ FailsToCreate(p)
  BY DEF ExportItem
<1>2. /\ ExportTypes /\ Told /\ beads \in [Items -> Nat] /\ silent \in [Items -> Nat] /\ plan \in Plans
      /\ \A i \in Items : beads[i] = Cardinality(Claims(i)) + silent[i]
  BY DEF ExportInv, ExportTypes, Counted
<1>3. ASSUME NEW status \in Answers(exp[p]), Says(p, status),
             \E a \in {0, 1}, b \in {0, 1} :
               /\ a = b + (IF status = "created" THEN 1 ELSE 0)
               /\ beads' = [beads EXCEPT ![h] = @ + a]
               /\ silent' = [silent EXCEPT ![h] = @ + b]
      PROVE  ExportInv'
  <2>1. exp' \in [Exporters -> Progress] /\ Told' /\ h \in Items
    BY <1>1, <1>2, <1>3, SaysTold
  <2>2. PICK a \in {0, 1}, b \in {0, 1} :
               /\ a = b + (IF status = "created" THEN 1 ELSE 0)
               /\ beads' = [beads EXCEPT ![h] = @ + a]
               /\ silent' = [silent EXCEPT ![h] = @ + b]
    BY <1>3
  <2> HIDE DEF h
  <2>3. beads' \in [Items -> Nat] /\ silent' \in [Items -> Nat]
    BY <1>2, <2>1, <2>2
  <2>4. ASSUME NEW i \in Items
        PROVE  IsFiniteSet(Claims(i)') /\ beads'[i] = Cardinality(Claims(i)') + silent'[i]
    <3>1. /\ IsFiniteSet(Claims(i)') /\ Cardinality(Claims(i)) \in Nat
          /\ Cardinality(Claims(i)') = Cardinality(Claims(i))
                 + IF status = "created" /\ h = i THEN 1 ELSE 0
      BY <1>1, <1>3, SaysCounted DEF h
    <3>2. /\ beads'[i] = beads[i] + IF h = i THEN a ELSE 0
          /\ silent'[i] = silent[i] + IF h = i THEN b ELSE 0
          /\ beads[i] \in Nat /\ silent[i] \in Nat
      BY <1>2, <2>1, <2>2
    <3> DEFINE n == Cardinality(Claims(i))
               n2 == Cardinality(Claims(i)')
               now == beads'[i]
               mute == silent'[i]
    <3>3. n \in Nat /\ beads[i] = n + silent[i]
      BY <1>2, <3>1
    <3>4. n2 = n + IF status = "created" /\ h = i THEN 1 ELSE 0
      BY <3>1
    <3>5. now = beads[i] + (IF h = i THEN a ELSE 0) /\ mute = silent[i] + (IF h = i THEN b ELSE 0)
      BY <3>2
    <3> HIDE DEF n, n2, now, mute
    <3>6. now = n2 + mute
      BY <2>2, <3>2, <3>3, <3>4, <3>5
    <3> QED BY <3>1, <3>6 DEF n2, now, mute
  <2>5. Counted'
    BY <2>4 DEF Counted
  <2> QED BY <1>1, <1>2, <2>1, <2>3, <2>5 DEF ExportInv, ExportTypes
<1>4. beads = [beads EXCEPT ![h] = @ + 0] /\ silent = [silent EXCEPT ![h] = @ + 0]
  <2> HIDE DEF h
  <2> QED BY <1>2
<1>5. CASE Proposes(p)
  <2>1. "proposed" \in Answers(exp[p]) /\ Says(p, "proposed") /\ beads' = beads /\ silent' = silent
    BY <1>5 DEF Proposes, Answers
  <2>2. 0 = 0 + (IF "proposed" = "created" THEN 1 ELSE 0)
    OBVIOUS
  <2> QED BY <1>3, <1>4, <2>1, <2>2
<1>6. CASE CreatesBead(p)
  <2>1. /\ "created" \in Answers(exp[p]) /\ Says(p, "created")
        /\ beads' = [beads EXCEPT ![h] = @ + 1] /\ silent' = silent
    BY <1>6 DEF CreatesBead, Answers
  <2>2. 1 = 0 + (IF "created" = "created" THEN 1 ELSE 0)
    OBVIOUS
  <2> QED BY <1>3, <1>4, <2>1, <2>2
<1>7. CASE CreatesSilently(p)
  <2>1. /\ "failed" \in Answers(exp[p]) /\ Says(p, "failed")
        /\ beads' = [beads EXCEPT ![h] = @ + 1] /\ silent' = [silent EXCEPT ![h] = @ + 1]
    BY <1>7 DEF CreatesSilently, Answers
  <2>2. 1 = 1 + (IF "failed" = "created" THEN 1 ELSE 0)
    OBVIOUS
  <2> QED BY <1>3, <2>1, <2>2
<1>8. CASE FailsToCreate(p)
  <2>1. "failed" \in Answers(exp[p]) /\ Says(p, "failed") /\ beads' = beads /\ silent' = silent
    BY <1>8 DEF FailsToCreate, Answers
  <2>2. 0 = 0 + (IF "failed" = "created" THEN 1 ELSE 0)
    OBVIOUS
  <2> QED BY <1>3, <1>4, <2>1, <2>2
<1> QED BY <1>1, <1>5, <1>6, <1>7, <1>8

\* A step that says nothing, and makes no bead but a silent one, keeps the count.
LEMMA QuietKeepsCount ==
    ASSUME ExportInv, \A p \in Exporters : exp'[p].said = exp[p].said, NEW i \in Items,
           beads'[i] - silent'[i] = beads[i] - silent[i], beads'[i] \in Nat, silent'[i] \in Nat
    PROVE  IsFiniteSet(Claims(i)') /\ beads'[i] = Cardinality(Claims(i)') + silent'[i]
<1>1. /\ IsFiniteSet(Claims(i)) /\ beads[i] = Cardinality(Claims(i)) + silent[i]
      /\ beads[i] \in Nat /\ silent[i] \in Nat
  BY DEF ExportInv, Counted, ExportTypes
<1>2. Cardinality(Claims(i)) \in Nat
  BY <1>1, FS_CardinalityType
<1>3. Claims(i)' = Claims(i)
  BY ClaimsKept
<1>4. beads'[i] = Cardinality(Claims(i)) + silent'[i]
  BY <1>1, <1>2
<1> QED BY <1>1, <1>3, <1>4

\* x once it has read a list of items, and has them all to do.
Begun(x, dry, list) == [x EXCEPT !.pc = "items", !.dry = dry, !.read = list, !.todo = list]

\* It had said nothing, and has not since.
LEMMA BegunAs ==
    ASSUME NEW x \in Progress, x.said = <<>>, NEW dry, NEW list
    PROVE  Begun(x, dry, list)
           = [pc |-> "items", dry |-> dry, read |-> list, todo |-> list, said |-> <<>>]
<1>1. x = [pc |-> x.pc, dry |-> x.dry, read |-> x.read, todo |-> x.todo, said |-> x.said]
  BY DEF Progress
<1> DEFINE x1 == [x EXCEPT !.pc = "items"]
           x2 == [x1 EXCEPT !.dry = dry]
           x3 == [x2 EXCEPT !.read = list]
           x4 == [x3 EXCEPT !.todo = list]
<1>2. x1 = [pc |-> "items", dry |-> x.dry, read |-> x.read, todo |-> x.todo, said |-> x.said]
  BY <1>1
<1> HIDE DEF x1
<1>3. x2 = [pc |-> "items", dry |-> dry, read |-> x.read, todo |-> x.todo, said |-> x.said]
  BY <1>2
<1> HIDE DEF x2
<1>4. x3 = [pc |-> "items", dry |-> dry, read |-> list, todo |-> x.todo, said |-> x.said]
  BY <1>3
<1> HIDE DEF x3
<1>5. x4 = [pc |-> "items", dry |-> dry, read |-> list, todo |-> list, said |-> <<>>]
  BY <1>4
<1> QED BY <1>5 DEF x1, x2, x3, Begun

\* Reading a plan: nothing is said of it yet.
LEMMA BeginKeepsInv ==
    ASSUME ExportInv, NEW p \in Exporters, BeginExport(p)
    PROVE  ExportInv'
<1>1. /\ ExportTypes /\ Told /\ exp \in [Exporters -> Progress]
      /\ \A i \in Items : beads[i] \in Nat /\ silent[i] \in Nat
      /\ exp[p].pc = "idle" /\ exp[p].said = <<>> /\ exp[p] \in Progress
  BY DEF ExportInv, ExportTypes, Told, ToldOf, BeginExport
<1>2. PICK dry \in BOOLEAN :
         exp' = [exp EXCEPT ![p] = [@ EXCEPT !.pc = "items", !.dry = dry, !.read = plan.items,
                                             !.todo = plan.items]]
  BY DEF BeginExport
<1> DEFINE y == [pc |-> "items", dry |-> dry, read |-> plan.items, todo |-> plan.items, said |-> <<>>]
           list == plan.items
<1>3. exp'[p] = y /\ exp' = [exp EXCEPT ![p] = y]
  <2> DEFINE x == exp[p]
             z == Begun(x, dry, plan.items)
  <2>1. exp' = [exp EXCEPT ![p] = z]
    BY <1>2 DEF Begun
  <2>2. exp'[p] = z
    <3> HIDE DEF z
    <3> QED BY <1>1, <2>1
  <2>3. x \in Progress /\ x.said = <<>>
    BY <1>1
  <2>4. z = y
    <3> HIDE DEF x
    <3> QED BY <2>3, BegunAs
  <2> HIDE DEF y, z
  <2> QED BY <2>1, <2>2, <2>4
<1>4. list \in Seq(AllItems) /\ <<>> \in Seq(Sayings)
  <2>1. list \in Seq(AllItems)
    BY <1>1, PlansOfItems DEF ExportTypes
  <2>2. <<>> \in Seq(Sayings)
    OBVIOUS
  <2> QED BY <2>1, <2>2
<1>5. y \in Progress /\ ToldOf(y)
  <2> DEFINE none == <<>>
  <2>1. Len(none) = 0 /\ Len(list) \in Nat /\ none \in Seq(Sayings)
    BY <1>4
  <2> HIDE DEF list
  <2>2. y \in Progress
    BY <1>4 DEF Progress, list
  <2>3. /\ Len(none) + Len(list) = Len(list)
        /\ \A k \in 1..Len(none) : FALSE
        /\ \A k \in 1..Len(list) : Len(none) + k = k
    BY <2>1
  <2>4. /\ Len(y.said) + Len(y.todo) = Len(y.read)
        /\ \A k \in 1..Len(y.said) : FALSE
        /\ \A k \in 1..Len(y.todo) : Len(y.said) + k = k /\ y.todo[k] = y.read[k]
        /\ y.pc = "items"
    BY <2>3 DEF list
  <2> HIDE DEF y, none
  <2> QED BY <2>2, <2>4 DEF ToldOf
<1>6. exp' \in [Exporters -> Progress]
  <2> HIDE DEF y
  <2> QED BY <1>1, <1>3, <1>5
<1>7. \A q \in Exporters : exp'[q].said = exp[q].said /\ ToldOf(exp'[q])
  <2>1. y.said = <<>>
    OBVIOUS
  <2> HIDE DEF y
  <2> QED BY <1>1, <1>3, <1>5, <2>1 DEF Told
<1>8. Told'
  BY <1>7 DEF Told, ToldOf, Answers
<1>9. beads' = beads /\ silent' = silent /\ plan' = plan
  BY DEF BeginExport
<1>10. Counted'
  <2>1. \A i \in Items : IsFiniteSet(Claims(i)') /\ beads'[i] = Cardinality(Claims(i)') + silent'[i]
    BY <1>1, <1>7, <1>9, QuietKeepsCount
  <2> QED BY <2>1 DEF Counted
<1> QED BY <1>1, <1>6, <1>8, <1>9, <1>10 DEF ExportInv, ExportTypes

\* What is told of x is told of y, which has said the same.
LEMMA ToldAlike ==
    ASSUME NEW x, NEW y, ToldOf(x),
           y.dry = x.dry, y.read = x.read, y.todo = x.todo, y.said = x.said, y.pc # "idle",
           y.pc = "ok" => x.todo = <<>> /\ \A k \in 1..Len(x.said) : x.said[k].status # "failed"
    PROVE  ToldOf(y)
<1>1. Answers(y) = Answers(x)
  BY DEF Answers
<1>2. /\ Len(x.said) + Len(x.todo) = Len(x.read)
      /\ \A k \in 1..Len(x.said) : x.said[k].item = x.read[k].id /\ x.said[k].status \in Answers(x)
      /\ \A k \in 1..Len(x.todo) : x.todo[k] = x.read[Len(x.said) + k]
  BY DEF ToldOf
<1> QED BY Zenon, <1>1, <1>2 DEF ToldOf

\* An invocation that goes on, or stops, with what it has said.
LEMMA StopKeepsTold ==
    ASSUME ExportInv, NEW p \in Exporters, NEW to \in {"ok", "failed", "killed"},
           to = "ok" => exp[p].todo = <<>> /\ \A k \in 1..Len(exp[p].said) : exp[p].said[k].status # "failed",
           exp' = [exp EXCEPT ![p].pc = to]
    PROVE  /\ exp' \in [Exporters -> Progress] /\ Told'
           /\ \A q \in Exporters : exp'[q].said = exp[q].said
<1>1. Told /\ exp \in [Exporters -> Progress] /\ exp[p] \in Progress /\ ToldOf(exp[p])
  BY DEF ExportInv, ExportTypes, Told
<1> DEFINE x == exp[p]
           y == exp'[p]
<1>2. /\ y.pc = to /\ y.dry = x.dry /\ y.read = x.read /\ y.todo = x.todo /\ y.said = x.said
      /\ y \in Progress
      /\ exp' \in [Exporters -> Progress]
      /\ \A q \in Exporters : q # p => exp'[q] = exp[q]
  BY <1>1 DEF Progress
<1>4. ToldOf(y)
  <2>1. /\ ToldOf(x)
        /\ to = "ok" => x.todo = <<>> /\ \A k \in 1..Len(x.said) : x.said[k].status # "failed"
    BY <1>1
  <2>2. y.pc # "idle"
    BY <1>2
  <2> HIDE DEF x, y
  <2> QED BY Zenon, <1>2, <2>1, <2>2, ToldAlike
<1>5. ASSUME NEW q \in Exporters PROVE exp'[q].said = exp[q].said /\ ToldOf(exp'[q])
  <2>1. CASE q = p
    BY <1>2, <1>4, <2>1
  <2>2. CASE q # p
    <3>1. ToldOf(exp[q])
      BY <1>1 DEF Told
    <3> QED BY <1>2, <2>2, <3>1
  <2> QED BY <2>1, <2>2
<1>6. Told'
  BY <1>5 DEF Told, ToldOf, Answers
<1> QED BY <1>2, <1>5, <1>6

\* The end of an invocation.
LEMMA EndKeepsInv ==
    ASSUME ExportInv, NEW p \in Exporters, EndExport(p)
    PROVE  ExportInv'
<1>1. /\ plan \in Plans /\ beads \in [Items -> Nat] /\ silent \in [Items -> Nat]
      /\ exp[p].said \in Seq(Sayings) /\ exp[p].todo = <<>>
      /\ exp' = [exp EXCEPT ![p].pc = IF EndsOk(p) THEN "ok" ELSE "failed"]
      /\ plan' = plan /\ beads' = beads /\ silent' = silent
  BY DEF ExportInv, ExportTypes, Progress, EndExport
<1>2. DOMAIN exp[p].said = 1..Len(exp[p].said)
  <2> DEFINE s == exp[p].said
  <2>1. s \in Seq(Sayings)
    BY <1>1
  <2> HIDE DEF s
  <2>2. DOMAIN s = 1..Len(s)
    BY <2>1
  <2> QED BY <2>2 DEF s
<1>3. EndsOk(p) => \A k \in 1..Len(exp[p].said) : exp[p].said[k].status # "failed"
  BY <1>2 DEF EndsOk
<1>4. /\ exp' \in [Exporters -> Progress] /\ Told'
      /\ \A q \in Exporters : exp'[q].said = exp[q].said
  <2>1. CASE EndsOk(p)
    BY <1>1, <1>3, <2>1, StopKeepsTold
  <2>2. CASE ~EndsOk(p)
    BY <1>1, <2>2, StopKeepsTold
  <2> QED BY <2>1, <2>2
<1>5. \A i \in Items : beads[i] \in Nat /\ silent[i] \in Nat
  BY <1>1
<1>6. \A i \in Items : IsFiniteSet(Claims(i)') /\ beads'[i] = Cardinality(Claims(i)') + silent'[i]
  BY <1>1, <1>4, <1>5, QuietKeepsCount
<1>7. Counted'
  BY <1>6 DEF Counted
<1> QED BY <1>1, <1>4, <1>7 DEF ExportInv, ExportTypes

\* The kill of an invocation: a bead it may have made is silent.
LEMMA KillKeepsInv ==
    ASSUME ExportInv, NEW p \in Exporters, KillExport(p)
    PROVE  ExportInv'
<1> DEFINE h == Head(exp[p].todo).id
<1>1. /\ plan \in Plans /\ beads \in [Items -> Nat] /\ silent \in [Items -> Nat]
      /\ exp' = [exp EXCEPT ![p].pc = "killed"] /\ plan' = plan
  BY DEF ExportInv, ExportTypes, KillExport
<1>2. /\ exp' \in [Exporters -> Progress] /\ Told'
      /\ \A q \in Exporters : exp'[q].said = exp[q].said
  BY <1>1, StopKeepsTold
<1>3. PICK made \in BOOLEAN :
         /\ beads' = IF made THEN [beads EXCEPT ![h] = @ + 1] ELSE beads
         /\ silent' = IF made THEN [silent EXCEPT ![h] = @ + 1] ELSE silent
  BY DEF KillExport
<1> HIDE DEF h
<1>4. /\ beads' \in [Items -> Nat] /\ silent' \in [Items -> Nat]
      /\ \A i \in Items : beads'[i] - silent'[i] = beads[i] - silent[i]
  <2>0. \A i \in Items : beads[i] \in Nat /\ silent[i] \in Nat
    BY <1>1
  <2>1. CASE made
    <3>1. beads' = [beads EXCEPT ![h] = @ + 1] /\ silent' = [silent EXCEPT ![h] = @ + 1]
      BY <1>3, <2>1
    <3>2. beads' \in [Items -> Nat] /\ silent' \in [Items -> Nat]
      <4>1. CASE h \in Items
        <5>1. beads[h] + 1 \in Nat /\ silent[h] + 1 \in Nat
          BY <2>0, <4>1
        <5> QED BY <1>1, <3>1, <4>1, <5>1
      <4>2. CASE h \notin Items
        BY <1>1, <3>1, <4>2
      <4> QED BY <4>1, <4>2
    <3>3. ASSUME NEW i \in Items PROVE beads'[i] - silent'[i] = beads[i] - silent[i]
      <4>1. CASE i = h
        <5>1. beads'[i] = beads[i] + 1 /\ silent'[i] = silent[i] + 1
          BY <1>1, <3>1, <4>1
        <5> QED BY <2>0, <5>1
      <4>2. CASE i # h
        BY <1>1, <3>1, <4>2
      <4> QED BY <4>1, <4>2
    <3> QED BY <3>2, <3>3
  <2>2. CASE ~made
    BY <1>1, <1>3, <2>2
  <2> QED BY <2>1, <2>2
<1>5. \A i \in Items : IsFiniteSet(Claims(i)') /\ beads'[i] = Cardinality(Claims(i)') + silent'[i]
  <2> TAKE i \in Items
  <2>1. beads'[i] \in Nat /\ silent'[i] \in Nat /\ beads'[i] - silent'[i] = beads[i] - silent[i]
    BY <1>4
  <2> QED BY <1>2, <2>1, QuietKeepsCount
<1>6. Counted'
  BY <1>5 DEF Counted
<1> QED BY <1>1, <1>2, <1>4, <1>6 DEF ExportInv, ExportTypes

-----------------------------------------------------------------------------
(* Every bead is accounted for. *)

\* Before anything is invoked, nothing is told and nothing counted.
LEMMA InitExport == Init => ExportInv
<1> SUFFICES ASSUME Init PROVE ExportInv
  OBVIOUS
<1> DEFINE start == [pc |-> "idle", dry |-> FALSE, read |-> <<>>, todo |-> <<>>, said |-> <<>>]
<1>1. /\ exp = [p \in Exporters |-> start] /\ plan \in Plans
      /\ beads = [i \in Items |-> 0] /\ silent = [i \in Items |-> 0]
  BY DEF Init
<1>2. start \in Progress
  <2>1. <<>> \in Seq(AllItems) /\ <<>> \in Seq(Sayings)
    OBVIOUS
  <2> QED BY <2>1 DEF Progress
<1>3. ToldOf(start)
  <2> DEFINE none == <<>>
  <2>1. Len(none) = 0
    OBVIOUS
  <2>2. Len(none) + Len(none) = Len(none) /\ \A k \in 1..Len(none) : FALSE
    BY <2>1
  <2>3. start.said = none /\ start.todo = none /\ start.read = none /\ start.pc = "idle"
    OBVIOUS
  <2> HIDE DEF start
  <2>4. /\ Len(start.said) + Len(start.todo) = Len(start.read)
        /\ \A k \in 1..Len(start.said) : FALSE
        /\ \A k \in 1..Len(start.todo) : FALSE
        /\ start.said = <<>> /\ start.pc # "ok"
    BY <2>2, <2>3
  <2> QED BY <2>4 DEF ToldOf
<1>4. ExportTypes
  <2> HIDE DEF start
  <2> QED BY <1>1, <1>2 DEF ExportTypes
<1>5. Told
  <2> HIDE DEF start
  <2> QED BY <1>1, <1>3 DEF Told
<1>6. \A i \in Items : Claims(i) = {}
  <2>1. \A p \in Exporters : DOMAIN exp[p].said = {}
    BY <1>1
  <2> QED BY <2>1, ClaimIs
<1>7. IsFiniteSet({}) /\ Cardinality({}) = 0
  BY FS_EmptySet
<1>8. Counted
  <2> SUFFICES ASSUME NEW i \in Items
               PROVE  IsFiniteSet(Claims(i)) /\ beads[i] = Cardinality(Claims(i)) + silent[i]
    BY DEF Counted
  <2>1. beads[i] = 0 /\ silent[i] = 0 /\ Claims(i) = {}
    BY <1>1, <1>6
  <2>2. IsFiniteSet(Claims(i)) /\ Cardinality(Claims(i)) = 0
    BY <1>7, <2>1
  <2> QED BY <2>1, <2>2
<1> QED BY <1>4, <1>5, <1>8 DEF ExportInv

\* What is done to plans and saved exports leaves the invocations alone.
LEMMA ExportStep ==
    ASSUME ExportInv, [Next]_vars
    PROVE  ExportInv'
<1>1. ASSUME UNCHANGED <<beads, exp, silent>>, plan' \in Plans
      PROVE  ExportInv'
  <2>1. ExportTypes /\ Told /\ Counted
    BY DEF ExportInv
  <2>2. ExportTypes'
    BY <1>1, <2>1 DEF ExportTypes
  <2>3. Told'
    BY <1>1, <2>1 DEF Told, ToldOf, Answers
  <2>4. Counted'
    BY <1>1, <2>1 DEF Counted, Claims, Said
  <2> QED BY <2>2, <2>3, <2>4 DEF ExportInv
<1>2. plan \in Plans
  BY DEF ExportInv, ExportTypes
<1>3. CASE Generate
  BY <1>1, <1>2, <1>3 DEF Generate
<1>4. CASE ValidateSaved
  BY <1>1, <1>2, <1>4 DEF ValidateSaved
<1>5. CASE Strike \/ PutIn \/ Change \/ Recount
  BY <1>1, <1>2, <1>5 DEF Strike, PutIn, Change, Recount, Edited
<1>6. CASE EditPlan
  BY <1>1, <1>6 DEF EditPlan
<1>7. ASSUME NEW p \in Exporters, BeginExport(p) \/ ExportItem(p) \/ EndExport(p) \/ KillExport(p)
      PROVE  ExportInv'
  BY <1>7, BeginKeepsInv, ItemKeepsInv, EndKeepsInv, KillKeepsInv
<1>8. CASE UNCHANGED vars
  BY <1>1, <1>2, <1>8 DEF vars
<1> QED BY <1>3, <1>4, <1>5, <1>6, <1>7, <1>8 DEF Next

\* The account of the invocations holds throughout.
THEOREM ExportAlways == Spec => []ExportInv
BY InitExport, ExportStep, PTL DEF Spec

\* Every bead in the tracker is one that an invocation has said that it created,
\* or one that br made without a word of it: nothing is made twice for one line.
THEOREM AllBeadsAccounted == Spec => []BeadsAccounted
<1>1. ExportInv => BeadsAccounted
  BY DEF ExportInv, Counted, BeadsAccounted
<1> QED BY <1>1, ExportAlways, PTL

\* What an invocation has told, said in terms of its claims: one that ended well
\* claims a bead of each item that it read, a dry one none.
LEMMA ToldMeansAll == ExportInv => OkMeansAll
<1> SUFFICES ASSUME ExportInv, NEW p \in Exporters
             PROVE  /\ exp[p].pc = "ok" /\ ~exp[p].dry =>
                         \A k \in DOMAIN exp[p].read : <<p, k>> \in Claims(exp[p].read[k].id)
                    /\ exp[p].dry => \A i \in Items : \A c \in Claims(i) : c[1] # p
  BY DEF OkMeansAll
<1> DEFINE x == exp[p]
<1>1. /\ ToldOf(x) /\ x.read \in Seq(AllItems) /\ x.said \in Seq(Sayings) /\ x.todo \in Seq(AllItems)
  BY DEF ExportInv, ExportTypes, Told, Progress
<1>2. /\ DOMAIN x.read = 1..Len(x.read) /\ DOMAIN x.said = 1..Len(x.said)
      /\ Len(x.said) \in Nat
  <2> DEFINE r == x.read
             s == x.said
             S == AllItems
             T == Sayings
  <2>1. r \in Seq(S) /\ s \in Seq(T)
    BY <1>1
  <2> HIDE DEF r, s, S, T
  <2>2. DOMAIN r = 1..Len(r) /\ DOMAIN s = 1..Len(s) /\ Len(s) \in Nat
    BY <2>1
  <2> QED BY <2>2 DEF r, s
<1>3. ASSUME x.pc = "ok", ~x.dry, NEW k \in DOMAIN x.read
      PROVE  <<p, k>> \in Claims(x.read[k].id)
  <2>1. x.todo = <<>> /\ Len(x.said) + Len(x.todo) = Len(x.read)
    BY <1>1, <1>3 DEF ToldOf
  <2>2. Len(x.said) = Len(x.read)
    <3> DEFINE n == Len(x.said)
               m == Len(x.read)
    <3>1. n \in Nat /\ n + 0 = m
      BY <1>2, <2>1
    <3> HIDE DEF n, m
    <3>2. n = m
      BY <3>1
    <3> QED BY <3>2 DEF n, m
  <2>3. k \in 1..Len(x.said) /\ k \in DOMAIN x.said
    BY <1>2, <1>3, <2>2
  <2>4. x.said[k].item = x.read[k].id /\ x.said[k].status \in {"created", "failed"} /\ x.said[k].status # "failed"
    BY <1>1, <1>3, <2>3 DEF ToldOf, Answers
  <2>5. x.said[k] = [item |-> x.said[k].item, status |-> x.said[k].status]
    <3> DEFINE s == x.said[k]
    <3>1. s \in Sayings
      BY <1>1, <2>3
    <3> HIDE DEF s
    <3>2. s = [item |-> s.item, status |-> s.status]
      BY <3>1 DEF Sayings
    <3> QED BY <3>2 DEF s
  <2>6. x.said[k] = Said([id |-> x.read[k].id], "created")
    BY <2>4, <2>5 DEF Said
  <2> QED BY <2>3, <2>6, ClaimIs
<1>4. ASSUME x.dry, NEW i \in Items, NEW c \in Claims(i)
      PROVE  c[1] # p
  <2>1. PICK q \in Exporters : \E k \in DOMAIN exp[q].said :
                                 c = <<q, k>> /\ exp[q].said[k] = Said([id |-> i], "created")
    BY <1>4, ClaimIs
  <2>2. PICK k \in DOMAIN exp[q].said : c = <<q, k>> /\ exp[q].said[k] = Said([id |-> i], "created")
    BY <2>1
  <2>3. q = p => x.said[k].status \in {"proposed"} /\ x.said[k].status = "created"
    BY <1>1, <1>2, <1>4, <2>2 DEF ToldOf, Answers, Said
  <2> QED BY <2>2, <2>3
<1> QED BY <1>3, <1>4

\* An export that ends well has made the beads of the whole plan that it read,
\* whatever became of the plan meanwhile, and a dry run makes none.
THEOREM OkAlwaysMeansAll == Spec => []OkMeansAll
BY ToldMeansAll, ExportAlways, PTL

-----------------------------------------------------------------------------
(* The operations of a plan: one item's after the other's. *)

\* A set of numbers that is not empty has a least element.
LEMMA Least ==
    ASSUME NEW T \in SUBSET Nat, T # {}
    PROVE  \E m \in T : \A k \in T : m <= k
<1>1. PICK m \in T : \A k \in T : <<k, m>> \notin OpToRel(<, Nat)
  BY NatLessThanWellFounded, WFMin
<1>2. \A k \in T : ~(k < m)
  BY <1>1, Zenon DEF OpToRel
<1> QED BY <1>2

\* The first i sequences, given all shorter prefixes.
Joined(seqs, f, i) == IF i = 1 THEN seqs[i] ELSE f[i - 1] \o seqs[i]

\* The recursion that strings sequences together has a solution.
LEMMA FlattenExists ==
    ASSUME NEW seqs, NEW len \in Nat, NEW m \in 1..len
    PROVE  \E f : f = [i \in 1..m |-> Joined(seqs, f, i)]
<1> DEFINE next(f, i) == Joined(seqs, f, i)
           Strings(f, n) == f = [i \in 1..n |-> next(f, i)]
           T == {n \in 1..len : \A f : ~Strings(f, n)}
<1> SUFFICES ASSUME T # {} PROVE FALSE
  OBVIOUS
<1>1. T \in SUBSET Nat
  OBVIOUS
<1>2. PICK n \in T : \A k \in T : n <= k
  <2> HIDE DEF T
  <2> QED BY <1>1, Least
<1>3. CASE n = 1
  <2> DEFINE f == [i \in 1..1 |-> seqs[i]]
  <2>1. \A i \in 1..1 : next(f, i) = seqs[i]
    BY DEF Joined
  <2>2. Strings(f, 1)
    BY <2>1 DEF Joined
  <2> QED BY <1>2, <1>3, <2>2
<1>4. CASE n # 1
  <2>1. n \in Nat /\ n - 1 \in Nat /\ n - 1 \in 1..len /\ ~(n <= n - 1) /\ n # 1
    BY <1>2, <1>4
  <2>2. PICK f : Strings(f, n - 1)
    <3> HIDE DEF Strings
    <3>1. n - 1 \notin T
      <4> HIDE DEF T
      <4> QED BY <1>2, <2>1
    <3> QED BY <2>1, <3>1
  <2> DEFINE g == [i \in 1..n |-> IF i = n THEN f[n - 1] \o seqs[n] ELSE f[i]]
  <2>3. \A i \in 1..(n - 1) : f[i] = next(f, i)
    <3> HIDE DEF next
    <3> QED BY <2>2
  <2>4. \A i \in 1..n : g[i] = next(g, i)
    <3> TAKE i \in 1..n
    <3>1. CASE i = 1
      BY <2>1, <2>3, <3>1 DEF Joined
    <3>2. CASE i = n
      <4>1. n - 1 \in 1..n /\ n - 1 # n
        BY <2>1
      <4>2. g[n - 1] = f[n - 1] /\ g[i] = f[n - 1] \o seqs[n]
        BY <3>2, <4>1
      <4> HIDE DEF g
      <4> QED BY <2>1, <3>2, <4>2 DEF Joined
    <3>3. CASE i # 1 /\ i # n
      <4>1. i \in 1..(n - 1) /\ i - 1 \in 1..n /\ i - 1 # n
        BY <2>1, <3>3
      <4>2. g[i] = f[i] /\ g[i - 1] = f[i - 1]
        BY <3>3, <4>1
      <4> HIDE DEF g
      <4> QED BY <2>3, <3>3, <4>1, <4>2 DEF Joined
    <3> QED BY <3>1, <3>2, <3>3
  <2>5. Strings(g, n)
    <3> HIDE DEF next
    <3>1. g = [i \in 1..n |-> g[i]]
      OBVIOUS
    <3> HIDE DEF g
    <3> QED BY <2>4, <3>1
  <2> HIDE DEF g, Strings
  <2> QED BY <1>2, <2>5
<1> QED BY <1>3, <1>4

\* FlattenSeq is the last of the prefixes, each of which has one sequence more.
LEMMA FlattenIs ==
    ASSUME NEW seqs, Len(seqs) \in Nat, Len(seqs) # 0
    PROVE  \E f : /\ f[1] = seqs[1]
                  /\ \A i \in 2..Len(seqs) : f[i] = f[i - 1] \o seqs[i]
                  /\ FlattenSeq(seqs) = f[Len(seqs)]
<1> DEFINE n == Len(seqs)
           Strings(f) == f = [i \in 1..n |-> Joined(seqs, f, i)]
           flatten == CHOOSE f : Strings(f)
<1>1. n \in 1..n
  OBVIOUS
<1>2. \E f : Strings(f)
  BY <1>1, FlattenExists
<1>3. Strings(flatten)
  <2> HIDE DEF Strings
  <2> QED BY <1>2
<1>4. FlattenSeq(seqs) = flatten[n]
  BY DEF FlattenSeq, Joined
<1> HIDE DEF flatten
<1>5. \A i \in 1..n : flatten[i] = Joined(seqs, flatten, i)
  BY <1>3
<1>6. flatten[1] = seqs[1] /\ \A i \in 2..n : flatten[i] = flatten[i - 1] \o seqs[i]
  <2>1. 1 \in 1..n /\ \A i \in 2..n : i \in 1..n /\ i # 1
    BY <1>1
  <2> HIDE DEF n
  <2> QED BY <1>5, <2>1 DEF Joined
<1> QED BY <1>4, <1>6

\* The operations there are of the items of a plan.
OpsOfItems(p) ==
    {Create(item, p) : item \in PlanItems(p)}
        \cup {DepAdd(item, on) : item \in PlanItems(p), on \in Items}

\* The beads of the first j items come before operation x of ops.
Before(ops, x, j, p) ==
    \A h \in 1..j : \E y \in 1..(x - 1) : ops[y] = Create(p.items[h], p)

\* Operation x of ops is a dependency of one of the first i items, and comes
\* after the beads of that one and of all before it.
DependsInTime(ops, x, i, p) ==
    \E j \in 1..i : \E k \in DOMAIN p.items[j].deps :
        /\ ops[x] = DepAdd(p.items[j], p.items[j].deps[k])
        /\ Before(ops, x, j, p)

\* ops are the operations of the first i items.
Laid(ops, i, p) ==
    /\ ops \in Seq(OpsOfItems(p))
    /\ Before(ops, Len(ops) + 1, i, p)
    /\ \A x \in 1..Len(ops) : ops[x].op = "br_dep_add" => DependsInTime(ops, x, i, p)

\* One sequence after the other.
LEMMA Concat ==
    ASSUME NEW S, NEW s \in Seq(S), NEW t \in Seq(S)
    PROVE  /\ s \o t \in Seq(S) /\ Len(s \o t) = Len(s) + Len(t)
           /\ Len(s) \in Nat /\ Len(t) \in Nat
           /\ \A x \in 1..Len(s) : (s \o t)[x] = s[x]
           /\ \A x \in 1..Len(t) : (s \o t)[Len(s) + x] = t[x]
OBVIOUS

\* An item's bead comes first, then its dependencies.
LEMMA ItemOpsAre ==
    ASSUME NEW p \in Plans, NEW item \in PlanItems(p)
    PROVE  /\ ItemOps(item, p) \in Seq(OpsOfItems(p))
           /\ ItemOps(item, p)[1] = Create(item, p)
           /\ Len(ItemOps(item, p)) \in Nat /\ Len(ItemOps(item, p)) >= 1
           /\ \A x \in 2..Len(ItemOps(item, p)) :
                \E k \in DOMAIN item.deps : ItemOps(item, p)[x] = DepAdd(item, item.deps[k])
<1> DEFINE S == OpsOfItems(p)
           deps == item.deps
           n == Len(deps)
           first == <<Create(item, p)>>
           after == [i \in DOMAIN deps |-> DepAdd(item, deps[i])]
<1>1. deps \in Seq(Items)
  BY PlansAreOfItems
<1>2. DOMAIN deps = 1..n /\ n \in Nat /\ \A i \in 1..n : deps[i] \in Items
  <2> HIDE DEF deps
  <2> QED BY <1>1
<1>3. Create(item, p) \in S /\ \A i \in 1..n : DepAdd(item, deps[i]) \in S
  <2> HIDE DEF deps, n
  <2> QED BY <1>2 DEF OpsOfItems
<1>4. first \in Seq(S) /\ Len(first) = 1 /\ first[1] = Create(item, p)
  <2> DEFINE c == Create(item, p)
  <2> HIDE DEF c, S
  <2>1. <<c>> \in Seq(S) /\ Len(<<c>>) = 1 /\ <<c>>[1] = c
    BY <1>3 DEF c
  <2> QED BY <2>1 DEF c
<1>5. after \in Seq(S) /\ Len(after) = n /\ \A i \in 1..n : after[i] = DepAdd(item, deps[i])
  <2> HIDE DEF deps, n, S
  <2>1. after = [i \in 1..n |-> DepAdd(item, deps[i])]
    BY <1>2
  <2>2. \A i \in 1..n : after[i] = DepAdd(item, deps[i]) /\ after[i] \in S
    BY <1>3, <2>1
  <2>3. DOMAIN after = 1..n /\ after = [i \in 1..n |-> after[i]]
    BY <2>1
  <2> HIDE DEF after
  <2>4. after \in Seq(S) /\ Len(after) = n
    BY <1>2, <2>2, <2>3
  <2> QED BY <2>2, <2>4
<1>6. ItemOps(item, p) = first \o after
  BY DEF ItemOps
<1> HIDE DEF S, deps, n, first, after
<1>7. /\ first \o after \in Seq(S) /\ Len(first \o after) = 1 + n
      /\ \A x \in 1..1 : (first \o after)[x] = first[x]
      /\ \A x \in 1..n : (first \o after)[1 + x] = after[x]
  <2>1. /\ first \o after \in Seq(S) /\ Len(first \o after) = Len(first) + Len(after)
        /\ \A x \in 1..Len(first) : (first \o after)[x] = first[x]
        /\ \A x \in 1..Len(after) : (first \o after)[Len(first) + x] = after[x]
    BY <1>4, <1>5, Concat
  <2> QED BY <1>4, <1>5, <2>1
<1>8. \A x \in 2..(1 + n) : \E k \in 1..n : (first \o after)[x] = DepAdd(item, deps[k])
  <2> TAKE x \in 2..(1 + n)
  <2>1. x - 1 \in 1..n /\ 1 + (x - 1) = x
    BY <1>2
  <2>2. (first \o after)[1 + (x - 1)] = after[x - 1]
    BY <1>7, <2>1
  <2> QED BY <1>5, <2>1, <2>2
<1>9. (first \o after)[1] = Create(item, p)
  BY <1>4, <1>7
<1> DEFINE ops == first \o after
<1>10. ops \in Seq(S) /\ Len(ops) = 1 + n /\ 1 + n \in Nat /\ 1 + n >= 1 /\ ops[1] = Create(item, p)
  BY <1>2, <1>7, <1>9
<1>11. \A x \in 2..Len(ops) : \E k \in DOMAIN deps : ops[x] = DepAdd(item, deps[k])
  <2>1. Len(ops) = 1 + n /\ DOMAIN deps = 1..n
    BY <1>2, <1>10
  <2> QED BY <1>8, <2>1
<1> HIDE DEF ops
<1> QED BY <1>6, <1>10, <1>11 DEF S, deps, ops

\* Before anything is laid, nothing has to be.
LEMMA LaidNone ==
    ASSUME NEW p
    PROVE  Laid(<<>>, 0, p)
<1>1. <<>> \in Seq(OpsOfItems(p)) /\ Len(<<>>) = 0
  OBVIOUS
<1> QED BY <1>1 DEF Laid, Before

\* The operations of the next item are laid after those of the first i.
LEMMA LaidStep ==
    ASSUME NEW p \in Plans, NEW i \in Nat, i + 1 \in DOMAIN p.items, NEW g, Laid(g, i, p)
    PROVE  Laid(g \o ItemOps(p.items[i + 1], p), i + 1, p)
<1> DEFINE item == p.items[i + 1]
           b == ItemOps(item, p)
           S == OpsOfItems(p)
           s == g \o b
           n == Len(g)
           m == Len(b)
<1>1. item \in PlanItems(p)
  BY DEF PlanItems, Range
<1>2. /\ b \in Seq(S) /\ b[1] = Create(item, p) /\ m \in Nat /\ m >= 1
      /\ \A x \in 2..m : \E k \in DOMAIN item.deps : b[x] = DepAdd(item, item.deps[k])
  <2> HIDE DEF item
  <2> QED BY <1>1, ItemOpsAre
<1>3. g \in Seq(S)
  BY DEF Laid
<1> HIDE DEF S, b, item
<1>4. /\ s \in Seq(S) /\ Len(s) = n + m /\ n \in Nat
      /\ \A x \in 1..n : s[x] = g[x]
      /\ \A x \in 1..m : s[n + x] = b[x]
  BY <1>2, <1>3, Concat
<1>5. /\ \A h \in 1..i : \E y \in 1..n : g[y] = Create(p.items[h], p)
      /\ \A x \in 1..n : g[x].op = "br_dep_add" => DependsInTime(g, x, i, p)
  <2>1. (n + 1) - 1 = n
    BY <1>4
  <2> QED BY <2>1 DEF Laid, Before
<1>6. s[n + 1] = Create(item, p)
  BY <1>2, <1>4
<1> HIDE DEF s, n, m
<1>7. \A x \in 1..(n + m) : x > n + 1 => Before(s, x, i + 1, p)
  <2> SUFFICES ASSUME NEW x \in 1..(n + m), x > n + 1, NEW h \in 1..(i + 1)
               PROVE  \E y \in 1..(x - 1) : s[y] = Create(p.items[h], p)
    BY DEF Before
  <2>1. CASE h = i + 1
    <3>1. n + 1 \in 1..(x - 1)
      BY <1>2, <1>4
    <3> QED BY <1>6, <2>1, <3>1 DEF item
  <2>2. CASE h # i + 1
    <3>1. h \in 1..i
      BY <2>2
    <3>2. PICK y \in 1..n : g[y] = Create(p.items[h], p)
      BY <1>5, <3>1
    <3>3. y \in 1..(x - 1)
      BY <1>2, <1>4
    <3> QED BY <1>4, <3>2, <3>3
  <2> QED BY <2>1, <2>2
<1>8. Before(s, (n + m) + 1, i + 1, p)
  <2> SUFFICES ASSUME NEW h \in 1..(i + 1)
               PROVE  \E y \in 1..(((n + m) + 1) - 1) : s[y] = Create(p.items[h], p)
    BY DEF Before
  <2>1. CASE h = i + 1
    <3>1. n + 1 \in 1..(((n + m) + 1) - 1)
      BY <1>2, <1>4
    <3> QED BY <1>6, <2>1, <3>1 DEF item
  <2>2. CASE h # i + 1
    <3>1. h \in 1..i
      BY <2>2
    <3>2. PICK y \in 1..n : g[y] = Create(p.items[h], p)
      BY <1>5, <3>1
    <3>3. y \in 1..(((n + m) + 1) - 1)
      BY <1>2, <1>4
    <3> QED BY <1>4, <3>2, <3>3
  <2> QED BY <2>1, <2>2
<1>9. ASSUME NEW x \in 1..(n + m), s[x].op = "br_dep_add"
      PROVE  DependsInTime(s, x, i + 1, p)
  <2>1. CASE x \in 1..n
    <3>1. s[x] = g[x] /\ DependsInTime(g, x, i, p)
      BY <1>4, <1>5, <1>9, <2>1
    <3>2. PICK j \in 1..i : \E k \in DOMAIN p.items[j].deps :
                 g[x] = DepAdd(p.items[j], p.items[j].deps[k]) /\ Before(g, x, j, p)
      BY <3>1 DEF DependsInTime
    <3>3. Before(s, x, j, p)
      <4> SUFFICES ASSUME NEW h \in 1..j
                   PROVE  \E y \in 1..(x - 1) : s[y] = Create(p.items[h], p)
        BY DEF Before
      <4>1. PICK y \in 1..(x - 1) : g[y] = Create(p.items[h], p)
        BY <3>2 DEF Before
      <4>2. y \in 1..n
        BY <1>4, <2>1
      <4> QED BY <1>4, <4>1, <4>2
    <3>4. j \in 1..(i + 1)
      OBVIOUS
    <3> QED BY <3>1, <3>2, <3>3, <3>4 DEF DependsInTime
  <2>2. CASE x = n + 1
    <3>1. Create(item, p).op = "br_create"
      BY DEF Create
    <3> QED BY <1>6, <1>9, <2>2, <3>1
  <2>3. CASE x > n + 1
    <3>1. x - n \in 2..m /\ x - n \in 1..m /\ n + (x - n) = x
      BY <1>2, <1>4, <2>3
    <3>2. s[x] = b[x - n]
      BY <1>4, <3>1
    <3>3. PICK k \in DOMAIN item.deps : s[x] = DepAdd(item, item.deps[k])
      BY <1>2, <3>1, <3>2
    <3>4. i + 1 \in 1..(i + 1)
      OBVIOUS
    <3> QED BY <1>7, <2>3, <3>3, <3>4 DEF DependsInTime, item
  <2>4. x \in 1..n \/ x = n + 1 \/ x > n + 1
    BY <1>2, <1>4
  <2> QED BY <2>1, <2>2, <2>3, <2>4
<1>10. Laid(s, i + 1, p)
  BY <1>4, <1>8, <1>9 DEF Laid, S
<1> QED BY <1>10 DEF s, b, item

\* The empty sequence adds nothing.
LEMMA NoneBefore ==
    ASSUME NEW S, NEW t \in Seq(S)
    PROVE  <<>> \o t = t
OBVIOUS

\* The operations of a plan are those of all of its items, and then the check
\* for cycles.
LEMMA OperationsLaid ==
    ASSUME NEW p \in Plans
    PROVE  \E g : Laid(g, Len(p.items), p) /\ Operations(p) = g \o <<Cycles>>
<1> DEFINE items == p.items
           n == Len(items)
           seqs == [i \in DOMAIN items |-> ItemOps(items[i], p)]
<1>1. n \in Nat /\ DOMAIN items = 1..n /\ \A i \in 1..n : items[i] \in PlanItems(p)
  <2>1. items \in Seq(PlanItems(p))
    BY PlansAreOfItems
  <2> HIDE DEF items
  <2> QED BY <2>1
<1>2. Operations(p) = FlattenSeq(seqs) \o <<Cycles>>
  BY DEF Operations
<1>3. Len(seqs) = n /\ \A i \in 1..n : seqs[i] = ItemOps(items[i], p)
  <2> DEFINE S == OpsOfItems(p)
  <2>1. \A i \in 1..n : ItemOps(items[i], p) \in Seq(S)
    BY <1>1, ItemOpsAre
  <2> HIDE DEF items, n, S
  <2>2. /\ \A i \in 1..n : seqs[i] = ItemOps(items[i], p)
        /\ DOMAIN seqs = 1..n /\ seqs = [i \in 1..n |-> seqs[i]]
    BY <1>1
  <2> HIDE DEF seqs
  <2>3. seqs \in Seq(Seq(S)) /\ Len(seqs) = n
    BY <1>1, <2>1, <2>2
  <2> QED BY <2>2, <2>3
<1>4. CASE n = 0
  <2>1. FlattenSeq(seqs) = seqs
    <3> HIDE DEF seqs, n
    <3> QED BY <1>3, <1>4 DEF FlattenSeq
  <2>2. seqs = <<>>
    <3> HIDE DEF items, n
    <3>1. seqs = [i \in {} |-> ItemOps(items[i], p)]
      BY <1>1, <1>4
    <3> QED BY <3>1
  <2>3. Laid(FlattenSeq(seqs), n, p)
    <3>1. Laid(<<>>, 0, p)
      BY LaidNone
    <3> HIDE DEF seqs, n
    <3> QED BY <1>4, <2>1, <2>2, <3>1
  <2> HIDE DEF seqs
  <2> QED BY <1>2, <2>3
<1>5. CASE n # 0
  <2>1. PICK f : /\ f[1] = seqs[1]
                 /\ \A i \in 2..n : f[i] = f[i - 1] \o seqs[i]
                 /\ FlattenSeq(seqs) = f[n]
    <3> HIDE DEF seqs, n
    <3> QED BY <1>1, <1>3, <1>5, FlattenIs
  <2>2. Laid(f[1], 1, p)
    <3>1. 0 \in Nat /\ 0 + 1 \in DOMAIN items /\ 1 \in 1..n /\ 0 + 1 = 1
      BY <1>1, <1>5
    <3>2. Laid(<<>> \o ItemOps(p.items[0 + 1], p), 0 + 1, p)
      <4>1. Laid(<<>>, 0, p)
        BY LaidNone
      <4> QED BY <3>1, <4>1, LaidStep
    <3>3. ItemOps(items[1], p) \in Seq(OpsOfItems(p))
      BY <1>1, <3>1, ItemOpsAre
    <3>4. <<>> \o ItemOps(items[1], p) = ItemOps(items[1], p)
      BY <3>3, NoneBefore
    <3>5. f[1] = ItemOps(items[1], p)
      <4> HIDE DEF seqs, n, items
      <4> QED BY <1>3, <2>1, <3>1
    <3> QED BY <3>1, <3>2, <3>4, <3>5
  <2>3. \A i \in 1..n : Laid(f[i], i, p)
    <3> DEFINE T == {i \in 1..n : ~Laid(f[i], i, p)}
    <3> SUFFICES ASSUME T # {} PROVE FALSE
      OBVIOUS
    <3>1. T \in SUBSET Nat
      BY <1>1
    <3>2. PICK m \in T : \A k \in T : m <= k
      <4> HIDE DEF T
      <4> QED BY <3>1, Least
    <3>3. CASE m = 1
      BY <2>2, <3>2, <3>3
    <3>4. CASE m # 1
      <4>1. m \in 2..n /\ m - 1 \in 1..n /\ ~(m <= m - 1) /\ m - 1 \in Nat /\ (m - 1) + 1 = m /\ m \in 1..n
        BY <1>1, <3>2, <3>4
      <4>2. Laid(f[m - 1], m - 1, p)
        BY <3>2, <4>1
      <4>3. Laid(f[m - 1] \o ItemOps(p.items[(m - 1) + 1], p), (m - 1) + 1, p)
        <5>1. (m - 1) + 1 \in DOMAIN p.items
          BY <1>1, <4>1
        <5> QED BY <4>1, <4>2, <5>1, LaidStep
      <4>4. f[m] = f[m - 1] \o ItemOps(p.items[m], p)
        <5>1. f[m] = f[m - 1] \o seqs[m] /\ seqs[m] = ItemOps(items[m], p)
          <6> HIDE DEF seqs, n, items
          <6> QED BY <1>3, <2>1, <4>1
        <5> QED BY <5>1
      <4>5. Laid(f[m], m, p)
        BY <4>1, <4>3, <4>4
      <4> QED BY <3>2, <4>5
    <3> QED BY <3>3, <3>4
  <2>4. n \in 1..n
    BY <1>1, <1>5
  <2> HIDE DEF seqs
  <2> QED BY <1>2, <2>1, <2>3, <2>4
<1> QED BY <1>4, <1>5

\* An operation of an item makes its bead or adds a dependency, and is no check
\* for cycles.
LEMMA OpNames ==
    ASSUME NEW p
    PROVE  /\ \A o \in OpsOfItems(p) : o.op \in {"br_create", "br_dep_add"}
           /\ Cycles.op = "br_dep_cycles"
           /\ Cycles \notin OpsOfItems(p)
<1>1. ASSUME NEW o \in OpsOfItems(p) PROVE o.op \in {"br_create", "br_dep_add"}
  <2>1. CASE o \in {Create(item, p) : item \in PlanItems(p)}
    <3>1. PICK item \in PlanItems(p) : o = Create(item, p)
      BY <2>1
    <3> QED BY <3>1 DEF Create
  <2>2. CASE o \in {DepAdd(item, on) : item \in PlanItems(p), on \in Items}
    <3>1. \E item \in PlanItems(p), on \in Items : o = DepAdd(item, on)
      BY <2>2
    <3> QED BY <3>1 DEF DepAdd
  <2> QED BY <2>1, <2>2 DEF OpsOfItems
<1>2. Cycles.op = "br_dep_cycles"
  BY DEF Cycles
<1>3. Cycles \notin OpsOfItems(p)
  <2> DEFINE c == Cycles
  <2>1. c.op = "br_dep_cycles"
    BY <1>2
  <2> HIDE DEF c
  <2>2. c \notin OpsOfItems(p)
    BY <1>1, <2>1
  <2> QED BY <2>2 DEF c
<1> QED BY <1>1, <1>2, <1>3

\* All the operations there are of a plan.
OpsOf(p) == OpsOfItems(p) \cup {Cycles}

\* The check for cycles comes last in the operations of a plan, and each
\* dependency of an item after the beads of the item and of all before it.
LEMMA OperationsAre ==
    ASSUME NEW p \in Plans
    PROVE  /\ Operations(p) \in Seq(OpsOf(p))
           /\ \A x \in 1..Len(Operations(p)) :
                /\ Operations(p)[x] = Cycles => x = Len(Operations(p))
                /\ Operations(p)[x].op = "br_dep_add" => DependsInTime(Operations(p), x, Len(p.items), p)
<1> DEFINE S == OpsOf(p)
           s == Operations(p)
           i == Len(p.items)
           last == <<Cycles>>
<1>1. PICK g : Laid(g, i, p) /\ s = g \o last
  BY OperationsLaid
<1> DEFINE n == Len(g)
<1>2. g \in Seq(OpsOfItems(p)) /\ \A x \in 1..n : g[x].op = "br_dep_add" => DependsInTime(g, x, i, p)
  BY <1>1 DEF Laid
<1>3. n \in Nat /\ \A x \in 1..n : g[x] \in OpsOfItems(p)
  <2> DEFINE T == OpsOfItems(p)
  <2>1. g \in Seq(T)
    BY <1>2
  <2> HIDE DEF T
  <2>2. Len(g) \in Nat /\ \A x \in 1..Len(g) : g[x] \in T
    BY <2>1
  <2> QED BY <2>2 DEF T
<1>4. Cycles \notin OpsOfItems(p)
  BY OpNames
<1>5. g \in Seq(S)
  <2>1. OpsOfItems(p) \subseteq S
    BY DEF OpsOf
  <2> HIDE DEF S
  <2> QED BY <1>2, <2>1, SeqOfMore
<1>6. last \in Seq(S) /\ Len(last) = 1 /\ last[1] = Cycles
  <2>1. Cycles \in S
    BY DEF OpsOf
  <2> DEFINE c == Cycles
  <2> HIDE DEF c, S
  <2>2. <<c>> \in Seq(S) /\ Len(<<c>>) = 1 /\ <<c>>[1] = c
    BY <2>1 DEF c
  <2> QED BY <2>2 DEF c
<1> HIDE DEF S, s, last, n
<1>7. /\ s \in Seq(S) /\ Len(s) = n + 1
      /\ \A x \in 1..n : s[x] = g[x]
      /\ s[n + 1] = Cycles
  <2>1. /\ g \o last \in Seq(S) /\ Len(g \o last) = Len(g) + Len(last)
        /\ \A x \in 1..Len(g) : (g \o last)[x] = g[x]
        /\ \A x \in 1..Len(last) : (g \o last)[Len(g) + x] = last[x]
    <3>1. last \in Seq(S) /\ g \in Seq(S)
      BY <1>5, <1>6
    <3>2. \A t \in Seq(S) : Len(g \o t) = Len(g) + Len(t)
      BY <3>1, Concat
    <3>3. \A t \in Seq(S) : \A x \in 1..Len(t) : (g \o t)[Len(g) + x] = t[x]
      BY <3>1, Concat
    <3>4. \A t \in Seq(S) : \A x \in 1..Len(g) : (g \o t)[x] = g[x]
      BY <3>1, Concat
    <3>5. g \o last \in Seq(S)
      BY <3>1, Concat
    <3> QED BY <3>1, <3>2, <3>3, <3>4, <3>5
  <2>2. /\ s \in Seq(S) /\ Len(s) = Len(g) + Len(last)
        /\ \A x \in 1..Len(g) : s[x] = g[x]
        /\ \A x \in 1..Len(last) : s[Len(g) + x] = last[x]
    BY <1>1, <2>1
  <2>3. 1 \in 1..Len(last)
    BY <1>6
  <2>4. s[Len(g) + 1] = last[1]
    BY <2>2, <2>3
  <2> QED BY <1>6, <2>2, <2>4 DEF n
<1>8. ASSUME NEW x \in 1..Len(s), s[x] = Cycles PROVE x = Len(s)
  BY <1>3, <1>4, <1>7, <1>8
<1>9. ASSUME NEW x \in 1..Len(s), s[x].op = "br_dep_add" PROVE DependsInTime(s, x, i, p)
  <2>1. x # n + 1
    <3> SUFFICES ASSUME x = n + 1 PROVE FALSE
      OBVIOUS
    <3>1. s[x] = Cycles
      BY <1>7
    <3>2. s[x].op = "br_dep_cycles"
      BY <3>1, OpNames
    <3> QED BY <1>9, <3>2
  <2>2. x \in 1..n
    BY <1>3, <1>7, <2>1
  <2>3. s[x] = g[x] /\ DependsInTime(g, x, i, p)
    BY <1>2, <1>7, <1>9, <2>2 DEF n
  <2>4. PICK j \in 1..i : \E k \in DOMAIN p.items[j].deps :
               g[x] = DepAdd(p.items[j], p.items[j].deps[k]) /\ Before(g, x, j, p)
    BY <2>3 DEF DependsInTime
  <2>5. Before(s, x, j, p)
    <3> SUFFICES ASSUME NEW h \in 1..j
                 PROVE  \E y \in 1..(x - 1) : s[y] = Create(p.items[h], p)
      BY DEF Before
    <3>1. PICK y \in 1..(x - 1) : g[y] = Create(p.items[h], p)
      BY <2>4 DEF Before
    <3>2. y \in 1..n
      BY <1>3, <2>2
    <3> QED BY <1>7, <3>1, <3>2
  <2> QED BY <2>3, <2>4, <2>5 DEF DependsInTime
<1> QED BY <1>7, <1>8, <1>9 DEF S, s

-----------------------------------------------------------------------------
(* The saved export. *)

\* e was made from a plan it still names.
SavedAs(e) ==
    /\ e.of \in Plans /\ e.stage = e.of.stage /\ e.ops \in Seq(AnyOperation)

\* Edits leave a trace: as long as nobody has recounted, the summary has the
\* counts it was made with, and edits in one direction change the length.
Traced(e, hows) ==
    /\ "recounted" \notin hows => e.counted = Counts(Operations(e.of))
    /\ hows = {} => e.ops = Operations(e.of)
    /\ hows = {"struck"} => Len(e.ops) < Len(Operations(e.of))
    /\ hows = {"put in"} => Len(e.ops) > Len(Operations(e.of))

\* The verdict, if there is one, is about the saved export as it is.
Saved ==
    export # NoFile => /\ SavedAs(export) /\ Traced(export, touched)
                       /\ verdict # Nothing => verdict = Validation(export)

\* The operations of a plan are among all that there are.
LEMMA OperationsKnown ==
    ASSUME NEW p \in Plans
    PROVE  Operations(p) \in Seq(AnyOperation) /\ Len(Operations(p)) \in Nat
<1> DEFINE o == Operations(p)
<1>1. o \in Seq(OpsOf(p)) /\ Range(o) \subseteq AnyOperation
  BY OperationsAre DEF AnyOperation
<1> HIDE DEF o
<1>2. /\ Len(o) \in Nat /\ DOMAIN o = 1..Len(o)
      /\ \A x \in 1..Len(o) : o[x] \in AnyOperation
      /\ o = [x \in 1..Len(o) |-> o[x]]
  <2> DEFINE S == OpsOf(p)
  <2>1. o \in Seq(S)
    BY <1>1
  <2> HIDE DEF S
  <2>2. Len(o) \in Nat /\ DOMAIN o = 1..Len(o) /\ o = [x \in 1..Len(o) |-> o[x]]
    BY <2>1
  <2> QED BY <1>1, <2>2 DEF Range
<1>3. o \in Seq(AnyOperation) /\ Len(o) \in Nat
  BY <1>2
<1> QED BY <1>3 DEF o

\* Striking an element makes a sequence shorter, putting one in makes it longer.
LEMMA EditedIs ==
    ASSUME NEW S, NEW s \in Seq(S), NEW o \in S
    PROVE  /\ Len(s) \in Nat
           /\ \A i \in 1..Len(s) : RemoveAt(s, i) \in Seq(S) /\ Len(RemoveAt(s, i)) = Len(s) - 1
           /\ \A i \in 1..(Len(s) + 1) :
                InsertAt(s, i, o) \in Seq(S) /\ Len(InsertAt(s, i, o)) = Len(s) + 1
<1> DEFINE n == Len(s)
<1>1. n \in Nat
  OBVIOUS
<1>2. ASSUME NEW i \in 1..n PROVE RemoveAt(s, i) \in Seq(S) /\ Len(RemoveAt(s, i)) = n - 1
  <2> DEFINE front == SubSeq(s, 1, i - 1)
             back == SubSeq(s, i + 1, n)
  <2>1. front \in Seq(S) /\ Len(front) = i - 1 /\ back \in Seq(S) /\ Len(back) = n - i
    BY <1>1
  <2>2. RemoveAt(s, i) = front \o back
    BY DEF RemoveAt
  <2> HIDE DEF front, back
  <2>3. front \o back \in Seq(S) /\ Len(front \o back) = Len(front) + Len(back)
    BY <2>1, Concat
  <2>4. (i - 1) + (n - i) = n - 1
    BY <1>1
  <2> QED BY <2>1, <2>2, <2>3, <2>4
<1>3. ASSUME NEW i \in 1..(n + 1)
      PROVE  InsertAt(s, i, o) \in Seq(S) /\ Len(InsertAt(s, i, o)) = n + 1
  <2> DEFINE front == SubSeq(s, 1, i - 1)
             mid == <<o>>
             back == SubSeq(s, i, n)
  <2>1. /\ front \in Seq(S) /\ Len(front) = i - 1 /\ back \in Seq(S) /\ Len(back) = n + 1 - i
        /\ mid \in Seq(S) /\ Len(mid) = 1
    BY <1>1
  <2>2. InsertAt(s, i, o) = (front \o mid) \o back
    BY DEF InsertAt
  <2> HIDE DEF front, mid, back
  <2>3. front \o mid \in Seq(S) /\ Len(front \o mid) = Len(front) + Len(mid)
    BY <2>1, Concat
  <2> DEFINE first == front \o mid
  <2>4. first \in Seq(S) /\ Len(first) = i
    BY <1>1, <2>1, <2>3
  <2>5. InsertAt(s, i, o) = first \o back
    BY <2>2
  <2> HIDE DEF first
  <2>6. first \o back \in Seq(S) /\ Len(first \o back) = Len(first) + Len(back)
    BY <2>1, <2>4, Concat
  <2>7. i + (n + 1 - i) = n + 1
    BY <1>1
  <2> QED BY <2>1, <2>4, <2>5, <2>6, <2>7
<1> QED BY <1>1, <1>2, <1>3 DEF n

\* An export that is made from a plan is saved as it was made.
LEMMA MadeAs ==
    ASSUME NEW p \in Plans
    PROVE  SavedAs(ExportFromPlan(p)) /\ Traced(ExportFromPlan(p), {})
<1> DEFINE e == ExportFromPlan(p)
<1>1. e.of = p /\ e.stage = p.stage /\ e.ops = Operations(p) /\ e.counted = Counts(Operations(p))
  BY DEF ExportFromPlan
<1> HIDE DEF e
<1>2. SavedAs(e) /\ Traced(e, {})
  BY <1>1, OperationsKnown DEF SavedAs, Traced
<1> QED BY <1>2 DEF e

\* What comparing lengths comes down to.
LEMMA LengthsCompare ==
    /\ \A S : \A s \in Seq(S) : Len(s) \in Nat
    /\ \A l, m, n \in Nat :
         /\ l < m /\ (m = n \/ m < n) => l < n
         /\ l > m /\ (m = n \/ m > n) => l > n
         /\ m = n => ~(m < n) /\ ~(m > n)
  OBVIOUS

\* An edit leaves its trace: a shorter list of operations, a longer one, or a
\* summary that is not the one the export was made with.
LEMMA EditLeavesTrace ==
    ASSUME Saved, export # NoFile,
           NEW how, NEW new \in Seq(AnyOperation), NEW counted,
           Edited(how, new, counted),
           how # "recounted" => counted = export.counted,
           how = "struck" => Len(new) < Len(export.ops),
           how = "put in" => Len(new) > Len(export.ops)
    PROVE  Saved'
<1> DEFINE p == export.of
           made == Operations(p)
           n == Len(made)
           m == Len(export.ops)
           l == Len(new)
<1>1. /\ p \in Plans /\ export.stage = p.stage /\ export.ops \in Seq(AnyOperation)
      /\ Traced(export, touched)
  BY DEF Saved, SavedAs
<1>2. export' = [of |-> p, stage |-> export.stage, ops |-> new, counted |-> counted]
  BY DEF Edited
<1>3. touched' = touched \cup {how} /\ verdict' = Nothing
  BY DEF Edited
<1>4. export'.of = p /\ export'.stage = p.stage /\ export'.ops = new /\ export'.counted = counted
  BY <1>1, <1>2
<1>5. l \in Nat /\ m \in Nat /\ n \in Nat
  <2>1. made \in Seq(AnyOperation)
    BY <1>1, OperationsKnown
  <2> QED BY Zenon, <1>1, <2>1, LengthsCompare
<1>6. /\ "recounted" \notin touched => export.counted = Counts(made)
      /\ touched = {} => m = n
      /\ touched = {"struck"} => m < n
      /\ touched = {"put in"} => m > n
  BY <1>1 DEF Traced
<1>7. "recounted" \notin touched' => export'.counted = Counts(made)
  BY <1>3, <1>4, <1>6
<1>8. ASSUME touched' = {"struck"} PROVE l < n
  <2>1. how = "struck" /\ (touched = {} \/ touched = {"struck"})
    BY <1>3, <1>8
  <2>2. l < m
    BY <2>1
  <2>3. m = n \/ m < n
    BY <1>6, <2>1
  <2> HIDE DEF l, m, n
  <2> QED BY Zenon, <1>5, <2>2, <2>3, LengthsCompare
<1>9. ASSUME touched' = {"put in"} PROVE l > n
  <2>1. how = "put in" /\ (touched = {} \/ touched = {"put in"})
    BY <1>3, <1>9
  <2>2. l > m
    BY <2>1
  <2>3. m = n \/ m > n
    BY <1>6, <2>1
  <2> HIDE DEF l, m, n
  <2> QED BY Zenon, <1>5, <2>2, <2>3, LengthsCompare
<1>10. touched' # {}
  BY <1>3
<1>11. Traced(export', touched')
  BY <1>4, <1>7, <1>8, <1>9, <1>10 DEF Traced
<1>12. SavedAs(export')
  BY <1>1, <1>4 DEF SavedAs
<1> QED BY Zenon, <1>3, <1>11, <1>12 DEF Saved, SavedAs, Traced

\* Whoever edits the saved export keeps it one.
LEMMA EditKeepsSaved ==
    ASSUME Saved, Strike \/ PutIn \/ Change \/ Recount
    PROVE  Saved'
<1> DEFINE s == export.ops
           S == AnyOperation
<1>1. export # NoFile
  BY DEF Strike, PutIn, Change, Recount
<1>2. s \in Seq(S)
  BY <1>1 DEF Saved, SavedAs
<1>3. CASE Strike
  <2>1. PICK i \in DOMAIN s : Edited("struck", RemoveAt(s, i), export.counted)
    BY <1>3 DEF Strike
  <2>2. RemoveAt(s, i) \in Seq(S) /\ Len(RemoveAt(s, i)) < Len(s)
    <3> HIDE DEF s, S
    <3>1. i \in 1..Len(s) /\ Len(s) \in Nat
      BY <1>2, <2>1
    <3>2. RemoveAt(s, i) \in Seq(S) /\ Len(RemoveAt(s, i)) = Len(s) - 1
      BY <1>2, <3>1, EditedIs
    <3> QED BY <3>1, <3>2
  <2> QED BY <1>1, <2>1, <2>2, EditLeavesTrace
<1>4. CASE PutIn
  <2>1. PICK i \in 1..(Len(s) + 1), o \in S : Edited("put in", InsertAt(s, i, o), export.counted)
    BY <1>4 DEF PutIn
  <2>2. InsertAt(s, i, o) \in Seq(S) /\ Len(InsertAt(s, i, o)) > Len(s)
    <3> HIDE DEF s, S
    <3>1. InsertAt(s, i, o) \in Seq(S) /\ Len(InsertAt(s, i, o)) = Len(s) + 1 /\ Len(s) \in Nat
      BY <1>2, <2>1, EditedIs
    <3> QED BY <3>1
  <2> QED BY <1>1, <2>1, <2>2, EditLeavesTrace
<1>5. CASE Change
  <2>1. PICK i \in DOMAIN s, o \in S : Edited("changed", [s EXCEPT ![i] = o], export.counted)
    BY <1>5 DEF Change
  <2>2. [s EXCEPT ![i] = o] \in Seq(S)
    <3> HIDE DEF s, S
    <3>1. s \in [1..Len(s) -> S] /\ Len(s) \in Nat
      BY <1>2
    <3>2. [s EXCEPT ![i] = o] \in [1..Len(s) -> S]
      BY <2>1, <3>1
    <3> QED BY <3>1, <3>2, SMT
  <2> QED BY <1>1, <2>1, <2>2, EditLeavesTrace
<1>6. CASE Recount
  <2>1. Edited("recounted", s, Counts(s))
    BY <1>6 DEF Recount
  <2> QED BY <1>1, <1>2, <2>1, EditLeavesTrace
<1> QED BY <1>3, <1>4, <1>5, <1>6

\* What every step does to the saved export.
LEMMA SavedStep ==
    ASSUME ExportInv, Saved, [Next]_vars
    PROVE  Saved'
<1>1. plan \in Plans
  BY DEF ExportInv, ExportTypes
<1>2. CASE Generate
  <2>1. SavedAs(export') /\ Traced(export', touched') /\ verdict' = Validation(export')
    BY <1>1, <1>2, MadeAs DEF Generate
  <2> QED BY Zenon, <2>1 DEF Saved, SavedAs, Traced, Validation, ExportErrors, ExportDrifts
<1>3. CASE ValidateSaved
  <2>1. /\ export' = export /\ export # NoFile /\ verdict' = Validation(export)
        /\ touched' = touched
    BY <1>3 DEF ValidateSaved
  <2> QED BY Zenon, <2>1 DEF Saved
<1>4. CASE Strike \/ PutIn \/ Change \/ Recount
  BY <1>4, EditKeepsSaved
<1>5. ASSUME export' = export, verdict' = verdict, touched' = touched PROVE Saved'
  BY Zenon, <1>5 DEF Saved
<1>6. CASE EditPlan
  BY <1>5, <1>6 DEF EditPlan
<1>7. ASSUME NEW p \in Exporters, BeginExport(p) \/ ExportItem(p) \/ EndExport(p) \/ KillExport(p)
      PROVE  Saved'
  <2>1. export' = export /\ verdict' = verdict /\ touched' = touched
    BY <1>7 DEF BeginExport, ExportItem, EndExport, KillExport
  <2> QED BY <1>5, <2>1
<1>8. CASE UNCHANGED vars
  <2>1. export' = export /\ verdict' = verdict /\ touched' = touched
    BY <1>8 DEF vars
  <2> QED BY <1>5, <2>1
<1> QED BY <1>2, <1>3, <1>4, <1>6, <1>7, <1>8 DEF Next

\* A saved export is always one that was made from a plan, and its verdict is
\* about it as it is; what its summary and its length tell of the edits is Traced.
THEOREM AlwaysSaved == Spec => []Saved
<1>1. Init => Saved
  BY DEF Init, Saved
<1>2. ExportInv /\ Saved /\ [Next]_vars => Saved'
  BY SavedStep
<1> QED BY <1>1, <1>2, ExportAlways, PTL DEF Spec

-----------------------------------------------------------------------------
(* What a validation that goes well says of the saved export. *)

\* What the validation looks for.
LEMMA NoErrors ==
    ASSUME NEW e, ExportErrors(e) = {}
    PROVE  /\ e.stage = "bead_export_ready"
           /\ Cycles \in Range(e.ops)
           /\ \A o \in Range(e.ops) : o.op = "br_create" => o.criteria # {} /\ o.tests # {} /\ o.traced
<1> DEFINE all == Range(e.ops)
           created == {o \in all : o.op = "br_create"}
           codes == {"stage", "create_ops", "cycle_check", "bead_body", "trace"}
           found(code) ==
               CASE code = "stage" -> e.stage # "bead_export_ready"
                 [] code = "create_ops" -> created = {}
                 [] code = "cycle_check" -> Cycles \notin all
                 [] code = "bead_body" -> \E o \in created : o.criteria = {} \/ o.tests = {}
                 [] code = "trace" -> \E o \in created : ~o.traced
<1>1. ExportErrors(e) = {code \in codes : found(code)}
  BY DEF ExportErrors
<1>2. \A code \in codes : ~found(code)
  <2> HIDE DEF found, codes
  <2> QED BY <1>1
<1>3. /\ "stage" \in codes /\ "cycle_check" \in codes /\ "bead_body" \in codes /\ "trace" \in codes
      /\ found("stage") = (e.stage # "bead_export_ready")
      /\ found("cycle_check") = (Cycles \notin all)
      /\ found("bead_body") = (\E o \in created : o.criteria = {} \/ o.tests = {})
      /\ found("trace") = (\E o \in created : ~o.traced)
  <2> HIDE DEF all, created
  <2> QED OBVIOUS
<1>4. /\ e.stage = "bead_export_ready" /\ Cycles \in all
      /\ ~\E o \in created : o.criteria = {} \/ o.tests = {}
      /\ ~\E o \in created : ~o.traced
  <2> HIDE DEF all, created, found, codes
  <2> QED BY <1>2, <1>3
<1> QED BY <1>4

\* Where all edits went one way, the summary does not drift only if there were
\* none.
LEMMA NoDriftMeansWhole ==
    ASSUME NEW e, NEW hows, SavedAs(e), Traced(e, hows), ~ExportDrifts(e),
           hows \subseteq {"struck"} \/ hows \subseteq {"put in"}
    PROVE  e.ops = Operations(e.of)
<1> DEFINE n == Len(Operations(e.of))
           m == Len(e.ops)
<1>1. hows = {} \/ hows = {"struck"} \/ hows = {"put in"}
  OBVIOUS
<1>2. e.counted = Counts(Operations(e.of)) /\ e.of \in Plans
  BY <1>1 DEF SavedAs, Traced
<1>3. Counts(e.ops) = Counts(Operations(e.of))
  BY <1>2 DEF ExportDrifts
<1>4. m = n /\ n \in Nat
  BY <1>2, <1>3, OperationsKnown DEF Counts
<1>5. ~(m < n) /\ ~(m > n)
  <2> HIDE DEF m, n
  <2> QED BY Zenon, <1>4, LengthsCompare
<1> QED BY <1>1, <1>5 DEF Traced

\* A bead among the operations of a plan is one of an item of the plan.
LEMMA BeadsOfItems ==
    ASSUME NEW p \in Plans, NEW o \in Range(Operations(p)), o.op = "br_create"
    PROVE  \E item \in PlanItems(p) : o = Create(item, p)
<1>1. o \in OpsOf(p)
  <2> DEFINE s == Operations(p)
             S == OpsOf(p)
  <2>1. s \in Seq(S) /\ o \in Range(s)
    BY OperationsAre
  <2> HIDE DEF s, S
  <2>2. o \in S
    BY <2>1 DEF Range
  <2> QED BY <2>2 DEF S
<1>2. o # Cycles
  BY OpNames
<1>3. o \in OpsOfItems(p)
  BY <1>1, <1>2 DEF OpsOf
<1>4. o \notin {DepAdd(item, on) : item \in PlanItems(p), on \in Items}
  BY DEF DepAdd
<1> QED BY <1>3, <1>4 DEF OpsOfItems

\* The verdict on a saved export tells what QuietMeansWhole says of it.
LEMMA SavedMeansWhole == Saved => QuietMeansWhole
<1> SUFFICES ASSUME Saved, export # NoFile, verdict # Nothing, verdict.ok
             PROVE  /\ ~verdict.warned /\ OneWay => export.ops = Operations(export.of)
                    /\ Cycles \in Range(export.ops) /\ export.of.stage = "bead_export_ready"
                    /\ \A o \in Range(export.ops) \cap Range(Operations(export.of)) :
                         o.op = "br_create" =>
                           \E item \in PlanItems(export.of) :
                             /\ item.id = o.item /\ item.traced
                             /\ o.criteria # {} /\ o.criteria \subseteq item.criteria
                             /\ o.tests # {} /\ o.tests \subseteq item.tests
                             /\ item.criteria \subseteq export.of.criteria => o.criteria = item.criteria
  BY DEF QuietMeansWhole
<1> DEFINE e == export
           p == e.of
<1>1. SavedAs(e) /\ Traced(e, touched) /\ p \in Plans /\ verdict = Validation(e)
  BY DEF Saved, SavedAs
<1>2. ExportErrors(e) = {} /\ verdict.warned = ExportDrifts(e)
  BY <1>1 DEF Validation
<1>3. ~verdict.warned /\ OneWay => e.ops = Operations(p)
  BY <1>1, <1>2, NoDriftMeansWhole DEF OneWay
<1>4. e.stage = p.stage
  BY <1>1 DEF SavedAs
<1>5. /\ p.stage = "bead_export_ready" /\ Cycles \in Range(e.ops)
      /\ \A o \in Range(e.ops) : o.op = "br_create" => o.criteria # {} /\ o.tests # {} /\ o.traced
  BY <1>2, <1>4, NoErrors
<1>6. ASSUME NEW o \in Range(e.ops) \cap Range(Operations(p)), o.op = "br_create"
      PROVE  \E item \in PlanItems(p) :
               /\ item.id = o.item /\ item.traced
               /\ o.criteria # {} /\ o.criteria \subseteq item.criteria
               /\ o.tests # {} /\ o.tests \subseteq item.tests
               /\ item.criteria \subseteq p.criteria => o.criteria = item.criteria
  <2>1. PICK item \in PlanItems(p) : o = Create(item, p)
    BY <1>1, <1>6, BeadsOfItems
  <2>2. /\ o.item = item.id /\ o.criteria = item.criteria \cap p.criteria
        /\ o.tests = item.tests \cap p.tests
        /\ o.traced = (item.traced /\ item.tests # {})
    BY <2>1 DEF Create, LookedUp
  <2>3. o.criteria # {} /\ o.tests # {} /\ o.traced
    BY <1>5, <1>6
  <2>4. item.traced
    BY <2>2, <2>3
  <2> QED BY <2>2, <2>3, <2>4
<1> QED BY <1>3, <1>5, <1>6

\* A saved export that validates without a warning is what it was made as, unless
\* edits went both ways, and one that validates at all has the cycle check, a
\* plan that was ready and beads with what the items of the plan name.
THEOREM QuietAlwaysMeansWhole == Spec => []QuietMeansWhole
BY SavedMeansWhole, AlwaysSaved, PTL

\* In an export that has all of its operations the beads of a dependency come
\* before it, if the plan is in order.
LEMMA WholeAppliesInOrder ==
    ASSUME NEW p \in Plans, Ordered(p), NEW x \in 1..Len(Operations(p)),
           Operations(p)[x].op = "br_dep_add",
           NEW d \in {<<Operations(p)[x].item, Operations(p)[x].bead>>,
                      <<Operations(p)[x].on, Operations(p)[x].needs>>}
    PROVE  \E y \in 1..(x - 1) : /\ Operations(p)[y].op = "br_create"
                                  /\ <<Operations(p)[y].item, Operations(p)[y].name>> = d
<1> DEFINE s == Operations(p)
<1>1. PICK j \in 1..Len(p.items) : \E k \in DOMAIN p.items[j].deps :
             s[x] = DepAdd(p.items[j], p.items[j].deps[k]) /\ Before(s, x, j, p)
  BY OperationsAre DEF DependsInTime
<1>2. PICK k \in DOMAIN p.items[j].deps :
             s[x] = DepAdd(p.items[j], p.items[j].deps[k]) /\ Before(s, x, j, p)
  BY <1>1
<1>3. /\ s[x].item = p.items[j].id /\ s[x].on = p.items[j].deps[k]
      /\ s[x].bead = Slug[s[x].item] /\ s[x].needs = Slug[s[x].on]
  BY <1>2 DEF DepAdd
<1>4. j \in DOMAIN p.items /\ j \in Nat
  <2> DEFINE items == p.items
  <2>1. items \in Seq(PlanItems(p)) /\ j \in 1..Len(items)
    BY PlansAreOfItems
  <2> HIDE DEF items
  <2>2. j \in DOMAIN items /\ j \in Nat
    BY <2>1
  <2> QED BY <2>2 DEF items
<1> DEFINE id == d[1]
<1>0. d = <<id, Slug[id]>> /\ id \in {s[x].item, s[x].on}
  BY <1>3
<1> HIDE DEF id
<1>5. PICK h \in 1..j : p.items[h].id = id
  <2>1. CASE id = s[x].item
    <3>1. j \in 1..j
      BY <1>1, <1>4
    <3> QED BY <1>3, <2>1, <3>1
  <2>2. CASE id = s[x].on
    <3>1. PICK h \in 1..(j - 1) : p.items[h].id = p.items[j].deps[k]
      BY <1>2, <1>4 DEF Ordered
    <3>2. h \in 1..j
      BY <1>4
    <3> QED BY <1>3, <2>2, <3>1, <3>2
  <2> QED BY <1>0, <2>1, <2>2
<1>6. PICK y \in 1..(x - 1) : s[y] = Create(p.items[h], p)
  BY <1>2 DEF Before
<1>7. s[y].op = "br_create" /\ s[y].item = id /\ s[y].name = Slug[id]
  BY <1>5, <1>6 DEF Create
<1> QED BY <1>0, <1>7

\* So it is in a saved export that validates without a warning, unless edits
\* went both ways.
LEMMA SavedAppliesInOrder == Saved => AppliesInOrder
<1> DEFINE Before2(s, i, d) ==
             \E j \in 1..(i - 1) : s[j].op = "br_create" /\ <<s[j].item, s[j].name>> = d
<1> SUFFICES ASSUME Saved, export # NoFile, verdict # Nothing, Ordered(export.of),
                    NEW i \in DOMAIN export.ops, ~verdict.warned, OneWay
             PROVE  /\ export.ops[i].op = "br_dep_add" =>
                         \A d \in {<<export.ops[i].item, export.ops[i].bead>>,
                                   <<export.ops[i].on, export.ops[i].needs>>} :
                           Before2(export.ops, i, d)
                    /\ export.ops[i] = Cycles => i = Len(export.ops)
  BY DEF AppliesInOrder
<1> DEFINE p == export.of
           s == Operations(p)
<1>1. SavedAs(export) /\ Traced(export, touched) /\ p \in Plans /\ verdict = Validation(export)
  BY DEF Saved, SavedAs
<1>2. ~ExportDrifts(export)
  BY <1>1 DEF Validation
<1>3. export.ops = s
  BY <1>1, <1>2, NoDriftMeansWhole DEF OneWay
<1>4. i \in 1..Len(s)
  <2> HIDE DEF p
  <2>1. s \in Seq(AnyOperation) /\ i \in DOMAIN s
    BY <1>1, <1>3, OperationsKnown
  <2> HIDE DEF s
  <2> QED BY <2>1
<1> HIDE DEF p
<1>5. s[i] = Cycles => i = Len(s)
  BY <1>1, <1>4, OperationsAre
<1>6. ASSUME s[i].op = "br_dep_add",
             NEW d \in {<<s[i].item, s[i].bead>>, <<s[i].on, s[i].needs>>}
      PROVE  Before2(s, i, d)
  BY <1>1, <1>4, <1>6, WholeAppliesInOrder DEF p
<1> HIDE DEF s, Before2
<1> QED BY <1>3, <1>5, <1>6

\* The operations of a saved export that validates without a warning can be
\* applied one after the other, if its plan is in order.
THEOREM AlwaysAppliesInOrder == Spec => []AppliesInOrder
BY SavedAppliesInOrder, AlwaysSaved, PTL
=============================================================================
