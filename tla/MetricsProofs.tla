---------------------------- MODULE MetricsProofs ----------------------------
(***************************************************************************)
(* Proofs about Metrics, for every number of processes, every set of       *)
(* rounds and either way of locking.                                       *)
(*                                                                         *)
(* A write puts back what was read before it.  The invariant says whose    *)
(* lock protects what between the two, and what those who write without a  *)
(* lock may still do meanwhile.                                            *)
(***************************************************************************)
EXTENDS Metrics, WellFoundedInduction, TLAPS

\* p is in a function that has taken the lock.
Holding(p) ==
    stage[p] \in Locked /\ pc[p] \in {"sign", "look", "put", "load", "store", "unlock", "abort"}

\* Where a process can be, and what it has to do there.
Shape ==
    /\ useFlock => note = NoNote
    /\ \A p \in Procs :
         /\ pc[p] \in {"lock", "sign", "stale", "store", "unlock", "abort"} => stage[p] \in Locked
         /\ pc[p] \in {"sign", "stale"} => ~useFlock
         /\ pc[p] = "idle" => stage[p] = "none"
         /\ stage[p] = "round" \/ (pc[p] = "idle" /\ job[p] = "record") => todo[p] # {}

\* Who is past the lock has it, until a lock file is taken from a live owner.
Exclusive ==
    ~breach => \A p \in Procs : Holding(p) => IF useFlock THEN owner = p ELSE note.by = p

\* What a process has read is still in the file, and at the moment of a locked
\* write it is all the file has.
Grounds(p) ==
    /\ buf[p].conv \subseteq buf[p].rounds
    /\ pc[p] = "put" => buf[p].rounds \subseteq file.rounds
    /\ pc[p] = "store" => buf[p].rounds = file.rounds
    /\ stage[p] = "conv" => seen[p] \subseteq file.rounds
    /\ pc[p] = "unlock" /\ stage[p] = "round" => Current(p) \in file.rounds \cup swallowed

Clean == ~erased /\ ~breach

Grounded ==
    Clean => /\ \A p \in Procs : Grounds(p)
             /\ reported \ swallowed \subseteq file.rounds
             /\ file.conv \subseteq file.rounds

\* A process that is on its own finds the file as it has left it.
Repairs(p) ==
    stage[p] = "conv" =>
        /\ pc[p] # "abort" /\ seen[p] = file.rounds
        /\ pc[p] = "put" => buf[p].version = "new" /\ buf[p].rounds = file.rounds
        /\ pc[p] \in {"load", "store", "unlock"} => file.version = "new"
        /\ pc[p] = "store" => buf[p] = file
        /\ pc[p] = "unlock" => file.conv = file.rounds

Alone == \A p \in solo : Active \subseteq {p} /\ Repairs(p)

MetricsInv == Shape /\ Exclusive /\ Grounded /\ Alone
-----------------------------------------------------------------------------
(* Rounds and files. *)

\* The least of the rounds that are left is one of them.
LEMMA CurrentIsLeft ==
    ASSUME NEW S, S \subseteq Rounds, S # {}
    PROVE  Min(S) \in S
<1>1. S \subseteq Nat
  BY MetricsAssumption
<1>2. PICK x \in S : \A y \in S : <<y, x>> \notin OpToRel(<, Nat)
  BY <1>1, NatLessThanWellFounded, WFMin
<1>3. \A y \in S : ~(y < x)
  BY <1>1, <1>2, Zenon DEF OpToRel
<1>4. \A y \in S : x <= y
  BY <1>1, <1>3
<1> QED BY <1>4 DEF Min

\* The fields of the files that are written have the types of a file's fields.
LEMMA FileTypes ==
    /\ NoFile \in Files /\ Default \in Files /\ Broken \in Files
    /\ \A f \in Files : /\ f.rounds \subseteq Rounds /\ f.conv \subseteq Rounds
                       /\ [f EXCEPT !.version = "new"] \in Files
                       /\ \A S \in SUBSET Rounds : /\ [f EXCEPT !.conv = S] \in Files
                                                  /\ [f EXCEPT !.rounds = S] \in Files
BY DEF Files, NoFile, Default, Broken

\* A process that moves moves alone.
LEMMA Moves ==
    ASSUME TypeOK, NEW p \in Procs, NEW s \in Stages, NEW l \in PCs, Goto(p, s, l)
    PROVE  /\ stage' \in [Procs -> Stages] /\ pc' \in [Procs -> PCs]
           /\ stage'[p] = s /\ pc'[p] = l
           /\ \A q \in Procs \ {p} : stage'[q] = stage[q] /\ pc'[q] = pc[q]
BY DEF TypeOK, Goto

\* Where a process goes when the function it is in is done.
LEMMA Advances ==
    ASSUME TypeOK, NEW p \in Procs, Advance(p)
    PROVE  /\ todo' \in [Procs -> SUBSET Rounds]
           /\ stage' \in [Procs -> Stages] /\ pc' \in [Procs -> PCs]
           /\ \A q \in Procs \ {p} : stage'[q] = stage[q] /\ pc'[q] = pc[q] /\ todo'[q] = todo[q]
           /\ \/ pc'[p] = "lock" /\ stage'[p] \in Locked
              \/ pc'[p] = "look" /\ stage'[p] \in {"read", "show"}
              \/ pc'[p] = "over" /\ stage'[p] = "none"
           /\ stage'[p] = "round" => todo'[p] # {}
           /\ stage'[p] = "conv" => stage[p] = "read"
<1> DEFINE left == IF stage[p] = "round" THEN todo[p] \ {Current(p)} ELSE todo[p]
<1>1. left \in SUBSET Rounds /\ todo' = [todo EXCEPT ![p] = left]
  BY DEF Advance, TypeOK
<1> HIDE DEF left
<1>2. /\ todo' \in [Procs -> SUBSET Rounds] /\ todo'[p] = left
      /\ \A q \in Procs \ {p} : todo'[q] = todo[q]
  BY <1>1 DEF TypeOK
<1>3. \/ left # {} /\ Goto(p, "round", "lock")
      \/ Goto(p, "read", "look")
      \/ stage[p] = "read" /\ Goto(p, "conv", "lock")
      \/ Goto(p, "show", "look")
      \/ Goto(p, "none", "over")
  BY DEF Advance, Enter, Locked, left
<1> QED BY <1>2, <1>3, Moves DEF Stages, Locked, PCs, Ended

\* Where it goes when that fails.
LEMMA FailsOrGoesOn ==
    ASSUME NEW p \in Procs, Fail(p)
    PROVE  \/ Advance(p) /\ stage[p] # "read"
           \/ Goto(p, "none", "over") /\ UNCHANGED todo
BY DEF Fail
-----------------------------------------------------------------------------
(* Types. *)

\* The store starts with a file that some earlier run wrote.
LEMMA InitTypes == Init => TypeOK
<1> SUFFICES ASSUME Init PROVE TypeOK
  OBVIOUS
<1>1. note \in Notes
  <2>1. note = NoNote \/ note = [by |-> OldPid, signed |-> TRUE]
    BY DEF Init
  <2>2. [by |-> OldPid, signed |-> TRUE] \in Notes
    BY DEF Notes
  <2> QED BY <2>1, <2>2 DEF Notes
<1>2. file \in Files
  BY FileTypes DEF Init
<1>3. /\ useFlock \in BOOLEAN /\ owner \in Procs \cup {NoProc} /\ faults \in Nat
      /\ erased \in BOOLEAN /\ breach \in BOOLEAN
  BY MetricsAssumption DEF Init
<1>4. /\ suspect \in [Procs -> Procs \cup {NoProc, OldPid}]
      /\ stage \in [Procs -> Stages] /\ pc \in [Procs -> PCs]
      /\ buf \in [Procs -> Files] /\ seen \in [Procs -> SUBSET Rounds]
  BY FileTypes DEF Init, Stages, PCs
<1>5. /\ job \in [Procs -> Jobs] /\ todo \in [Procs -> SUBSET Rounds]
      /\ reported \subseteq Rounds /\ swallowed \subseteq Rounds /\ solo \subseteq Procs
  BY DEF Init
<1> QED BY <1>1, <1>2, <1>3, <1>4, <1>5 DEF TypeOK

\* A step of p changes no variable of another process.
LEMMA Untouched ==
    ASSUME TypeOK, NEW p \in Procs, Begin(p) \/ LockStep(p) \/ FileStep(p) \/ Kill(p)
    PROVE  /\ UNCHANGED jobVars
           /\ \A q \in Procs \ {p} :
                /\ stage'[q] = stage[q] /\ pc'[q] = pc[q] /\ todo'[q] = todo[q]
                /\ buf'[q] = buf[q] /\ seen'[q] = seen[q]
<1> USE DEF TypeOK, Goto, Step, Enter
<1>1. CASE Begin(p)
  BY <1>1 DEF Begin
<1>2. CASE LockStep(p)
  <2>1. CASE LockFails(p) \/ Unlock(p)
    <3>1. UNCHANGED <<jobVars, buf, seen>> /\ (Advance(p) \/ Fail(p))
      BY <2>1 DEF LockFails, Unlock
    <3>2. Advance(p) \/ (Goto(p, "none", "over") /\ UNCHANGED todo)
      BY <3>1, FailsOrGoesOn
    <3>3. CASE Advance(p)
      BY <3>1, <3>3, Advances
    <3> QED BY <3>1, <3>2, <3>3
  <2> QED BY <1>2, <2>1 DEF LockStep, Flock, Create, Sign, ReadNote, FindStale, RemoveStale
<1>3. CASE FileStep(p)
  <2>1. CASE Look(p)
    BY <2>1, Advances DEF Look
  <2>2. CASE Put(p) \/ PutFails(p) \/ MigrateFails(p)
    <3>1. UNCHANGED <<jobVars, buf, seen>>
      BY <2>2 DEF Put, PutFails, MigrateFails
    <3>2. \/ Advance(p) \/ Fail(p)
          \/ UNCHANGED todo /\ (Step(p, "load") \/ Step(p, "abort"))
      BY <2>2 DEF Put, PutFails, MigrateFails
    <3>3. CASE Advance(p)
      BY <3>1, <3>3, Advances
    <3>4. CASE Goto(p, "none", "over") /\ UNCHANGED todo
      BY <3>1, <3>4
    <3> QED BY <3>1, <3>2, <3>3, <3>4, FailsOrGoesOn
  <2>3. CASE Load(p)
    BY <2>3, Advances DEF Load
  <2>4. CASE Store(p) \/ StoreFails(p)
    BY <2>4 DEF Store, StoreFails
  <2> QED BY <1>3, <2>1, <2>2, <2>3, <2>4 DEF FileStep
<1>4. CASE Kill(p)
  BY <1>4 DEF Kill
<1>5. UNCHANGED jobVars
  BY DEF Begin, LockStep, Flock, Create, Sign, ReadNote, FindStale, RemoveStale, LockFails, Unlock,
         FileStep, Look, MigrateFails, Put, PutFails, Load, Store, StoreFails, Kill, jobVars
<1> QED BY <1>1, <1>2, <1>3, <1>4, <1>5

\* Locking keeps the types.
LEMMA LockTypes == ASSUME TypeOK, Shape, NEW p \in Procs, LockStep(p) PROVE TypeOK'
<1> USE DEF jobVars, lockVars, ghostVars
<1>1. /\ todo' \in [Procs -> SUBSET Rounds]
      /\ stage' \in [Procs -> Stages] /\ pc' \in [Procs -> PCs]
  <2>1. CASE LockFails(p) \/ Unlock(p)
    <3>1. CASE Advance(p)
      BY <3>1, Advances
    <3>2. CASE Goto(p, "none", "over") /\ UNCHANGED todo
      BY <3>2, Moves DEF TypeOK, Stages, PCs, Ended
    <3> QED BY <2>1, <3>1, <3>2, FailsOrGoesOn DEF LockFails, Unlock
  <2>2. CASE Flock(p) \/ Create(p) \/ Sign(p) \/ FindStale(p) \/ RemoveStale(p)
    <3>1. UNCHANGED todo /\ \E l \in {"look", "sign", "stale", "lock"} : Step(p, l)
      BY <2>2 DEF Flock, Create, Sign, ReadNote, FindStale, RemoveStale
    <3> QED BY <3>1, Moves DEF Step, TypeOK, PCs
  <2>3. CASE ReadNote(p)
    BY <2>3 DEF ReadNote, TypeOK
  <2> QED BY <2>1, <2>2, <2>3 DEF LockStep
<1>2. note' \in Notes
  <2>1. CASE Create(p)
    BY <2>1 DEF Create, Notes
  <2>2. CASE Sign(p)
    BY <2>2, MetricsAssumption DEF Sign, Notes, NoNote, TypeOK
  <2> QED BY <2>1, <2>2
          DEF LockStep, Flock, ReadNote, FindStale, RemoveStale, LockFails, Unlock, Notes, TypeOK
<1>7. suspect' \in [Procs -> Procs \cup {NoProc, OldPid}]
  <2>1. CASE ReadNote(p)
    BY <2>1 DEF ReadNote, TypeOK, Notes, NoNote
  <2>2. CASE Create(p) \/ RemoveStale(p)
    BY <2>2 DEF Create, RemoveStale, TypeOK
  <2> QED BY <2>1, <2>2 DEF LockStep, Flock, Sign, FindStale, LockFails, Unlock, TypeOK
<1>3. owner' \in Procs \cup {NoProc} /\ breach' \in BOOLEAN
  BY DEF TypeOK, LockStep, Flock, Create, Sign, ReadNote, FindStale, RemoveStale, LockFails, Unlock
<1>4. reported' \subseteq Rounds
  <2>1. CASE Unlock(p) /\ stage[p] = "round" /\ pc[p] = "unlock"
    <3>1. Current(p) \in Rounds
      BY <2>1, CurrentIsLeft DEF Shape, TypeOK, Current
    <3> QED BY <2>1, <3>1 DEF Unlock, TypeOK
  <2> QED BY <2>1 DEF TypeOK, LockStep, Flock, Create, Sign, ReadNote, FindStale, RemoveStale, LockFails, Unlock
<1>5. /\ UNCHANGED <<useFlock, job, buf, seen, file, swallowed, erased, faults>>
      /\ solo' \subseteq Procs
  BY DEF TypeOK, LockStep, Flock, Create, Sign, ReadNote, FindStale, RemoveStale, LockFails, Unlock
<1> QED BY <1>1, <1>2, <1>3, <1>4, <1>5, <1>7 DEF TypeOK

\* Reading and writing keep the types.
LEMMA FileStepTypes == ASSUME TypeOK, Shape, NEW p \in Procs, FileStep(p) PROVE TypeOK'
<1> USE DEF jobVars, lockVars, ghostVars
<1>1. /\ todo' \in [Procs -> SUBSET Rounds]
      /\ stage' \in [Procs -> Stages] /\ pc' \in [Procs -> PCs]
  <2> DEFINE Goes == \/ Goto(p, "none", "over")
                     \/ \E l \in {"put", "load", "abort", "store", "unlock"} : Step(p, l)
  <2>1. CASE Advance(p)
    BY <2>1, Advances
  <2>2. CASE UNCHANGED todo /\ Goes
    BY <2>2, Moves DEF Step, TypeOK, Stages, PCs, Ended
  <2>3. Look(p) \/ MigrateFails(p) \/ Put(p) \/ PutFails(p)
            => Advance(p) \/ (UNCHANGED todo /\ Goes)
    BY FailsOrGoesOn DEF Look, MigrateFails, Put, PutFails
  <2>4. Load(p) \/ Store(p) \/ StoreFails(p) => Advance(p) \/ (UNCHANGED todo /\ Goes)
    BY DEF Load, Store, StoreFails
  <2> QED BY <2>1, <2>2, <2>3, <2>4 DEF FileStep
<1>2. Current(p) \in Rounds \/ stage[p] # "round"
  BY CurrentIsLeft DEF Shape, TypeOK, Current
<1>3. /\ buf' \in [Procs -> Files] /\ seen' \in [Procs -> SUBSET Rounds]
      /\ file' \in Files
  <2>1. CASE Look(p)
    <3>1. buf' \in [Procs -> Files]
      BY <2>1, FileTypes DEF Look, TypeOK
    <3> QED BY <2>1, <3>1 DEF Look, TypeOK
  <2>2. CASE MigrateFails(p) \/ Put(p) \/ PutFails(p) \/ StoreFails(p)
    BY <2>2 DEF MigrateFails, Put, PutFails, StoreFails, TypeOK
  <2>3. CASE Load(p)
    BY <2>3, FileTypes DEF Load, TypeOK
  <2>4. CASE Store(p)
    <3>1. buf[p] \in Files /\ seen[p] \in SUBSET Rounds
      BY DEF TypeOK
    <3>2. stage[p] = "round" => buf[p].rounds \cup {Current(p)} \in SUBSET Rounds
      BY <1>2, <3>1, FileTypes
    <3>3. file' \in Files
      BY <2>4, <3>1, <3>2, FileTypes DEF Store
    <3> QED BY <2>4, <3>3 DEF Store, TypeOK
  <2> QED BY <2>1, <2>2, <2>3, <2>4 DEF FileStep
<1>4. /\ UNCHANGED <<useFlock, job, note, suspect, breach, reported>>
      /\ owner' \in Procs \cup {NoProc} /\ solo' \subseteq Procs
      /\ erased' \in BOOLEAN
  BY DEF TypeOK, FileStep, Look, MigrateFails, Put, PutFails, Load, Store, StoreFails
<1>5. swallowed' \subseteq Rounds
  <2>1. CASE StoreFails(p)
    BY <1>2, <2>1 DEF StoreFails, TypeOK
  <2> QED BY <2>1 DEF FileStep, Look, MigrateFails, Put, PutFails, Load, Store, TypeOK
<1>6. faults' \in Nat
  BY DEF TypeOK, FileStep, Look, MigrateFails, Put, PutFails, Load, Store, StoreFails, Fault
<1> QED BY <1>1, <1>3, <1>4, <1>5, <1>6 DEF TypeOK

\* Every step keeps the types.
LEMMA StepTypes == TypeOK /\ Shape /\ [Next]_vars => TypeOK'
<1> SUFFICES ASSUME TypeOK, Shape, [Next]_vars PROVE TypeOK'
  OBVIOUS
<1>1. ASSUME NEW p \in Procs, Begin(p) PROVE TypeOK'
  <2>1. /\ stage' \in [Procs -> Stages] /\ pc' \in [Procs -> PCs]
    <3>1. \E s \in Stages, l \in PCs : Goto(p, s, l)
      BY <1>1 DEF Begin, Enter, Stages, Locked, PCs, Ended
    <3> QED BY <3>1, Moves
  <2>2. buf' \in [Procs -> Files] /\ solo' \subseteq Procs
    BY <1>1, FileTypes DEF Begin, TypeOK, Active
  <2> QED BY <1>1, <2>1, <2>2 DEF Begin, TypeOK, jobVars, lockVars
<1>2. ASSUME NEW p \in Procs, Kill(p) PROVE TypeOK'
  <2>1. /\ stage' \in [Procs -> Stages] /\ pc' \in [Procs -> PCs]
    BY <1>2, Moves DEF Kill, Stages, PCs, Ended
  <2> QED BY <1>2, <2>1 DEF Kill, TypeOK, jobVars, Fault
<1>3. CASE UNCHANGED vars
  BY <1>3 DEF vars, TypeOK
<1> QED BY <1>1, <1>2, <1>3, LockTypes, FileStepTypes DEF Next
-----------------------------------------------------------------------------
(* Where processes are. *)

\* Files of a record have at least the round they record.
LEMMA InitShape == Init => Shape
<1> SUFFICES ASSUME Init PROVE Shape
  OBVIOUS
<1>1. useFlock => note = NoNote
  BY DEF Init
<1>2. ASSUME NEW p \in Procs PROVE pc[p] = "idle" /\ stage[p] = "none"
  BY DEF Init
<1>3. ASSUME NEW p \in Procs, job[p] = "record" PROVE todo[p] # {}
  <2>1. PICK r \in Rounds : todo[p] = {r}
    BY <1>3 DEF Init
  <2> QED BY <2>1
<1> QED BY <1>1, <1>2, <1>3 DEF Shape

\* What a step of p leaves p in.
LEMMA OwnShape ==
    ASSUME TypeOK, Shape, NEW p \in Procs, Begin(p) \/ LockStep(p) \/ FileStep(p) \/ Kill(p)
    PROVE  /\ pc'[p] \in {"lock", "sign", "stale", "store", "unlock", "abort"} => stage'[p] \in Locked
           /\ pc'[p] \in {"sign", "stale"} => ~useFlock
           /\ stage'[p] = "round" => todo'[p] # {}
           /\ pc'[p] # "idle"
<1> DEFINE Goal ==
             /\ pc'[p] \in {"lock", "sign", "stale", "store", "unlock", "abort"} => stage'[p] \in Locked
             /\ pc'[p] \in {"sign", "stale"} => ~useFlock
             /\ stage'[p] = "round" => todo'[p] # {}
             /\ pc'[p] # "idle"
<1>1. CASE Advance(p)
  BY <1>1, Advances
<1>2. CASE Goto(p, "none", "over") \/ Goto(p, "none", "dead")
  BY <1>2, Moves DEF Stages, PCs, Ended
<1>3. ASSUME NEW l \in {"sign", "stale", "look", "lock", "put", "load", "store", "unlock", "abort"},
             Step(p, l), UNCHANGED todo,
             l \notin {"look", "put", "load"} => stage[p] \in Locked,
             l \in {"sign", "stale"} => ~useFlock
      PROVE  Goal
  <2>1. stage'[p] = stage[p] /\ pc'[p] = l
    BY <1>3, Moves DEF Step, TypeOK, PCs
  <2> QED BY <1>3, <2>1 DEF Shape
<1>4. CASE Begin(p)
  <2>1. ASSUME NEW s \in {"round", "show", "init"}, Enter(p, s), s = "round" => job[p] = "record"
        PROVE  Goal
    <3>1. stage'[p] = s /\ pc'[p] = (IF s \in Locked THEN "lock" ELSE "look") /\ pc[p] = "idle"
      BY <1>4, <2>1, Moves DEF Begin, Enter, Stages, Locked, PCs
    <3> QED BY <1>4, <2>1, <3>1 DEF Begin, Shape
  <2>2. CASE Goto(p, "wipe", "put")
    BY <2>2, Moves DEF Stages, PCs
  <2> QED BY <1>2, <1>4, <2>1, <2>2 DEF Begin
<1>5. CASE LockStep(p)
  <2>1. CASE Flock(p) \/ Create(p) \/ Sign(p)
    <3>1. Step(p, "look") \/ (Step(p, "sign") /\ ~useFlock /\ stage[p] \in Locked)
      BY <2>1 DEF Flock, Create, Sign, Shape
    <3> QED BY <1>3, <2>1, <3>1 DEF Flock, Create, Sign
  <2>2. CASE FindStale(p) \/ RemoveStale(p)
    <3>1. \/ Step(p, "stale") /\ ~useFlock /\ stage[p] \in Locked
          \/ Step(p, "lock") /\ stage[p] \in Locked
      BY <2>2 DEF FindStale, RemoveStale, Shape
    <3> QED BY <1>3, <2>2, <3>1 DEF FindStale, RemoveStale
  <2>3. CASE ReadNote(p)
    BY <2>3 DEF ReadNote, Shape
  <2> QED BY <1>1, <1>2, <1>5, <2>1, <2>2, <2>3, FailsOrGoesOn DEF LockStep, LockFails, Unlock
<1>6. CASE FileStep(p)
  <2>1. CASE Look(p)
    BY <1>1, <1>3, <2>1 DEF Look
  <2>2. CASE MigrateFails(p) \/ Put(p) \/ PutFails(p)
    BY <1>1, <1>2, <1>3, <2>2, FailsOrGoesOn DEF MigrateFails, Put, PutFails
  <2>3. CASE Load(p)
    BY <1>1, <1>3, <2>3 DEF Load
  <2>4. CASE Store(p) \/ StoreFails(p)
    <3>1. stage[p] \in Locked
      BY <2>4 DEF Store, StoreFails, Shape
    <3> QED BY <1>2, <1>3, <2>4, <3>1 DEF Store, StoreFails
  <2> QED BY <1>6, <2>1, <2>2, <2>3, <2>4 DEF FileStep
<1> QED BY <1>2, <1>4, <1>5, <1>6 DEF Kill

\* Every step keeps the shape.
LEMMA StepShape == TypeOK /\ Shape /\ [Next]_vars => Shape'
<1> SUFFICES ASSUME TypeOK, Shape, [Next]_vars PROVE Shape'
  OBVIOUS
<1>1. ASSUME NEW p \in Procs, Begin(p) \/ LockStep(p) \/ FileStep(p) \/ Kill(p)
      PROVE  Shape'
  <2>1. useFlock' => note' = NoNote
    <3>1. useFlock => pc[p] # "sign" /\ note = NoNote
      BY DEF Shape
    <3> QED BY <1>1, <3>1 DEF Begin, LockStep, Flock, Create, Sign, ReadNote, FindStale, RemoveStale,
                 LockFails, Unlock, FileStep, Look, MigrateFails, Put, PutFails, Load, Store, StoreFails,
                 Kill, lockVars, jobVars
  <2>2. UNCHANGED <<useFlock, job>>
    BY <1>1, Untouched DEF jobVars
  <2> QED BY <1>1, <2>1, <2>2, OwnShape, Untouched DEF Shape
<1>2. CASE UNCHANGED vars
  BY <1>2 DEF vars, Shape
<1> QED BY <1>1, <1>2 DEF Next
-----------------------------------------------------------------------------
(* The lock. *)

\* Whoever comes to hold the lock, or goes on holding it, has it: enough for
\* the lock to stay exclusive, where the others keep it as well.
LEMMA ExclusiveKept ==
    ASSUME TypeOK, NEW p \in Procs, Begin(p) \/ LockStep(p) \/ FileStep(p) \/ Kill(p),
           ~breach' => /\ ~breach
                       /\ Holding(p)' => IF useFlock THEN owner' = p ELSE note'.by = p
                       /\ \A q \in Procs \ {p} :
                            Holding(q) => IF useFlock THEN owner' = q ELSE note'.by = q
    PROVE  Exclusive'
<1>1. useFlock' = useFlock
  BY Untouched DEF jobVars
<1>2. \A q \in Procs \ {p} : Holding(q)' <=> Holding(q)
  BY Untouched DEF Holding
<1> QED BY <1>1, <1>2 DEF Exclusive

\* A step that only moves p, within the function or out of the lock.
LEMMA ExclusiveMoves ==
    ASSUME TypeOK, Exclusive, NEW p \in Procs,
           Begin(p) \/ LockStep(p) \/ FileStep(p) \/ Kill(p),
           Holding(p)' => Holding(p), UNCHANGED <<owner, note, breach>>
    PROVE  Exclusive'
BY ExclusiveKept DEF Exclusive

\* A step that ends with p outside, and frees at most what p has.
LEMMA ExclusiveFreed ==
    ASSUME TypeOK, Exclusive, NEW p \in Procs,
           Begin(p) \/ LockStep(p) \/ FileStep(p) \/ Kill(p),
           ~Holding(p)', breach' = breach,
           owner' = owner \/ owner = p,
           note' = note \/ useFlock \/ (~breach => note.by = p)
    PROVE  Exclusive'
<1>1. ASSUME ~breach, NEW q \in Procs \ {p}, Holding(q)
      PROVE  IF useFlock THEN owner' = q ELSE note'.by = q
  <2>1. IF useFlock THEN owner = q ELSE note.by = q
    BY <1>1 DEF Exclusive
  <2>2. CASE useFlock
    BY <2>1, <2>2
  <2>3. CASE ~useFlock
    BY <1>1, <2>1, <2>3
  <2> QED BY <2>2, <2>3
<1> HIDE DEF Holding
<1> QED BY <1>1, ExclusiveKept

\* Whoever is done with a function is outside the lock,
LEMMA AfterAdvance == ASSUME TypeOK, NEW p \in Procs, Advance(p) PROVE ~Holding(p)'
BY Advances DEF Holding, Locked

\* as is whoever ends,
LEMMA AfterEnd ==
    ASSUME TypeOK, NEW p \in Procs, NEW l \in {"over", "dead"}, Goto(p, "none", l)
    PROVE  ~Holding(p)'
BY Moves DEF Stages, Locked, PCs, Ended, Holding

\* and within a function it depends on where in it.
LEMMA WithinStep ==
    ASSUME TypeOK, NEW p \in Procs, NEW l \in PCs, Step(p, l)
    PROVE  Holding(p)' <=> /\ stage[p] \in Locked
                          /\ l \in {"sign", "look", "put", "load", "store", "unlock", "abort"}
BY Moves DEF Step, TypeOK, Holding

\* Steps of locking keep the lock exclusive.
LEMMA LockExclusive ==
    ASSUME TypeOK, Shape, Exclusive, NEW p \in Procs, LockStep(p)
    PROVE  Exclusive'
<1>1. CASE Flock(p)
  <2>1. owner = NoProc /\ owner' = p /\ useFlock /\ breach' = breach
    BY <1>1 DEF Flock
  <2>2. ~breach => \A q \in Procs : ~Holding(q)
    BY <2>1, MetricsAssumption DEF Exclusive
  <2> QED BY <2>1, <2>2, ExclusiveKept
<1>2. CASE Create(p)
  <2>1. note = NoNote /\ note'.by = p /\ ~useFlock /\ breach' = breach
    BY <1>2 DEF Create
  <2>2. ~breach => \A q \in Procs : ~Holding(q)
    BY <2>1, MetricsAssumption DEF Exclusive, NoNote
  <2> QED BY <2>1, <2>2, ExclusiveKept
<1>3. CASE Sign(p)
  <2>1. stage[p] \in Locked /\ ~useFlock
    BY <1>3 DEF Sign, Shape
  <2>2. Holding(p)
    BY <1>3, <2>1 DEF Sign, Holding
  <2>3. note'.by = note.by
    BY <1>3 DEF Sign, TypeOK, Notes, NoNote
  <2> QED BY <1>3, <2>1, <2>2, <2>3, ExclusiveKept DEF Sign, Exclusive
<1>4. CASE FindStale(p)
  <2>1. ~Holding(p)'
    BY <1>4, WithinStep DEF FindStale, PCs
  <2> QED BY <1>4, <2>1, ExclusiveMoves DEF FindStale, lockVars
<1>5. CASE RemoveStale(p)
  <2>1. ~Holding(p)'
    BY <1>5, WithinStep DEF RemoveStale, PCs
  <2>2. ~useFlock
    BY <1>5 DEF RemoveStale, Shape
  <2>3. ~breach' => ~breach /\ \A q \in Procs : ~Holding(q)
    BY <1>5, <2>2 DEF RemoveStale, Exclusive, Alive, Active, Holding, Ended
  <2> QED BY <2>1, <2>3, ExclusiveKept
<1>6. CASE LockFails(p)
  <2>1. ~Holding(p)'
    BY <1>6, AfterAdvance, AfterEnd, FailsOrGoesOn DEF LockFails
  <2> QED BY <1>6, <2>1, ExclusiveMoves DEF LockFails, lockVars
<1>7. CASE Unlock(p)
  <2>1. ~Holding(p)'
    BY <1>7, AfterAdvance, AfterEnd, FailsOrGoesOn DEF Unlock
  <2>2. Holding(p)
    BY <1>7 DEF Unlock, Holding, Shape
  <2> QED BY <1>7, <2>1, <2>2, ExclusiveFreed DEF Unlock, Exclusive
<1>8. CASE ReadNote(p)
  <2>1. UNCHANGED <<stage, pc, owner, note, breach>>
    BY <1>8 DEF ReadNote
  <2> QED BY <2>1, ExclusiveMoves DEF Holding
<1> QED BY <1>1, <1>2, <1>3, <1>4, <1>5, <1>6, <1>7, <1>8 DEF LockStep

\* Every step keeps the lock exclusive.
LEMMA StepExclusive == TypeOK /\ Shape /\ Exclusive /\ [Next]_vars => Exclusive'
<1> SUFFICES ASSUME TypeOK, Shape, Exclusive, [Next]_vars PROVE Exclusive'
  OBVIOUS
<1>1. ASSUME NEW p \in Procs, Begin(p) PROVE Exclusive'
  <2>1. ~Holding(p)'
    BY <1>1, Moves DEF Begin, Enter, Stages, Locked, PCs, Ended, Holding
  <2> QED BY <1>1, <2>1, ExclusiveMoves DEF Begin, lockVars
<1>2. ASSUME NEW p \in Procs, FileStep(p) PROVE Exclusive'
  <2>1. CASE StoreFails(p) /\ owner' # owner
    <3>1. Goto(p, "none", "over") /\ owner = p /\ note' = note /\ breach' = breach
      BY <2>1 DEF StoreFails
    <3> QED BY <1>2, <3>1, AfterEnd, ExclusiveFreed
  <2>2. CASE ~(StoreFails(p) /\ owner' # owner)
    <3>1. UNCHANGED <<owner, note, breach>>
      BY <1>2, <2>2 DEF FileStep, Look, MigrateFails, Put, PutFails, Load, Store, StoreFails, lockVars
    <3>2. \/ Advance(p) \/ Goto(p, "none", "over")
          \/ /\ pc[p] \in {"look", "put", "load", "store"}
             /\ \E l \in {"put", "load", "store", "unlock", "abort"} : Step(p, l)
      BY <1>2, <2>2, FailsOrGoesOn
         DEF FileStep, Look, MigrateFails, Put, PutFails, Load, Store, StoreFails
    <3>3. ASSUME NEW l \in {"put", "load", "store", "unlock", "abort"}, Step(p, l),
                 pc[p] \in {"look", "put", "load", "store"}
          PROVE  Holding(p)' => Holding(p)
      BY <3>3, WithinStep DEF PCs, Holding
    <3> QED BY <1>2, <3>1, <3>2, <3>3, AfterAdvance, AfterEnd, ExclusiveMoves
  <2> QED BY <2>1, <2>2
<1>3. ASSUME NEW p \in Procs, Kill(p) PROVE Exclusive'
  <2>1. /\ Goto(p, "none", "dead") /\ note' = note /\ breach' = breach
        /\ owner' = owner \/ owner = p
    BY <1>3 DEF Kill
  <2> QED BY <1>3, <2>1, AfterEnd, ExclusiveFreed
<1>4. CASE UNCHANGED vars
  BY <1>4 DEF vars, Exclusive, Holding
<1> QED BY <1>1, <1>2, <1>3, <1>4, LockExclusive DEF Next
-----------------------------------------------------------------------------
(* What writes start from. *)

\* Where rounds only come to the file, and none while another process is about
\* to store what it has read, only p's own grounds are in question.
LEMMA GroundedKept ==
    ASSUME TypeOK, Grounded, NEW p \in Procs,
           Begin(p) \/ LockStep(p) \/ FileStep(p) \/ Kill(p),
           Clean' => /\ Clean
                     /\ file.rounds \subseteq file'.rounds /\ swallowed \subseteq swallowed'
                     /\ \A q \in Procs \ {p} : pc[q] = "store" => file'.rounds = file.rounds
                     /\ Grounds(p)'
                     /\ reported' \ swallowed' \subseteq file'.rounds
                     /\ file'.conv \subseteq file'.rounds
    PROVE  Grounded'
<1>1. ASSUME Clean', NEW q \in Procs \ {p} PROVE Grounds(q)'
  <2>1. Grounds(q)
    BY <1>1 DEF Grounded
  <2>2. /\ stage'[q] = stage[q] /\ pc'[q] = pc[q] /\ todo'[q] = todo[q]
        /\ buf'[q] = buf[q] /\ seen'[q] = seen[q]
    BY Untouched
  <2>3. Current(q)' = Current(q)
    BY <2>2 DEF Current
  <2> QED BY <1>1, <2>1, <2>2, <2>3 DEF Grounds
<1> QED BY <1>1 DEF Grounded

\* A step that leaves the file and the reports alone.
LEMMA GroundedQuiet ==
    ASSUME TypeOK, Grounded, NEW p \in Procs,
           Begin(p) \/ LockStep(p) \/ FileStep(p) \/ Kill(p),
           UNCHANGED <<file, reported, swallowed>>,
           Clean' => Clean, Clean => Grounds(p)'
    PROVE  Grounded'
BY GroundedKept DEF Grounded

\* A move of p that neither reads nor writes.
LEMMA MoveGrounds ==
    ASSUME TypeOK, NEW p \in Procs, Grounds(p), file.rounds \subseteq file'.rounds,
           buf'[p] = buf[p], seen'[p] = seen[p],
           \/ Advance(p) /\ stage[p] # "read"
           \/ \E l \in {"sign", "stale", "lock", "look", "load", "abort"} : Step(p, l)
           \/ Goto(p, "none", "over") \/ Goto(p, "none", "dead")
    PROVE  Grounds(p)'
<1>1. /\ pc'[p] \notin {"put", "store", "unlock"}
      /\ stage'[p] = "conv" => stage[p] = "conv"
  <2>1. CASE Advance(p) /\ stage[p] # "read"
    BY <2>1, Advances
  <2>2. CASE \E l \in {"sign", "stale", "lock", "look", "load", "abort"} : Step(p, l)
    BY <2>2, Moves DEF Step, TypeOK, PCs
  <2>3. CASE Goto(p, "none", "over") \/ Goto(p, "none", "dead")
    BY <2>3, Moves DEF Stages, PCs, Ended
  <2> QED BY <2>1, <2>2, <2>3
<1> QED BY <1>1 DEF Grounds

\* Locking keeps them.
LEMMA LockGrounded ==
    ASSUME TypeOK, Shape, Grounded, NEW p \in Procs, LockStep(p)
    PROVE  Grounded'
<1>1. /\ UNCHANGED <<file, buf, seen, swallowed, erased>>
      /\ Clean' => Clean
  <2>1. UNCHANGED <<file, buf, seen, swallowed, erased>>
    BY DEF LockStep, Flock, Create, Sign, ReadNote, FindStale, RemoveStale, LockFails, Unlock, ghostVars
  <2>2. breach' = breach \/ breach' = (breach \/ Alive(note.by))
    BY DEF LockStep, Flock, Create, Sign, ReadNote, FindStale, RemoveStale, LockFails, Unlock, lockVars
  <2>3. breach => breach'
    BY <2>2, Zenon
  <2> QED BY <2>1, <2>3 DEF Clean
<1>2. stage[p] # "read"
  <2>1. pc[p] \in {"lock", "sign", "stale", "unlock", "abort"}
    BY DEF LockStep, Flock, Create, Sign, ReadNote, FindStale, RemoveStale, LockFails, Unlock
  <2> QED BY <2>1 DEF Shape, Locked
<1>3. \/ ReadNote(p) \/ Advance(p) \/ Goto(p, "none", "over")
      \/ \E l \in {"sign", "stale", "lock", "look", "load", "abort"} : Step(p, l)
  BY FailsOrGoesOn
     DEF LockStep, Flock, Create, Sign, ReadNote, FindStale, RemoveStale, LockFails, Unlock
<1>4. Clean => Grounds(p) /\ Grounds(p)'
  <2>1. CASE ReadNote(p)
    BY <2>1 DEF ReadNote, ghostVars, Grounded, Grounds, Current
  <2>2. CASE ~ReadNote(p)
    BY <1>1, <1>2, <1>3, <2>2, MoveGrounds DEF Grounded
  <2> QED BY <2>1, <2>2
<1>5. Clean => reported' \ swallowed' \subseteq file'.rounds
  <2>1. CASE Unlock(p) /\ stage[p] = "round" /\ pc[p] = "unlock"
    BY <1>1, <1>4, <2>1 DEF Unlock, Grounded, Grounds
  <2>2. CASE ~(Unlock(p) /\ stage[p] = "round" /\ pc[p] = "unlock")
    <3>1. reported' = reported
      BY <2>2 DEF LockStep, Flock, Create, Sign, ReadNote, FindStale, RemoveStale, LockFails, Unlock, ghostVars
    <3> QED BY <1>1, <3>1 DEF Grounded
  <2> QED BY <2>1, <2>2
<1> QED BY <1>1, <1>4, <1>5, GroundedKept DEF Grounded

\* Reading and writing keep them: a locked write adds to what is there, and a
\* write without the lock that removes nothing adds nothing.
LEMMA FileGrounded ==
    ASSUME TypeOK, Shape, Exclusive, Grounded, NEW p \in Procs, FileStep(p)
    PROVE  Grounded'
<1>1. buf[p] \in Files /\ file \in Files /\ seen[p] \in SUBSET Rounds
  BY DEF TypeOK
<1>2. /\ Clean' => Clean
      /\ UNCHANGED reported
  <2>1. breach' = breach
    BY DEF FileStep, Look, MigrateFails, Put, PutFails, Load, Store, StoreFails, lockVars
  <2>2. erased' = erased \/ erased' = (erased \/ ~(file.rounds \subseteq buf[p].rounds))
    BY DEF FileStep, Look, MigrateFails, Put, PutFails, Load, Store, StoreFails, ghostVars
  <2>3. UNCHANGED reported
    BY DEF FileStep, Look, MigrateFails, Put, PutFails, Load, Store, StoreFails, ghostVars
  <2>4. erased => erased'
    BY <2>2, Zenon
  <2> QED BY <2>1, <2>3, <2>4 DEF Clean
<1>3. CASE Look(p)
  <2>1. UNCHANGED <<file, reported, swallowed, seen>>
    BY <1>3 DEF Look, ghostVars
  <2>2. CASE buf' = buf /\ ((Advance(p) /\ stage[p] = "init") \/ Step(p, "load"))
    BY <1>2, <1>3, <2>1, <2>2, MoveGrounds, GroundedQuiet DEF Grounded, FileStep
  <2>3. CASE /\ Step(p, "put")
             /\ buf'[p] = Default \/ buf'[p] = [file EXCEPT !.version = "new"]
    <3>1. Step(p, "put") /\ (buf'[p] = Default \/ buf'[p] = [file EXCEPT !.version = "new"])
      BY <2>3
    <3>2. pc'[p] = "put" /\ stage'[p] = stage[p]
      BY <3>1, Moves DEF Step, TypeOK, PCs
    <3>3. Clean => buf'[p].conv \subseteq buf'[p].rounds /\ buf'[p].rounds \subseteq file.rounds
      BY <1>1, <3>1 DEF Default, Grounded, Files
    <3>4. Clean => Grounds(p)'
      BY <2>1, <3>2, <3>3 DEF Grounds, Grounded
    <3> QED BY <1>2, <2>1, <3>4, GroundedQuiet
  <2> QED BY <1>3, <2>2, <2>3 DEF Look, TypeOK
<1>4. CASE Put(p)
  <2>1. /\ file' = buf[p] /\ pc[p] = "put" /\ UNCHANGED <<buf, seen, swallowed>>
        /\ Clean' => file.rounds \subseteq buf[p].rounds
    BY <1>4 DEF Put, Clean
  <2>2. Clean' => file'.rounds = file.rounds
    BY <1>2, <2>1 DEF Grounded, Grounds
  <2>3. (Advance(p) /\ stage[p] # "read") \/ Step(p, "load")
    BY <1>4 DEF Put
  <2>4. Clean' => Grounds(p)'
    BY <1>2, <2>1, <2>2, <2>3, MoveGrounds DEF Grounded
  <2> QED BY <1>2, <2>1, <2>2, <2>4, GroundedKept DEF Grounded, Grounds
<1>5. CASE PutFails(p) \/ MigrateFails(p)
  <2>1. /\ UNCHANGED <<buf, seen, file, swallowed>>
        /\ \/ Step(p, "abort") \/ Goto(p, "none", "over")
           \/ Advance(p) /\ stage[p] # "read"
    BY <1>5, FailsOrGoesOn DEF PutFails, MigrateFails
  <2> QED BY <1>2, <2>1, MoveGrounds, GroundedQuiet DEF Grounded
<1>6. CASE Load(p)
  <2>1. UNCHANGED <<file, reported, swallowed>> /\ buf'[p] = file
    BY <1>6 DEF Load, ghostVars, TypeOK
  <2>2. CASE Step(p, "store") /\ UNCHANGED seen
    <3>1. pc'[p] = "store" /\ stage'[p] = stage[p]
      BY <2>2, Moves DEF Step, TypeOK, PCs
    <3>2. Clean => Grounds(p)'
      BY <2>1, <2>2, <3>1 DEF Grounds, Grounded
    <3> QED BY <1>2, <2>1, <3>2, GroundedQuiet
  <2>3. CASE Advance(p) /\ (seen'[p] = file.rounds \/ (stage[p] = "show" /\ UNCHANGED seen))
    <3>1. /\ pc'[p] \notin {"put", "store", "unlock"}
          /\ stage'[p] = "conv" => stage[p] = "read"
      BY <2>3, Advances
    <3>2. Clean => Grounds(p)'
      BY <2>1, <2>3, <3>1 DEF Grounds, Grounded
    <3> QED BY <1>2, <2>1, <3>2, GroundedQuiet
  <2> QED BY <1>6, <2>2, <2>3 DEF Load, TypeOK
<1>7. CASE Store(p)
  <2>1. /\ pc[p] = "store" /\ stage[p] \in Locked /\ UNCHANGED <<buf, seen, swallowed, todo>>
        /\ Step(p, "unlock")
    BY <1>7 DEF Store, Shape, ghostVars
  <2>2. pc'[p] = "unlock" /\ stage'[p] = stage[p]
    BY <2>1, Moves DEF Step, TypeOK, PCs
  <2>3. ASSUME ~breach, NEW q \in Procs \ {p} PROVE pc[q] # "store"
    <3>1. Holding(p) /\ (pc[q] = "store" => Holding(q))
      BY <2>1 DEF Holding, Shape
    <3> QED BY <2>3, <3>1 DEF Exclusive
  <2>4. CASE stage[p] = "round"
    <3>1. /\ todo[p] # {} /\ todo[p] \subseteq Rounds
      BY <2>4 DEF Shape, TypeOK
    <3>2. Current(p) \in Rounds /\ Current(p)' = Current(p)
      BY <2>1, <3>1, CurrentIsLeft DEF Current
    <3>3. file' = [buf[p] EXCEPT !.rounds = @ \cup {Current(p)}]
      BY <1>7, <2>4 DEF Store
    <3>4. file'.rounds = buf[p].rounds \cup {Current(p)} /\ file'.conv = buf[p].conv
      BY <1>1, <3>3 DEF Files
    <3>5. Clean => /\ buf[p].rounds = file.rounds /\ buf[p].conv \subseteq buf[p].rounds
      BY <2>1 DEF Grounded, Grounds
    <3>6. Clean => Grounds(p)'
      BY <2>1, <2>2, <2>4, <3>2, <3>4, <3>5 DEF Grounds
    <3> QED BY <1>2, <2>1, <2>3, <3>4, <3>5, <3>6, GroundedKept DEF Grounded, Clean
  <2>5. CASE stage[p] = "conv"
    <3>1. file' = [buf[p] EXCEPT !.conv = seen[p]]
      BY <1>7, <2>5 DEF Store
    <3>2. file'.rounds = buf[p].rounds /\ file'.conv = seen[p]
      BY <1>1, <3>1 DEF Files
    <3>3. Clean => /\ buf[p].rounds = file.rounds /\ buf[p].conv \subseteq buf[p].rounds
                   /\ seen[p] \subseteq file.rounds
      BY <2>1, <2>5 DEF Grounded, Grounds
    <3>4. Clean => Grounds(p)'
      BY <2>1, <2>2, <2>5, <3>2, <3>3 DEF Grounds
    <3> QED BY <1>2, <2>1, <2>3, <3>2, <3>3, <3>4, GroundedKept DEF Grounded, Clean
  <2> QED BY <2>1, <2>4, <2>5 DEF Locked
<1>8. CASE StoreFails(p)
  <2>1. UNCHANGED <<file, buf, seen, todo>> /\ swallowed \subseteq swallowed'
    BY <1>8 DEF StoreFails
  <2>2. Clean => Grounds(p)'
    <3>1. CASE Goto(p, "none", "over")
      <4>1. pc'[p] = "over" /\ stage'[p] = "none"
        BY <3>1, Moves DEF Stages, PCs, Ended
      <4> QED BY <2>1, <4>1 DEF Grounded, Grounds
    <3>2. CASE Step(p, "unlock")
      <4>1. pc'[p] = "unlock" /\ stage'[p] = stage[p] /\ Current(p)' = Current(p)
        BY <2>1, <3>2, Moves DEF Step, TypeOK, PCs, Current
      <4>2. stage[p] = "round" => Current(p) \in swallowed'
        BY <1>8 DEF StoreFails
      <4> QED BY <2>1, <4>1, <4>2 DEF Grounded, Grounds
    <3> QED BY <1>8, <3>1, <3>2 DEF StoreFails
  <2> QED BY <1>2, <2>1, <2>2, GroundedKept DEF Grounded
<1> QED BY <1>3, <1>4, <1>5, <1>6, <1>7, <1>8 DEF FileStep

\* Every step keeps them.
LEMMA StepGrounded == TypeOK /\ Shape /\ Exclusive /\ Grounded /\ [Next]_vars => Grounded'
<1> SUFFICES ASSUME TypeOK, Shape, Exclusive, Grounded, [Next]_vars PROVE Grounded'
  OBVIOUS
<1>1. ASSUME NEW p \in Procs, Begin(p) PROVE Grounded'
  <2>1. UNCHANGED <<seen, file, reported, swallowed, erased, breach>>
    BY <1>1 DEF Begin, lockVars
  <2>2. /\ stage'[p] # "conv" /\ pc'[p] \notin {"store", "unlock"}
        /\ buf'[p] = buf[p] \/ buf'[p] = Default
        /\ pc'[p] = "put" => buf'[p] = Default
    BY <1>1, Moves DEF Begin, Enter, Stages, Locked, PCs, Ended, TypeOK
  <2>3. Clean => Grounds(p)'
    BY <2>1, <2>2 DEF Grounded, Grounds, Default
  <2> QED BY <1>1, <2>1, <2>3, GroundedQuiet DEF Clean
<1>2. ASSUME NEW p \in Procs, Kill(p) PROVE Grounded'
  <2>1. /\ UNCHANGED <<buf, seen, file, reported, swallowed, erased, breach>>
        /\ Goto(p, "none", "dead")
    BY <1>2 DEF Kill
  <2> QED BY <1>2, <2>1, MoveGrounds, GroundedQuiet DEF Grounded, Clean
<1>3. CASE UNCHANGED vars
  BY <1>3 DEF vars, Grounded, Grounds, Clean, Current
<1> QED BY <1>1, <1>2, <1>3, LockGrounded, FileGrounded DEF Next

\* At first nothing is reported and nobody has read anything.
LEMMA InitGrounded == Init => Grounded
<1> SUFFICES ASSUME Init PROVE Grounded
  OBVIOUS
<1>1. file.conv \subseteq file.rounds
  BY DEF Init, Files, NoFile, Broken
<1>2. \A p \in Procs : /\ pc[p] = "idle" /\ stage[p] = "none" /\ buf[p] = NoFile
  BY DEF Init
<1>3. \A p \in Procs : Grounds(p)
  BY <1>2 DEF Grounds, NoFile
<1> QED BY <1>1, <1>3 DEF Grounded, Init
-----------------------------------------------------------------------------
(* A process on its own. *)

\* Only its own steps are taken while p is on its own.
LEMMA OwnSteps ==
    ASSUME TypeOK, Alone, NEW p \in Procs, LockStep(p) \/ FileStep(p) \/ Kill(p)
    PROVE  /\ solo' \subseteq solo /\ solo \subseteq {p}
           /\ solo # {} => Active' \subseteq {p}
<1>1. p \in Active
  BY DEF LockStep, Flock, Create, Sign, ReadNote, FindStale, RemoveStale, LockFails, Unlock,
         FileStep, Look, MigrateFails, Put, PutFails, Load, Store, StoreFails, Kill, Active, Ended
<1>2. solo' \subseteq solo
  BY DEF LockStep, Flock, Create, Sign, ReadNote, FindStale, RemoveStale, LockFails, Unlock,
         FileStep, Look, MigrateFails, Put, PutFails, Load, Store, StoreFails, Kill, ghostVars
<1>3. solo # {} => Active \subseteq {p}
  BY <1>1 DEF Alone
<1>4. \A q \in Procs \ {p} : pc'[q] = pc[q]
  BY Untouched
<1> QED BY <1>1, <1>2, <1>3, <1>4 DEF Active, Alone, TypeOK

\* Locking on one's own leaves the file and what was read of it alone.
LEMMA LockRepairs ==
    ASSUME TypeOK, Shape, NEW p \in Procs, LockStep(p), Repairs(p), p \in solo'
    PROVE  Repairs(p)'
<1>1. UNCHANGED <<seen, file>>
  BY DEF LockStep, Flock, Create, Sign, ReadNote, FindStale, RemoveStale, LockFails, Unlock, ghostVars
<1>2. CASE \E l \in {"sign", "stale", "lock", "look"} : Step(p, l)
  <2>1. pc'[p] \in {"sign", "stale", "lock", "look"} /\ stage'[p] = stage[p]
    BY <1>2, Moves DEF Step, TypeOK, PCs
  <2> QED BY <1>1, <2>1 DEF Repairs
<1>3. CASE Unlock(p)
  <2>1. stage[p] \in Locked /\ (Advance(p) \/ Goto(p, "none", "over"))
    BY <1>3, FailsOrGoesOn DEF Unlock, Shape
  <2>2. stage'[p] # "conv"
    BY <2>1, Advances, Moves DEF Locked, Stages, PCs, Ended
  <2> QED BY <2>2 DEF Repairs
<1>4. ~LockFails(p)
  BY DEF LockFails
<1>5. CASE ReadNote(p)
  BY <1>1, <1>5 DEF ReadNote, Repairs
<1> QED BY <1>2, <1>3, <1>4, <1>5 DEF LockStep, Flock, Create, Sign, ReadNote, FindStale, RemoveStale

\* Reading and writing on one's own.
LEMMA FileRepairs ==
    ASSUME TypeOK, Shape, NEW p \in Procs, FileStep(p), Repairs(p), p \in solo'
    PROVE  Repairs(p)'
<1>1. buf[p] \in Files /\ file \in Files /\ seen[p] \in SUBSET Rounds
  BY DEF TypeOK
<1>2. CASE Advance(p) /\ stage[p] # "read"
  BY <1>2, Advances DEF Repairs
<1>3. CASE Look(p)
  <2>1. UNCHANGED <<file, seen>>
    BY <1>3 DEF Look, ghostVars
  <2>2. CASE Step(p, "load") /\ file.version = "new"
    <3>1. pc'[p] = "load" /\ stage'[p] = stage[p]
      BY <2>2, Moves DEF Step, TypeOK, PCs
    <3> QED BY <2>1, <2>2, <3>1 DEF Repairs
  <2>3. CASE Step(p, "put") /\ \/ buf'[p] = Default /\ file = NoFile
                               \/ buf'[p] = [file EXCEPT !.version = "new"]
    <3>1. pc'[p] = "put" /\ stage'[p] = stage[p]
      BY <2>3, Moves DEF Step, TypeOK, PCs
    <3>2. buf'[p].version = "new" /\ buf'[p].rounds = file.rounds
      <4>1. CASE buf'[p] = Default /\ file = NoFile
        BY <4>1 DEF Default, NoFile
      <4>2. CASE buf'[p] = [file EXCEPT !.version = "new"]
        BY <1>1, <4>2 DEF Files
      <4> QED BY <2>3, <4>1, <4>2
    <3> QED BY <2>1, <3>1, <3>2 DEF Repairs
  <2> QED BY <1>2, <1>3, <2>2, <2>3 DEF Look, TypeOK
<1>4. CASE Put(p)
  <2>1. file' = buf[p] /\ pc[p] = "put" /\ UNCHANGED <<seen, buf>>
    BY <1>4 DEF Put
  <2>2. CASE Step(p, "load")
    <3>1. pc'[p] = "load" /\ stage'[p] = stage[p]
      BY <2>2, Moves DEF Step, TypeOK, PCs
    <3> QED BY <2>1, <3>1 DEF Repairs
  <2> QED BY <1>2, <1>4, <2>2 DEF Put
<1>5. CASE Load(p)
  <2>1. file' = file /\ buf'[p] = file /\ pc[p] = "load"
    BY <1>5 DEF Load, TypeOK
  <2>2. CASE Step(p, "store") /\ UNCHANGED seen
    <3>1. pc'[p] = "store" /\ stage'[p] = stage[p]
      BY <2>2, Moves DEF Step, TypeOK, PCs
    <3> QED BY <2>1, <2>2, <3>1 DEF Repairs
  <2>3. CASE Advance(p) /\ stage[p] = "read" /\ seen'[p] = file.rounds
    BY <2>1, <2>3, Advances DEF Repairs
  <2> QED BY <1>2, <1>5, <2>2, <2>3 DEF Load, TypeOK
<1>6. CASE Store(p)
  <2>1. /\ pc[p] = "store" /\ UNCHANGED seen
        /\ pc'[p] = "unlock" /\ stage'[p] = stage[p]
    BY <1>6, Moves DEF Store, Step, TypeOK, PCs
  <2>2. stage[p] = "conv" => file' = [buf[p] EXCEPT !.conv = seen[p]]
    BY <1>6 DEF Store
  <2>3. stage[p] = "conv" => /\ file'.version = "new" /\ file'.rounds = file.rounds
                             /\ file'.conv = seen[p]
    BY <1>1, <2>1, <2>2 DEF Repairs, Files
  <2> QED BY <2>1, <2>3 DEF Repairs
<1>7. ~MigrateFails(p) /\ ~PutFails(p) /\ ~StoreFails(p)
  BY DEF MigrateFails, PutFails, StoreFails
<1> QED BY <1>3, <1>4, <1>5, <1>6, <1>7 DEF FileStep

\* Every step keeps them.
LEMMA StepAlone == TypeOK /\ Shape /\ Alone /\ [Next]_vars => Alone'
<1> SUFFICES ASSUME TypeOK, Shape, Alone, [Next]_vars PROVE Alone'
  OBVIOUS
<1>1. ASSUME NEW p \in Procs, Begin(p) PROVE Alone'
  <2>1. /\ solo' = {} \/ (solo' = {p} /\ Active = {})
        /\ stage'[p] # "conv"
    BY <1>1, Moves DEF Begin, Enter, Stages, Locked, PCs, Ended
  <2>2. Active = {} => Active' \subseteq {p}
    BY <1>1, Untouched DEF Active
  <2> QED BY <2>1, <2>2 DEF Alone, Repairs
<1>2. ASSUME NEW p \in Procs, LockStep(p) \/ FileStep(p) \/ Kill(p) PROVE Alone'
  <2>1. CASE p \notin solo'
    BY <1>2, <2>1, OwnSteps DEF Alone
  <2>2. CASE p \in solo'
    <3>1. Repairs(p)
      BY <1>2, <2>2, OwnSteps DEF Alone
    <3>2. Kill(p) => Repairs(p)'
      BY Moves DEF Kill, Repairs, Stages, PCs, Ended
    <3>3. Repairs(p)'
      BY <1>2, <2>2, <3>1, <3>2, LockRepairs, FileRepairs
    <3> QED BY <1>2, <3>3, OwnSteps DEF Alone
  <2> QED BY <2>1, <2>2
<1>3. CASE UNCHANGED vars
  BY <1>3 DEF vars, Alone, Repairs, Active
<1> QED BY <1>1, <1>2, <1>3 DEF Next

\* Whoever leaves the writing of the convergence without a failure of its own
\* has written it.
LEMMA LeavesRepaired ==
    TypeOK /\ Shape /\ Alone /\ [Next]_vars =>
        \A p \in solo : stage[p] = "conv" /\ stage'[p] # "conv" /\ pc'[p] # "dead" /\ p \in solo' =>
            file.version = "new" /\ file.conv = file.rounds
<1> SUFFICES ASSUME TypeOK, Shape, Alone, [Next]_vars, NEW p \in solo, stage[p] = "conv",
                    stage'[p] # "conv", pc'[p] # "dead", p \in solo'
             PROVE  file.version = "new" /\ file.conv = file.rounds
  OBVIOUS
<1>1. p \in Procs /\ Repairs(p)
  BY DEF Alone, TypeOK
<1>2. Begin(p) \/ LockStep(p) \/ FileStep(p) \/ Kill(p)
  <2>1. PICK q \in Procs : Begin(q) \/ LockStep(q) \/ FileStep(q) \/ Kill(q)
    BY DEF Next, vars
  <2> QED BY <1>1, <2>1, Untouched
<1>3. ~Begin(p)
  BY <1>1 DEF Begin, Shape
<1>4. ~Kill(p)
  BY <1>1, Moves DEF Kill, Stages, PCs, Ended
<1>5. ~FileStep(p)
  <2>1. ASSUME NEW l \in PCs PROVE ~Step(p, l)
    BY <1>1, <2>1, Moves DEF Step, TypeOK
  <2>2. ~Look(p) /\ ~MigrateFails(p) /\ ~Put(p) /\ ~PutFails(p)
    BY <2>1 DEF Look, MigrateFails, Put, PutFails, PCs
  <2>3. ~Load(p) /\ ~Store(p) /\ ~StoreFails(p)
    BY <2>1 DEF Load, Store, StoreFails, PCs
  <2> QED BY <2>2, <2>3 DEF FileStep
<1>6. Unlock(p)
  <2>1. ASSUME NEW l \in PCs PROVE ~Step(p, l)
    BY <1>1, <2>1, Moves DEF Step, TypeOK
  <2> QED BY <1>2, <1>3, <1>4, <1>5, <2>1
        DEF LockStep, Flock, Create, Sign, ReadNote, FindStale, RemoveStale, LockFails, PCs
<1>7. pc[p] = "unlock"
  BY <1>1, <1>6 DEF Unlock, Repairs
<1> QED BY <1>1, <1>7 DEF Repairs
-----------------------------------------------------------------------------
(* The theorems. *)

\* What is always true of the processes, the lock and the file.
THEOREM MetricsHold == Spec => [](TypeOK /\ MetricsInv)
<1>1. Init => TypeOK /\ MetricsInv
  <2>1. Init => Exclusive
    BY DEF Init, Exclusive, Holding
  <2>2. Init => Alone
    BY DEF Init, Alone
  <2> QED BY <2>1, <2>2, InitTypes, InitShape, InitGrounded DEF MetricsInv
<1>2. TypeOK /\ MetricsInv /\ [Next]_vars => (TypeOK /\ MetricsInv)'
  BY StepTypes, StepShape, StepExclusive, StepGrounded, StepAlone DEF MetricsInv
<1> QED BY <1>1, <1>2, PTL DEF Spec

\* Every variable keeps its type.
THEOREM TypeCorrect == Spec => []TypeOK
BY MetricsHold, PTL

\* A round that was reported as written stays in the file, but for the holes
\* the property names.
THEOREM ReportsKept == Spec => []ReportedKept
<1>1. MetricsInv => ReportedKept
  BY DEF MetricsInv, Grounded, Clean, ReportedKept
<1> QED BY <1>1, MetricsHold, PTL

\* The convergence is only ever of rounds the file has.
THEOREM ConvergenceTrue == Spec => []ConvergenceGrounded
<1>1. MetricsInv => ConvergenceGrounded
  BY DEF MetricsInv, Grounded, Clean, ConvergenceGrounded
<1> QED BY <1>1, MetricsHold, PTL

\* A run that has the metrics to itself leaves them in order.
THEOREM SoloRepairs == Spec => SoloRunRepairs
<1>1. TypeOK /\ MetricsInv /\ [Next]_vars =>
        [\A p \in solo : stage[p] = "conv" /\ stage'[p] # "conv" /\ pc'[p] # "dead" /\ p \in solo' =>
            file.version = "new" /\ file.conv = file.rounds]_vars
  BY LeavesRepaired DEF MetricsInv
<1> QED BY <1>1, MetricsHold, PTL DEF Spec, SoloRunRepairs
=============================================================================
