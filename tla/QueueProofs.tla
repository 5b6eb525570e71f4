----------------------------- MODULE QueueProofs -----------------------------
(***************************************************************************)
(* Proofs about module Queue, for every set of clients, runners and        *)
(* entries and either kind of lock.                                        *)
(*                                                                         *)
(* TypeOK is not inductive: the event a process appends is about entry[p], *)
(* and that it is an entry at all depends on where p is (EntryInv).        *)
(* SerialRounds rests on the lock: whoever is in the critical section owns *)
(* it, and while an orphaned round executes nobody alive does (LockInv).   *)
(* RunOnce rests on the order of the events (OnceInv, further down).       *)
(*                                                                         *)
(* Then comes what the queue promises to its users: an "add" that          *)
(* reported success lasts, torn writes included (AddsLast); and log, lock  *)
(* and processes implement QueueContract, as long as an interrupted append *)
(* leaves nothing behind.  For the refinement: an event is appended only   *)
(* to what the reader of the same critical section derived from the log,   *)
(* and nothing is appended in between, so that one append is one step of   *)
(* the contract, whatever line it is, and every other step changes at most *)
(* who executes.                                                           *)
(*                                                                         *)
(* Last come the readers of module QueueFold.  Each is a recursion over    *)
(* the lines of the log; the proof compares it with what QueueLog says of  *)
(* the log up to a line, at the first line where the two would differ, so  *)
(* what has to be proved is what one more line changes.                    *)
(***************************************************************************)
EXTENDS Queue, WellFoundedInduction, TLAPS

\* Who works on an entry has one.
EntryInv ==
    \A p \in Procs :
        /\ op[p] \in {"add", "cancel"} => entry[p] \in Entries
        /\ pc[p] \in {"started", "running"} => op[p] = "run" /\ entry[p] \in Entries

Inside == {"locked", "started", "running", "unlock"}

\* The lock protects the critical section, and an orphaned round keeps the
\* lock from everybody: flock's descriptor is still open, or the directory is
\* still there.
LockInv ==
    /\ \A p \in Procs : pc[p] \in Inside => lock = p
    /\ orphans # {} => lock \in {Orphan, Abandoned}
    /\ \A e, f \in orphans : e = f
-----------------------------------------------------------------------------
(* Lemmas about the helpers of the actions. *)

\* An event of one of the five kinds, about any entry, is a line of the log.
LEMMA EventIsLine ==
    ASSUME NEW k \in Kinds, NEW e \in Entries
    PROVE  Event(k, e) \in Lines
BY DEF Event, Lines, Events

\* An append, whether it succeeds or fails, leaves a log of lines behind.
LEMMA AppendTypes ==
    ASSUME TypeOK, NEW line \in Lines, Append1(line) \/ AppendFails
    PROVE  log' \in Seq(Lines) /\ torn' \in BOOLEAN /\ faults' \in Nat
<1>1. CASE Append1(line)
  <2>1. (IF torn THEN Garbage ELSE line) \in Lines
    BY DEF Lines
  <2>2. log' = Append(log, IF torn THEN Garbage ELSE line)
    BY <1>1 DEF Append1
  <2>3. log \in Seq(Lines)
    BY DEF TypeOK
  <2>4. log' \in Seq(Lines)
    BY <2>1, <2>2, <2>3
  <2> QED BY <1>1, <2>4 DEF Append1, TypeOK
<1>2. CASE AppendFails
  <2>1. log' \in Seq(Lines) /\ faults' \in Nat
    BY <1>2 DEF AppendFails, TypeOK
  <2>2. torn' = torn \/ torn' = TRUE
    BY <1>2 DEF AppendFails
  <2>3. torn \in BOOLEAN
    BY DEF TypeOK
  <2>4. torn' \in BOOLEAN
    BY <2>2, <2>3, Zenon
  <2> QED BY <2>1, <2>4
<1> QED BY <1>1, <1>2

\* A critical section that ends in an append keeps the types of what it changes.
LEMMA AppendsTypes ==
    ASSUME TypeOK, NEW p \in Procs, NEW line \in Lines, NEW r \in Nat, Appends(p, line, r)
    PROVE  /\ log' \in Seq(Lines) /\ torn' \in BOOLEAN /\ faults' \in Nat
           /\ rc' \in [Procs -> Nat] /\ pc' \in [Procs -> PCs]
           /\ pc' = [pc EXCEPT ![p] = "unlock"]
<1>1. Append1(line) \/ AppendFails
  BY DEF Appends
<1>2. log' \in Seq(Lines) /\ torn' \in BOOLEAN /\ faults' \in Nat
  BY <1>1, AppendTypes
<1>3. rc' \in [Procs -> Nat] /\ pc' \in [Procs -> PCs]
  BY DEF Appends, TypeOK, PCs
<1> QED BY <1>2, <1>3 DEF Appends

\* Returning to the user, or to the runner's loop, keeps the types of what it changes.
LEMMA ReturnsTypes ==
    ASSUME TypeOK, NEW p \in Procs, NEW r \in Nat, Returns(p, r)
    PROVE  /\ pc' \in [Procs -> PCs] /\ rc' \in [Procs -> Nat]
           /\ max' \in [Procs -> Nat] /\ done' \in [Procs -> Nat]
           /\ report' \in [Procs -> Reports]
           /\ pc' = [pc EXCEPT ![p] = "idle"] \/ pc' = [pc EXCEPT ![p] = "wait"]
<1>1. CASE RunnerReturns(p, r)
  <2>1. RunnerReport(r) \in Reports
    BY DEF RunnerReport, Reports
  <2>2. CASE r = 0 /\ done[p] + 1 < max[p]
    <3>1. done[p] + 1 \in Nat
      BY DEF TypeOK
    <3> QED BY <1>1, <2>2, <3>1 DEF RunnerReturns, TypeOK, PCs
  <2>3. CASE ~(r = 0 /\ done[p] + 1 < max[p])
    <3>1. /\ pc' = [pc EXCEPT ![p] = "idle"] /\ rc' = [rc EXCEPT ![p] = 0]
          /\ report' = [report EXCEPT ![p] = RunnerReport(r)]
          /\ max' = [max EXCEPT ![p] = 0] /\ done' = [done EXCEPT ![p] = 0]
      BY <1>1, <2>3, Zenon DEF RunnerReturns
    <3> QED BY <2>1, <3>1 DEF TypeOK, PCs
  <2> QED BY <2>2, <2>3
<1>2. CASE ClientReturns(p, r)
  <2>1. ClientReport(p, r) \in Reports
    BY DEF ClientReport, Reports
  <2> QED BY <1>2, <2>1 DEF ClientReturns, TypeOK, PCs
<1> QED BY <1>1, <1>2 DEF Returns
-----------------------------------------------------------------------------
(* Type correctness. *)

TypeInv == TypeOK /\ EntryInv

\* The queue starts well typed.
LEMMA InitTypes == Init => TypeInv
<1> SUFFICES ASSUME Init PROVE TypeInv
  OBVIOUS
<1>1. log \in Seq(Lines)
  BY DEF Init
<1>2. TypeOK
  BY <1>1 DEF Init, TypeOK, Owners, PCs, Ops, Reports
<1>3. EntryInv
  BY DEF Init, EntryInv
<1> QED BY <1>2, <1>3 DEF TypeInv

\* Beginning an invocation.
LEMMA InvokeTypes == TypeInv /\ Invoke => TypeInv'
<1> SUFFICES ASSUME TypeOK, EntryInv, Invoke PROVE TypeOK' /\ EntryInv'
  BY DEF TypeInv
<1> USE DEF TypeOK, EntryInv, PCs, Ops, Reports, Procs
<1>1. ASSUME NEW p \in Clients, NEW e \in Entries, BeginAdd(p, e)
      PROVE  TypeOK' /\ EntryInv'
  BY <1>1 DEF BeginAdd, fileVars
<1>2. ASSUME NEW p \in Clients, NEW e \in Entries, BeginCancel(p, e)
      PROVE  TypeOK' /\ EntryInv'
  BY <1>2 DEF BeginCancel, fileVars
<1>3. ASSUME NEW p \in Runners, NEW m \in MaxChoices, BeginRun(p, m)
      PROVE  TypeOK' /\ EntryInv'
  BY <1>3, QueueAssumption DEF BeginRun, fileVars, ghostVars
<1> QED BY <1>1, <1>2, <1>3 DEF Invoke

\* Waiting for the lock and giving it up.
LEMMA LockStepTypes == ASSUME NEW p \in Procs, TypeInv, LockStep(p) PROVE TypeInv'
<1> USE DEF TypeInv
<1>1. CASE Acquire(p)
  BY <1>1 DEF Acquire, TypeOK, EntryInv, PCs, Owners, fileVars, ghostVars
<1>2. ASSUME NEW r \in Nat, Returns(p, r), pc[p] \notin {"started"},
             lock' \in Owners, UNCHANGED <<fileVars, op, entry, orphans, ghostVars>>
      PROVE  TypeOK' /\ EntryInv'
  <2>1. TypeOK'
    BY <1>2, ReturnsTypes DEF TypeOK, fileVars, ghostVars
  <2>2. EntryInv'
    BY <1>2, ReturnsTypes DEF EntryInv, TypeOK
  <2> QED BY <2>1, <2>2
<1>3. CASE Timeout(p)
  BY <1>2, <1>3 DEF Timeout, TypeOK
<1>4. CASE Release(p)
  <2>1. rc[p] \in Nat /\ NoProc \in Owners
    BY DEF TypeOK, Owners
  <2> QED BY <1>2, <1>4, <2>1 DEF Release
<1> QED BY <1>1, <1>3, <1>4 DEF LockStep

\* A critical section of p that ends in an append.
LEMMA SectionTypes ==
    ASSUME NEW p \in Procs, TypeInv, NEW line \in Lines, NEW r \in Nat, Appends(p, line, r),
           UNCHANGED <<lock, op, entry, max, done, report, orphans, issued, spawned, cancels>>
    PROVE  TypeInv'
<1>1. TypeOK'
  BY AppendsTypes DEF TypeInv, TypeOK
<1>2. EntryInv'
  BY AppendsTypes DEF TypeInv, TypeOK, EntryInv
<1> QED BY <1>1, <1>2 DEF TypeInv

\* The critical sections of add and cancel keep the types.
LEMMA ClientStepTypes == ASSUME NEW p \in Procs, TypeInv, ClientStep(p) PROVE TypeInv'
<1>1. op[p] \in {"add", "cancel"} => entry[p] \in Entries
  BY DEF TypeInv, EntryInv
<1>2. CASE AddLocked(p)
  BY <1>1, <1>2, EventIsLine, SectionTypes DEF AddLocked, Kinds
<1>3. CASE CancelUnknown(p)
  BY <1>3 DEF CancelUnknown, TypeInv, TypeOK, EntryInv, PCs, fileVars, ghostVars
<1>4. CASE CancelLocked(p)
  BY <1>1, <1>4, EventIsLine, SectionTypes DEF CancelLocked, Kinds
<1> QED BY <1>2, <1>3, <1>4 DEF ClientStep

\* Selecting, starting and recording a round keep the types.
LEMMA RunnerStepTypes == ASSUME NEW p \in Procs, TypeInv, RunnerStep(p) PROVE TypeInv'
<1>1. CASE RunNothing(p)
  BY <1>1 DEF RunNothing, TypeInv, TypeOK, EntryInv, PCs, fileVars, ghostVars
<1>2. ASSUME NEW e \in Entries, RunSelect(p, e) PROVE TypeInv'
  <2>1. Append1(Event("start", e)) \/ AppendFails
    BY <1>2 DEF RunSelect
  <2>2. Event("start", e) \in Lines
    BY EventIsLine DEF Kinds
  <2>3. log' \in Seq(Lines) /\ torn' \in BOOLEAN /\ faults' \in Nat
    BY <2>1, <2>2, AppendTypes DEF TypeInv
  <2>4. TypeOK'
    <3>1. entry' \in [Procs -> Entries \cup {NoEntry}]
      BY <1>2 DEF RunSelect, TypeInv, TypeOK
    <3>2. pc' \in [Procs -> PCs] /\ rc' \in [Procs -> Nat]
      <4>1. \/ pc' = [pc EXCEPT ![p] = "started"] /\ rc' = rc
            \/ pc' = [pc EXCEPT ![p] = "unlock"] /\ rc' = [rc EXCEPT ![p] = 1]
        BY <1>2, Zenon DEF RunSelect
      <4>2. CASE pc' = [pc EXCEPT ![p] = "started"] /\ rc' = rc
        BY <4>2 DEF TypeInv, TypeOK, PCs
      <4>3. CASE pc' = [pc EXCEPT ![p] = "unlock"] /\ rc' = [rc EXCEPT ![p] = 1]
        BY <4>3 DEF TypeInv, TypeOK, PCs
      <4> QED BY <4>1, <4>2, <4>3
    <3> QED BY <1>2, <2>3, <3>1, <3>2 DEF RunSelect, TypeInv, TypeOK
  <2>5. EntryInv'
    BY <1>2 DEF RunSelect, TypeInv, TypeOK, EntryInv
  <2> QED BY <2>4, <2>5 DEF TypeInv
<1>3. CASE Spawn(p)
  <2>1. spawned' \in [Entries -> Nat]
    BY <1>3 DEF Spawn, TypeInv, TypeOK, EntryInv
  <2> QED BY <1>3, <2>1 DEF Spawn, TypeInv, TypeOK, EntryInv, PCs, fileVars
<1>4. ASSUME NEW c \in ExitCodes, RunRecord(p, c) PROVE TypeInv'
  <2>1. entry[p] \in Entries /\ c \in Nat
    BY <1>4, QueueAssumption DEF RunRecord, TypeInv, EntryInv
  <2>2. Event(IF c = 0 THEN "finish" ELSE "fail", entry[p]) \in Lines
    BY <2>1, EventIsLine DEF Kinds
  <2> QED BY <1>4, <2>1, <2>2, SectionTypes DEF RunRecord
<1> QED BY <1>1, <1>2, <1>3, <1>4 DEF RunnerStep

\* Kills, and the end of a round nobody waits for any more.
LEMMA KillTypes == ASSUME NEW p \in Procs, TypeInv, Kill(p) PROVE TypeInv'
<1>1. lock' \in Owners
  BY DEF Kill, LockAfterDeath, TypeInv, TypeOK, Owners
<1>2. torn' \in BOOLEAN
  <2>1. torn' = torn \/ torn' = TRUE
    BY DEF Kill
  <2>2. torn \in BOOLEAN
    BY DEF TypeInv, TypeOK
  <2> QED BY <2>1, <2>2, Zenon
<1>3. /\ pc' \in [Procs -> PCs] /\ op' \in [Procs -> Ops] /\ rc' \in [Procs -> Nat]
      /\ entry' \in [Procs -> Entries \cup {NoEntry}]
      /\ max' \in [Procs -> Nat] /\ done' \in [Procs -> Nat] /\ faults' \in Nat
  BY DEF Kill, TypeInv, TypeOK, PCs, Ops
<1>4. EntryInv'
  BY DEF Kill, TypeInv, TypeOK, EntryInv
<1> QED BY <1>1, <1>2, <1>3, <1>4 DEF Kill, TypeInv, TypeOK

\* The death of the locked subshell alone keeps the types.
LEMMA KillSubshellTypes == ASSUME NEW p \in Procs, TypeInv, KillSubshell(p) PROVE TypeInv'
<1>1. /\ pc' \in [Procs -> PCs] /\ rc' \in [Procs -> Nat]
      /\ max' \in [Procs -> Nat] /\ done' \in [Procs -> Nat]
      /\ report' \in [Procs -> Reports]
      /\ pc' = [pc EXCEPT ![p] = "idle"] \/ pc' = [pc EXCEPT ![p] = "wait"]
  BY ReturnsTypes DEF KillSubshell, TypeInv
<1>2. lock' \in Owners
  BY DEF KillSubshell, OrphanedLock, Owners
<1>3. orphans' \subseteq Entries
  BY DEF KillSubshell, TypeInv, TypeOK, EntryInv
<1>4. faults' \in Nat
  BY DEF KillSubshell, TypeInv, TypeOK
<1>5. EntryInv'
  BY <1>1 DEF KillSubshell, TypeInv, TypeOK, EntryInv
<1> QED BY <1>1, <1>2, <1>3, <1>4, <1>5 DEF KillSubshell, TypeInv, TypeOK, fileVars

\* The end of an orphaned round keeps the types.
LEMMA OrphanExitTypes == ASSUME NEW e \in Entries, TypeInv, OrphanExit(e) PROVE TypeInv'
BY DEF OrphanExit, TypeInv, TypeOK, EntryInv, Owners, fileVars, procVars, ghostVars

\* Every step of the queue, and a stutter, keep the types.
LEMMA StepTypes == TypeInv /\ [Next]_vars => TypeInv'
<1> SUFFICES ASSUME TypeInv, [Next]_vars PROVE TypeInv'
  OBVIOUS
<1>1. CASE Invoke
  BY <1>1, InvokeTypes
<1>2. ASSUME NEW p \in Procs, LockStep(p) \/ ClientStep(p) \/ RunnerStep(p) PROVE TypeInv'
  BY <1>2, LockStepTypes, ClientStepTypes, RunnerStepTypes
<1>3. ASSUME NEW p \in Procs, Kill(p) \/ KillSubshell(p) PROVE TypeInv'
  BY <1>3, KillTypes, KillSubshellTypes
<1>4. ASSUME NEW e \in Entries, OrphanExit(e) PROVE TypeInv'
  BY <1>4, OrphanExitTypes
<1>5. CASE UNCHANGED vars
  BY <1>5 DEF vars, TypeInv, TypeOK, EntryInv
<1> QED BY <1>1, <1>2, <1>3, <1>4, <1>5 DEF Next

\* Every variable keeps its type, and whoever works on an entry has one.
THEOREM TypesHold == Spec => []TypeInv
BY InitTypes, StepTypes, PTL DEF Spec

\* In every reachable state of the queue every variable has its type.
THEOREM TypeCorrect == Spec => []TypeOK
<1>1. TypeInv => TypeOK
  BY DEF TypeInv
<1> QED BY <1>1, TypesHold, PTL
-----------------------------------------------------------------------------
(* The rounds of a workflow execute one at a time. *)

\* A process, nobody, an orphan and an abandoned lock are four different owners.
LEMMA OwnersDiffer ==
    ASSUME NEW p \in Procs
    PROVE  p # NoProc /\ p # Orphan /\ p # Abandoned /\ NoProc # Orphan /\ NoProc # Abandoned
BY QueueAssumption

\* At first nobody is inside and there are no orphans.
LEMMA InitLock == Init => LockInv
BY DEF Init, LockInv, Inside

\* A step that leaves the lock and the orphans alone and takes nobody inside.
LEMMA LockKept ==
    ASSUME LockInv, UNCHANGED <<lock, orphans>>,
           \A q \in Procs : pc'[q] \in Inside => pc[q] \in Inside
    PROVE  LockInv'
BY DEF LockInv

\* Beginning an invocation takes nobody inside the lock.
LEMMA InvokeLock == ASSUME TypeOK, LockInv, Invoke PROVE LockInv'
<1>1. UNCHANGED <<lock, orphans>>
  BY DEF Invoke, BeginAdd, BeginCancel, BeginRun
<1>2. PICK p \in Procs : pc' = [pc EXCEPT ![p] = "wait"]
  BY DEF Invoke, BeginAdd, BeginCancel, BeginRun, Procs
<1>3. \A q \in Procs : pc'[q] \in Inside => pc[q] \in Inside
  BY <1>2 DEF TypeOK, Inside
<1> QED BY <1>1, <1>3, LockKept

\* A process takes the lock only when it is nobody's, so when nobody is inside.
LEMMA AcquireLock == ASSUME NEW p \in Procs, TypeOK, LockInv, Acquire(p) PROVE LockInv'
<1>1. lock = NoProc /\ lock' = p /\ pc' = [pc EXCEPT ![p] = "locked"] /\ orphans' = orphans
  BY DEF Acquire
<1>2. \A q \in Procs : pc[q] \notin Inside
  BY <1>1, OwnersDiffer DEF LockInv
<1>3. orphans = {}
  BY <1>1, OwnersDiffer DEF LockInv
<1> QED BY <1>1, <1>2, <1>3 DEF LockInv, TypeOK, Inside

\* Whoever leaves the critical section was alone in it.
LEMMA LeaveLock ==
    ASSUME NEW p \in Procs, TypeOK, LockInv, pc[p] \in Inside, NEW x, x \notin Inside,
           pc' = [pc EXCEPT ![p] = x], orphans' = orphans
    PROVE  LockInv'
<1>1. lock = p
  BY DEF LockInv
<1>2. orphans = {}
  BY <1>1, OwnersDiffer DEF LockInv
<1>3. \A q \in Procs : pc'[q] \notin Inside
  BY <1>1 DEF LockInv, TypeOK
<1> QED BY <1>2, <1>3 DEF LockInv

\* Acquiring, timing out and releasing keep the owner the only one inside.
LEMMA LockStepLock == ASSUME NEW p \in Procs, TypeOK, LockInv, LockStep(p) PROVE LockInv'
<1>1. CASE Acquire(p)
  BY <1>1, AcquireLock
<1>2. CASE Timeout(p)
  <2>1. pc' = [pc EXCEPT ![p] = "idle"] \/ pc' = [pc EXCEPT ![p] = "wait"]
    BY <1>2, ReturnsTypes DEF Timeout
  <2>2. \A q \in Procs : pc'[q] \in Inside => pc[q] \in Inside
    BY <2>1 DEF TypeOK, Inside
  <2> QED BY <1>2, <2>2, LockKept DEF Timeout
<1>3. CASE Release(p)
  <2>1. rc[p] \in Nat
    BY DEF TypeOK
  <2>2. pc' = [pc EXCEPT ![p] = "idle"] \/ pc' = [pc EXCEPT ![p] = "wait"]
    BY <1>3, <2>1, ReturnsTypes DEF Release
  <2>3. pc[p] \in Inside /\ orphans' = orphans
    BY <1>3 DEF Release, Inside
  <2>4. "idle" \notin Inside /\ "wait" \notin Inside
    BY DEF Inside
  <2> QED BY <2>2, <2>3, <2>4, LeaveLock
<1> QED BY <1>1, <1>2, <1>3 DEF LockStep

\* The steps of a critical section keep the lock.
LEMMA SectionLock ==
    ASSUME NEW p \in Procs, TypeOK, LockInv, ClientStep(p) \/ RunnerStep(p)
    PROVE  LockInv'
<1>1. UNCHANGED <<lock, orphans>>
  BY DEF ClientStep, AddLocked, CancelUnknown, CancelLocked,
         RunnerStep, RunNothing, RunSelect, Spawn, RunRecord
<1>2. pc[p] \in Inside
  BY DEF ClientStep, AddLocked, CancelUnknown, CancelLocked,
         RunnerStep, RunNothing, RunSelect, Spawn, RunRecord, Inside
<1>3. \E x : pc' = [pc EXCEPT ![p] = x]
  BY DEF ClientStep, AddLocked, CancelUnknown, CancelLocked, Appends,
         RunnerStep, RunNothing, RunSelect, Spawn, RunRecord
<1>4. \A q \in Procs : pc'[q] \in Inside => pc[q] \in Inside
  BY <1>2, <1>3 DEF TypeOK
<1> QED BY <1>1, <1>4, LockKept

\* A kill leaves the lock to somebody else, to nobody, or to an orphan.
LEMMA KillLock == ASSUME NEW p \in Procs, TypeOK, LockInv, Kill(p) PROVE LockInv'
<1>1. pc' = [pc EXCEPT ![p] = "idle"] /\ orphans' = orphans
  BY DEF Kill
<1>2. \A q \in Procs : pc'[q] \in Inside => q # p /\ pc[q] \in Inside
  BY <1>1 DEF TypeOK, Inside
<1>3. CASE lock # p
  <2>1. lock' = lock
    BY <1>3 DEF Kill, LockAfterDeath
  <2> QED BY <1>1, <1>2, <2>1, LockKept
<1>4. CASE lock = p
  <2>1. \A q \in Procs : pc'[q] \notin Inside
    BY <1>2, <1>4 DEF LockInv
  <2>2. orphans' = {}
    BY <1>1, <1>4, OwnersDiffer DEF LockInv
  <2> QED BY <2>1, <2>2 DEF LockInv
<1> QED BY <1>3, <1>4

\* A round that outlives its subshell takes the lock with it, or leaves it to nobody alive.
LEMMA KillSubshellLock == ASSUME NEW p \in Procs, TypeOK, LockInv, KillSubshell(p) PROVE LockInv'
<1>1. pc[p] = "running" /\ lock' \in {Orphan, Abandoned} /\ orphans' = orphans \cup {entry[p]}
  BY DEF KillSubshell, OrphanedLock
<1>2. lock = p
  BY <1>1 DEF LockInv, Inside
<1>3. orphans' = {entry[p]}
  BY <1>1, <1>2, OwnersDiffer DEF LockInv
<1>4. pc' = [pc EXCEPT ![p] = "idle"] \/ pc' = [pc EXCEPT ![p] = "wait"]
  BY ReturnsTypes DEF KillSubshell
<1>5. \A q \in Procs : pc'[q] \notin Inside
  BY <1>2, <1>4 DEF LockInv, TypeOK, Inside
<1> QED BY <1>1, <1>3, <1>5 DEF LockInv

\* The end of an orphan frees the lock only when the orphan had it.
LEMMA OrphanExitLock == ASSUME NEW e \in Entries, TypeOK, LockInv, OrphanExit(e) PROVE LockInv'
<1>1. lock \in {Orphan, Abandoned} /\ orphans' = {} /\ pc' = pc
  BY DEF OrphanExit, LockInv, procVars
<1>2. \A q \in Procs : pc'[q] \notin Inside
  BY <1>1, OwnersDiffer DEF LockInv
<1> QED BY <1>1, <1>2 DEF LockInv

\* Every step of the queue, and a stutter, keep the lock invariant.
LEMMA StepLock == TypeOK /\ LockInv /\ [Next]_vars => LockInv'
<1> SUFFICES ASSUME TypeOK, LockInv, [Next]_vars PROVE LockInv'
  OBVIOUS
<1>1. CASE Invoke
  BY <1>1, InvokeLock
<1>2. ASSUME NEW p \in Procs, LockStep(p) \/ ClientStep(p) \/ RunnerStep(p) PROVE LockInv'
  BY <1>2, LockStepLock, SectionLock
<1>3. ASSUME NEW p \in Procs, Kill(p) \/ KillSubshell(p) PROVE LockInv'
  BY <1>3, KillLock, KillSubshellLock
<1>4. ASSUME NEW e \in Entries, OrphanExit(e) PROVE LockInv'
  BY <1>4, OrphanExitLock
<1>5. CASE UNCHANGED vars
  BY <1>5 DEF vars, LockInv
<1> QED BY <1>1, <1>2, <1>3, <1>4, <1>5 DEF Next

\* Whoever is inside the critical section owns the lock, and an orphan excludes everybody
\* (apr_lib_queue_with_lock), in every reachable state.
THEOREM LockHolds == Spec => []LockInv
BY InitLock, StepLock, TypeCorrect, PTL DEF Spec

\* Never two rounds of the workflow at the same time, for any number of
\* runners, whatever is killed when, with flock and with the lock directory.
THEOREM RoundsAreSerial == Spec => []SerialRounds
<1>1. LockInv => SerialRounds
  <2> SUFFICES ASSUME LockInv PROVE SerialRounds
    OBVIOUS
  <2>1. \A p \in Runners : p \in Procs
    BY DEF Procs
  <2>2. \A p \in Runners : pc[p] \in {"started", "running"} => lock = p
    BY <2>1 DEF LockInv, Inside
  <2>3. \A p \in Runners : pc[p] \in {"started", "running"} => orphans = {}
    BY <2>1, <2>2, OwnersDiffer DEF LockInv
  <2> QED BY <2>2, <2>3 DEF SerialRounds, LockInv
<1> QED BY <1>1, LockHolds, PTL
-----------------------------------------------------------------------------
(***************************************************************************)
(* The round of an entry is started at most once, for every set of         *)
(* clients, runners and entries and any number of kills, as long as an     *)
(* interrupted append leaves nothing behind (TornWrites = FALSE; with torn *)
(* writes a start event can be merged into garbage).                       *)
(*                                                                         *)
(* The argument: an id is enqueued only while its "add" is pending, that   *)
(* is before any start of it, so a start event is never overtaken by an    *)
(* enqueue (StartsStand) and no reader derives "queued" again.  The start  *)
(* event precedes the child, and only the owner of the lock is between the *)
(* two (SpawnedOnce).                                                      *)
(***************************************************************************)

\* p has drawn an id and has not appended its enqueue event yet.
Pending(p) == op[p] = "add" /\ pc[p] \in {"wait", "locked"}

\* A pending id is issued, new to the log, and pending once.
PendingInv ==
    /\ \A p \in Procs : Pending(p) =>
           /\ entry[p] \in issued
           /\ ~Has(log, "enqueue", entry[p]) /\ ~Has(log, "start", entry[p])
    /\ \A p, q \in Procs : Pending(p) /\ Pending(q) /\ entry[p] = entry[q] => p = q

\* Only issued ids are enqueued or started, and no enqueue follows a start.
StartsStand ==
    \A e \in Entries :
        /\ Has(log, "enqueue", e) \/ Has(log, "start", e) => e \in issued
        /\ Has(log, "start", e) => Seen(log, "start", e)

SpawnedOnce ==
    /\ \A e \in Entries :
           /\ spawned[e] <= 1
           /\ spawned[e] = 1 => Has(log, "start", e)
    /\ \A p \in Procs : pc[p] = "started" =>
           Has(log, "start", entry[p]) /\ spawned[entry[p]] = 0

OnceInv == torn = FALSE /\ PendingInv /\ StartsStand /\ SpawnedOnce
-----------------------------------------------------------------------------
(* Lemmas about the log. *)

\* Two events are equal only if their kinds and their entries are.
LEMMA EventsDiffer ==
    ASSUME NEW k, NEW e, NEW l, NEW f
    PROVE  Event(k, e) = Event(l, f) <=> k = l /\ e = f
BY DEF Event

\* The lines of a log after one line was appended to it.
LEMMA AppendedLine ==
    ASSUME NEW s \in Seq(Lines), NEW line \in Lines
    PROVE  /\ Append(s, line) \in Seq(Lines)
           /\ Len(Append(s, line)) = Len(s) + 1
           /\ Append(s, line)[Len(s) + 1] = line
           /\ \A i \in 1..Len(s) : Append(s, line)[i] = s[i]
OBVIOUS

\* What an append adds to "the log has an event".
LEMMA HasAppend ==
    ASSUME NEW s \in Seq(Lines), NEW line \in Lines, NEW k, NEW e
    PROVE  Has(Append(s, line), k, e) <=> Has(s, k, e) \/ line = Event(k, e)
<1> DEFINE t == Append(s, line)
<1>1. /\ Len(t) = Len(s) + 1 /\ t[Len(s) + 1] = line
      /\ \A i \in 1..Len(s) : t[i] = s[i]
  BY AppendedLine
<1>2. Len(s) \in Nat
  OBVIOUS
<1> HIDE DEF t
<1>3. ASSUME Has(t, k, e) PROVE Has(s, k, e) \/ line = Event(k, e)
  <2>1. PICK i \in 1..Len(t) : t[i] = Event(k, e)
    BY <1>3 DEF Has
  <2>2. i = Len(s) + 1 \/ i \in 1..Len(s)
    BY <1>1, <1>2, <2>1
  <2> QED BY <1>1, <2>1, <2>2 DEF Has
<1>4. ASSUME Has(s, k, e) PROVE Has(t, k, e)
  <2>1. PICK i \in 1..Len(s) : s[i] = Event(k, e)
    BY <1>4 DEF Has
  <2>2. i \in 1..Len(t) /\ t[i] = Event(k, e)
    BY <1>1, <1>2, <2>1
  <2> QED BY <2>2 DEF Has
<1>5. ASSUME line = Event(k, e) PROVE Has(t, k, e)
  <2>1. Len(s) + 1 \in 1..Len(t) /\ t[Len(s) + 1] = Event(k, e)
    BY <1>1, <1>2, <1>5
  <2> QED BY <2>1 DEF Has
<1> QED BY <1>3, <1>4, <1>5 DEF t

\* A line that does not enqueue e leaves what was seen of e in sight.
LEMMA SeenAppend ==
    ASSUME NEW s \in Seq(Lines), NEW line \in Lines, NEW k, NEW e,
           Seen(s, k, e), line # Event("enqueue", e)
    PROVE  Seen(Append(s, line), k, e)
<1> DEFINE t == Append(s, line)
<1>1. /\ Len(t) = Len(s) + 1 /\ t[Len(s) + 1] = line
      /\ \A i \in 1..Len(s) : t[i] = s[i]
  BY AppendedLine
<1>2. Len(s) \in Nat
  OBVIOUS
<1> HIDE DEF t
<1>3. PICK i \in 1..Len(s) : s[i] = Event(k, e) /\ Counts(s, i, e)
  BY DEF Seen
<1>4. i \in 1..Len(t) /\ t[i] = Event(k, e) /\ t[i] = s[i]
  BY <1>1, <1>2, <1>3
<1>5. \A j \in i+1..Len(t) : t[j] # Event("enqueue", e)
  <2> TAKE j \in i+1..Len(t)
  <2>1. j = Len(s) + 1 \/ (j \in i+1..Len(s) /\ j \in 1..Len(s))
    BY <1>1, <1>2, <1>3
  <2> QED BY <1>1, <1>3, <2>1 DEF Counts
<1>6. Counts(t, i, e)
  BY <1>3, <1>4, <1>5 DEF Counts
<1>7. Seen(t, k, e)
  BY <1>4, <1>6 DEF Seen
<1> QED BY <1>7 DEF t

\* The last line is in sight.
LEMMA SeenLast ==
    ASSUME NEW s \in Seq(Lines), NEW k \in Kinds, NEW e \in Entries
    PROVE  Seen(Append(s, Event(k, e)), k, e)
<1> DEFINE t == Append(s, Event(k, e))
           n == Len(s) + 1
<1>1. Event(k, e) \in Lines
  BY EventIsLine
<1>2. Len(t) = n /\ t[n] = Event(k, e)
  BY <1>1, AppendedLine
<1>3. n \in 1..Len(t) /\ n \in Nat
  BY <1>2
<1> HIDE DEF t, n
<1>4. Counts(t, n, e)
  BY <1>2, <1>3 DEF Counts
<1>5. Seen(t, k, e)
  BY <1>2, <1>3, <1>4 DEF Seen
<1> QED BY <1>5 DEF t

\* An entry that can be selected was enqueued and not started since.
LEMMA SelectedIsNew ==
    ASSUME NEW e \in Entries, Selected(log, torn, e)
    PROVE  Has(log, "enqueue", e) /\ ~Seen(log, "start", e)
BY DEF Selected, Status
-----------------------------------------------------------------------------
(* Every step keeps OnceInv. *)

\* At first nothing was issued, started or torn.
LEMMA InitOnce == Init => OnceInv
<1> SUFFICES ASSUME Init PROVE OnceInv
  OBVIOUS
<1>1. log = <<>> /\ Len(log) = 0
  BY DEF Init
<1>2. \A k, e : ~Has(log, k, e)
  BY <1>1 DEF Has
<1>3. PendingInv
  BY DEF Init, PendingInv, Pending
<1>4. StartsStand
  BY <1>2 DEF StartsStand
<1>5. SpawnedOnce
  BY DEF Init, SpawnedOnce
<1> QED BY <1>3, <1>4, <1>5 DEF Init, OnceInv

\* A step that starts nothing, issues nothing and makes nobody pending.
LEMMA OnceKept ==
    ASSUME OnceInv, UNCHANGED <<log, torn, issued, spawned>>,
           \A q \in Procs :
               /\ Pending(q)' => Pending(q) /\ entry'[q] = entry[q]
               /\ pc'[q] = "started" => pc[q] = "started" /\ entry'[q] = entry[q]
    PROVE  OnceInv'
<1>1. PendingInv'
  <2> SUFFICES
        /\ \A p \in Procs : Pending(p)' =>
               /\ entry'[p] \in issued
               /\ ~Has(log, "enqueue", entry'[p]) /\ ~Has(log, "start", entry'[p])
        /\ \A p, q \in Procs : Pending(p)' /\ Pending(q)' /\ entry'[p] = entry'[q] => p = q
    BY DEF PendingInv
  <2> QED BY DEF OnceInv, PendingInv
<1>2. StartsStand'
  BY DEF OnceInv, StartsStand
<1>3. SpawnedOnce'
  BY DEF OnceInv, SpawnedOnce
<1> QED BY <1>1, <1>2, <1>3 DEF OnceInv

\* A new id is pending with exactly one client, and nothing else changes.
LEMMA InvokeOnce == ASSUME TypeInv, OnceInv, Invoke PROVE OnceInv'
<1>1. ASSUME NEW p \in Clients, NEW e \in Entries, BeginAdd(p, e) PROVE OnceInv'
  <2>1. /\ p \in Procs /\ e \notin issued /\ issued' = issued \cup {e}
        /\ pc' = [pc EXCEPT ![p] = "wait"] /\ entry' = [entry EXCEPT ![p] = e]
        /\ op' = [op EXCEPT ![p] = "add"]
        /\ UNCHANGED <<log, torn, spawned>>
    BY <1>1 DEF BeginAdd, Procs, fileVars
  <2>2. ~Has(log, "enqueue", e) /\ ~Has(log, "start", e)
    BY <2>1 DEF OnceInv, StartsStand
  <2>3. \A q \in Procs : Pending(q)' => q = p \/ (Pending(q) /\ entry'[q] = entry[q])
    BY <2>1 DEF Pending, TypeInv, TypeOK
  <2>4. entry'[p] = e
    BY <2>1 DEF TypeInv, TypeOK
  <2>5. PendingInv'
    <3>1. \A q \in Procs : Pending(q)' =>
              /\ entry'[q] \in issued'
              /\ ~Has(log', "enqueue", entry'[q]) /\ ~Has(log', "start", entry'[q])
      BY <2>1, <2>2, <2>3, <2>4 DEF OnceInv, PendingInv
    <3>2. \A q, r \in Procs : Pending(q)' /\ Pending(r)' /\ entry'[q] = entry'[r] => q = r
      BY <2>1, <2>3, <2>4 DEF OnceInv, PendingInv
    <3> QED BY <3>1, <3>2 DEF PendingInv
  <2>6. StartsStand'
    BY <2>1 DEF OnceInv, StartsStand
  <2>7. SpawnedOnce'
    BY <2>1 DEF OnceInv, SpawnedOnce, TypeInv, TypeOK
  <2> QED BY <2>1, <2>5, <2>6, <2>7 DEF OnceInv
<1>2. ASSUME NEW p \in Clients, NEW e \in Entries, BeginCancel(p, e) PROVE OnceInv'
  <2>1. \A q \in Procs :
            /\ Pending(q)' => Pending(q) /\ entry'[q] = entry[q]
            /\ pc'[q] = "started" => pc[q] = "started" /\ entry'[q] = entry[q]
    BY <1>2 DEF BeginCancel, Pending, TypeInv, TypeOK
  <2> QED BY <1>2, <2>1, OnceKept DEF BeginCancel, fileVars
<1>3. ASSUME NEW p \in Runners, NEW m \in MaxChoices, BeginRun(p, m) PROVE OnceInv'
  <2>1. \A q \in Procs :
            /\ Pending(q)' => Pending(q) /\ entry'[q] = entry[q]
            /\ pc'[q] = "started" => pc[q] = "started" /\ entry'[q] = entry[q]
    BY <1>3 DEF BeginRun, Pending, TypeInv, TypeOK
  <2> QED BY <1>3, <2>1, OnceKept DEF BeginRun, fileVars, ghostVars
<1> QED BY <1>1, <1>2, <1>3 DEF Invoke

\* A client that returns is not pending any more; a runner never was.
LEMMA ReturnsPending ==
    ASSUME NEW p \in Procs, NEW r \in Nat, TypeInv, Returns(p, r), UNCHANGED <<op, entry>>
    PROVE  \A q \in Procs :
               /\ Pending(q)' => Pending(q) /\ entry'[q] = entry[q]
               /\ pc'[q] = "started" => pc[q] = "started" /\ entry'[q] = entry[q]
<1>1. CASE op[p] = "run" /\ RunnerReturns(p, r)
  <2>1. pc' = [pc EXCEPT ![p] = "idle"] \/ pc' = [pc EXCEPT ![p] = "wait"]
    BY ReturnsTypes DEF TypeInv
  <2> QED BY <1>1, <2>1 DEF Pending, TypeInv, TypeOK
<1>2. CASE ClientReturns(p, r)
  BY <1>2 DEF ClientReturns, Pending, TypeInv, TypeOK
<1> QED BY <1>1, <1>2 DEF Returns

\* Acquiring, timing out and releasing start nothing.
LEMMA LockStepOnce == ASSUME NEW p \in Procs, TypeInv, OnceInv, LockStep(p) PROVE OnceInv'
<1>1. CASE Acquire(p)
  <2>1. \A q \in Procs :
            /\ Pending(q)' => Pending(q) /\ entry'[q] = entry[q]
            /\ pc'[q] = "started" => pc[q] = "started" /\ entry'[q] = entry[q]
    BY <1>1 DEF Acquire, Pending, TypeInv, TypeOK
  <2> QED BY <1>1, <2>1, OnceKept DEF Acquire, fileVars, ghostVars
<1>2. CASE Timeout(p)
  BY <1>2, ReturnsPending, OnceKept DEF Timeout, fileVars, ghostVars
<1>3. CASE Release(p)
  <2>1. rc[p] \in Nat
    BY DEF TypeInv, TypeOK
  <2> QED BY <1>3, <2>1, ReturnsPending, OnceKept DEF Release, fileVars, ghostVars
<1> QED BY <1>1, <1>2, <1>3 DEF LockStep

\* What one append does to the log, when nothing is torn.
LEMMA AppendOutcome ==
    ASSUME ~TornWrites, torn = FALSE, NEW line, Append1(line) \/ AppendFails
    PROVE  torn' = FALSE /\ (log' = Append(log, line) \/ log' = log)
BY DEF Append1, AppendFails

\* What the log has after an append that may have failed.
LEMMA HasAfter ==
    ASSUME NEW line \in Lines, log \in Seq(Lines), log' = Append(log, line) \/ log' = log
    PROVE  \A k, f : /\ Has(log, k, f) => Has(log', k, f)
                     /\ Has(log', k, f) => Has(log, k, f) \/ line = Event(k, f)
<1> TAKE k, f
<1>1. CASE log' = log
  BY <1>1
<1>2. CASE log' = Append(log, line)
  BY <1>2, HasAppend
<1> QED BY <1>1, <1>2

\* A cancel or a verdict is recorded, or not.
LEMMA RecordOnce ==
    ASSUME ~TornWrites, TypeInv, OnceInv, NEW p \in Procs,
           NEW k \in {"cancel", "finish", "fail"}, NEW e \in Entries, NEW r \in Nat,
           Appends(p, Event(k, e), r), UNCHANGED <<op, entry, issued, spawned>>
    PROVE  OnceInv'
<1> DEFINE line == Event(k, e)
<1>1. line \in Lines /\ log \in Seq(Lines)
  BY EventIsLine DEF Kinds, TypeInv, TypeOK
<1>2. torn' = FALSE /\ (log' = Append(log, line) \/ log' = log)
  BY AppendOutcome DEF Appends, OnceInv
<1>3. \A f : line # Event("enqueue", f) /\ line # Event("start", f)
  BY EventsDiffer
<1> HIDE DEF line
<1>4. \A f : (Has(log', "enqueue", f) <=> Has(log, "enqueue", f))
             /\ (Has(log', "start", f) <=> Has(log, "start", f))
  BY <1>1, <1>2, <1>3, HasAfter
<1>5. \A f : Seen(log, "start", f) => Seen(log', "start", f)
  BY <1>1, <1>2, <1>3, SeenAppend
<1>6. pc' = [pc EXCEPT ![p] = "unlock"]
  BY DEF Appends
<1>7. \A q \in Procs :
          /\ Pending(q)' => Pending(q)
          /\ pc'[q] = "started" => pc[q] = "started"
  BY <1>6 DEF Pending, TypeInv, TypeOK
<1>8. PendingInv'
  <2>1. \A q \in Procs : Pending(q)' =>
            /\ entry'[q] \in issued'
            /\ ~Has(log', "enqueue", entry'[q]) /\ ~Has(log', "start", entry'[q])
    BY <1>4, <1>7 DEF OnceInv, PendingInv
  <2>2. \A q, u \in Procs : Pending(q)' /\ Pending(u)' /\ entry'[q] = entry'[u] => q = u
    BY <1>7 DEF OnceInv, PendingInv
  <2> QED BY <2>1, <2>2 DEF PendingInv
<1>9. StartsStand'
  BY <1>4, <1>5 DEF OnceInv, StartsStand
<1>10. SpawnedOnce'
  BY <1>4, <1>7 DEF OnceInv, SpawnedOnce
<1> QED BY <1>2, <1>8, <1>9, <1>10 DEF OnceInv

\* The pending id of p is enqueued; it was never started, so no start event
\* is overtaken.
LEMMA AddOnce ==
    ASSUME ~TornWrites, TypeInv, OnceInv, NEW p \in Procs, AddLocked(p)
    PROVE  OnceInv'
<1> DEFINE e == entry[p]
           line == Event("enqueue", e)
<1>1. Pending(p) /\ e \in Entries
  BY DEF AddLocked, Pending, TypeInv, EntryInv
<1>2. line \in Lines /\ log \in Seq(Lines)
  BY <1>1, EventIsLine DEF Kinds, TypeInv, TypeOK
<1>3. torn' = FALSE /\ (log' = Append(log, line) \/ log' = log)
  BY AppendOutcome DEF AddLocked, Appends, OnceInv
<1>4. e \in issued /\ ~Has(log, "enqueue", e) /\ ~Has(log, "start", e)
  BY <1>1 DEF OnceInv, PendingInv
<1>5. \A f : /\ line # Event("start", f)
             /\ line = Event("enqueue", f) => f = e
  BY EventsDiffer
<1>6. /\ pc' = [pc EXCEPT ![p] = "unlock"]
      /\ UNCHANGED <<op, entry, issued, spawned>>
  BY DEF AddLocked, Appends
<1> HIDE DEF line
<1>7. \A f : /\ Has(log', "start", f) <=> Has(log, "start", f)
             /\ Has(log', "enqueue", f) => Has(log, "enqueue", f) \/ f = e
  BY <1>2, <1>3, <1>5, HasAfter
<1>8. \A f : f # e /\ Seen(log, "start", f) => Seen(log', "start", f)
  BY <1>2, <1>3, <1>5, SeenAppend
<1>9. \A q \in Procs :
          /\ Pending(q)' => Pending(q) /\ q # p
          /\ pc'[q] = "started" => pc[q] = "started"
  BY <1>6 DEF Pending, TypeInv, TypeOK
<1>10. PendingInv'
  <2>1. \A q \in Procs : Pending(q)' => entry[q] # e
    BY <1>1, <1>9 DEF OnceInv, PendingInv
  <2>2. \A q \in Procs : Pending(q)' =>
            /\ entry'[q] \in issued'
            /\ ~Has(log', "enqueue", entry'[q]) /\ ~Has(log', "start", entry'[q])
    BY <1>6, <1>7, <1>9, <2>1 DEF OnceInv, PendingInv
  <2>3. \A q, u \in Procs : Pending(q)' /\ Pending(u)' /\ entry'[q] = entry'[u] => q = u
    BY <1>6, <1>9 DEF OnceInv, PendingInv
  <2> QED BY <2>2, <2>3 DEF PendingInv
<1>11. StartsStand'
  BY <1>4, <1>6, <1>7, <1>8 DEF OnceInv, StartsStand
<1>12. SpawnedOnce'
  BY <1>6, <1>7, <1>9 DEF OnceInv, SpawnedOnce
<1> QED BY <1>3, <1>10, <1>11, <1>12 DEF OnceInv

\* The selected entry was never started, and now its start event is there.
LEMMA SelectOnce ==
    ASSUME ~TornWrites, TypeInv, OnceInv, NEW p \in Procs, NEW e \in Entries, RunSelect(p, e)
    PROVE  OnceInv'
<1> DEFINE line == Event("start", e)
<1>1. Has(log, "enqueue", e) /\ ~Has(log, "start", e)
  BY SelectedIsNew DEF RunSelect, OnceInv, StartsStand
<1>2. e \in issued
  BY <1>1 DEF OnceInv, StartsStand
<1>3. spawned[e] = 0
  BY <1>1 DEF OnceInv, SpawnedOnce, TypeInv, TypeOK
<1>4. line \in Lines /\ log \in Seq(Lines)
  BY EventIsLine DEF Kinds, TypeInv, TypeOK
<1>5. /\ torn' = FALSE /\ entry' = [entry EXCEPT ![p] = e]
      /\ op[p] = "run" /\ UNCHANGED <<op, issued, spawned>>
  BY AppendOutcome DEF RunSelect, OnceInv
<1>6. \/ log' = Append(log, line) /\ pc' = [pc EXCEPT ![p] = "started"]
      \/ log' = log /\ pc' = [pc EXCEPT ![p] = "unlock"]
  BY DEF RunSelect, Append1, AppendFails, OnceInv
<1>7. \A f : /\ line # Event("enqueue", f)
             /\ line = Event("start", f) <=> f = e
  BY EventsDiffer
<1>8. Seen(Append(log, line), "start", e)
  BY <1>4, SeenLast DEF Kinds
<1> HIDE DEF line
<1>9. \A f : /\ Has(log', "enqueue", f) <=> Has(log, "enqueue", f)
             /\ Has(log', "start", f) => Has(log, "start", f) \/ f = e
             /\ Has(log, "start", f) => Has(log', "start", f)
  BY <1>4, <1>6, <1>7, HasAfter
<1>10. \A f : Seen(log, "start", f) => Seen(log', "start", f)
  BY <1>4, <1>6, <1>7, SeenAppend
<1>11. \A q \in Procs : Pending(q)' => Pending(q) /\ entry'[q] = entry[q] /\ entry[q] # e
  <2>1. \A q \in Procs : Pending(q)' => Pending(q) /\ q # p
    BY <1>5, <1>6 DEF Pending, TypeInv, TypeOK
  <2> QED BY <1>1, <1>5, <2>1 DEF OnceInv, PendingInv, TypeInv, TypeOK
<1>12. PendingInv'
  <2>1. \A q \in Procs : Pending(q)' =>
            /\ entry'[q] \in issued'
            /\ ~Has(log', "enqueue", entry'[q]) /\ ~Has(log', "start", entry'[q])
    BY <1>5, <1>9, <1>11 DEF OnceInv, PendingInv
  <2>2. \A q, u \in Procs : Pending(q)' /\ Pending(u)' /\ entry'[q] = entry'[u] => q = u
    BY <1>11 DEF OnceInv, PendingInv
  <2> QED BY <2>1, <2>2 DEF PendingInv
<1>13. StartsStand'
  <2>1. \A f \in Entries : Has(log', "start", f) => Seen(log', "start", f)
    <3>1. Has(log', "start", e) => Seen(log', "start", e)
      BY <1>1, <1>6, <1>8
    <3> QED BY <1>9, <1>10, <3>1 DEF OnceInv, StartsStand
  <2> QED BY <1>2, <1>5, <1>9, <2>1 DEF OnceInv, StartsStand
<1>14. SpawnedOnce'
  <2>1. \A q \in Procs : pc'[q] = "started" =>
            Has(log', "start", entry'[q]) /\ spawned[entry'[q]] = 0
    <3>1. ASSUME pc'[p] = "started" PROVE Has(log', "start", e) /\ entry'[p] = e
      <4>1. log' = Append(log, line)
        BY <1>6, <3>1 DEF TypeInv, TypeOK
      <4> QED BY <1>4, <1>5, <1>7, <4>1, HasAppend DEF TypeInv, TypeOK
    <3>2. \A q \in Procs : q # p => pc'[q] = pc[q] /\ entry'[q] = entry[q]
      BY <1>5, <1>6 DEF TypeInv, TypeOK
    <3> QED BY <1>3, <1>9, <3>1, <3>2 DEF OnceInv, SpawnedOnce
  <2> QED BY <1>5, <1>9, <2>1 DEF OnceInv, SpawnedOnce
<1> QED BY <1>5, <1>12, <1>13, <1>14 DEF OnceInv

\* No critical section of a client makes a started entry look new.
LEMMA ClientStepOnce ==
    ASSUME ~TornWrites, NEW p \in Procs, TypeInv, OnceInv, ClientStep(p)
    PROVE  OnceInv'
<1>1. CASE AddLocked(p)
  BY <1>1, AddOnce
<1>2. CASE CancelUnknown(p)
  <2>1. \A q \in Procs :
            /\ Pending(q)' => Pending(q) /\ entry'[q] = entry[q]
            /\ pc'[q] = "started" => pc[q] = "started" /\ entry'[q] = entry[q]
    BY <1>2 DEF CancelUnknown, Pending, TypeInv, TypeOK
  <2> QED BY <1>2, <2>1, OnceKept DEF CancelUnknown, fileVars, ghostVars
<1>3. CASE CancelLocked(p)
  <2>1. entry[p] \in Entries
    BY <1>3 DEF CancelLocked, TypeInv, EntryInv
  <2> QED BY <1>3, <2>1, RecordOnce DEF CancelLocked
<1> QED BY <1>1, <1>2, <1>3 DEF ClientStep

\* The only step that starts a child: its start event is in the log and no
\* child of the entry was started before.  It is also the only step for
\* which the lock matters, since two runners between the event and the child
\* of one entry would both start it.
LEMMA SpawnOnce ==
    ASSUME NEW p \in Procs, TypeInv, LockInv, OnceInv, Spawn(p)
    PROVE  OnceInv'
<1>1. /\ pc[p] = "started" /\ pc' = [pc EXCEPT ![p] = "running"]
      /\ spawned' = [spawned EXCEPT ![entry[p]] = @ + 1]
      /\ UNCHANGED <<log, torn, op, entry, issued>>
  BY DEF Spawn, fileVars
<1>2. Has(log, "start", entry[p]) /\ spawned[entry[p]] = 0 /\ entry[p] \in Entries
  BY <1>1 DEF OnceInv, SpawnedOnce, TypeInv, EntryInv
<1>3. \A q \in Procs : pc'[q] # "started"
  <2>1. \A q \in Procs : pc[q] = "started" => q = p
    BY <1>1 DEF LockInv, Inside
  <2> QED BY <1>1, <2>1 DEF TypeInv, TypeOK
<1>4. \A e \in Entries : spawned'[e] = (IF e = entry[p] THEN 1 ELSE spawned[e])
  BY <1>1, <1>2 DEF TypeInv, TypeOK
<1>5. SpawnedOnce'
  BY <1>1, <1>2, <1>3, <1>4 DEF OnceInv, SpawnedOnce
<1>6. \A q \in Procs : Pending(q)' => Pending(q)
  BY <1>1 DEF Pending, TypeInv, TypeOK
<1>7. PendingInv'
  <2>1. \A q \in Procs : Pending(q)' =>
            /\ entry'[q] \in issued'
            /\ ~Has(log', "enqueue", entry'[q]) /\ ~Has(log', "start", entry'[q])
    BY <1>1, <1>6 DEF OnceInv, PendingInv
  <2>2. \A q, u \in Procs : Pending(q)' /\ Pending(u)' /\ entry'[q] = entry'[u] => q = u
    BY <1>1, <1>6 DEF OnceInv, PendingInv
  <2> QED BY <2>1, <2>2 DEF PendingInv
<1>8. StartsStand'
  BY <1>1 DEF OnceInv, StartsStand
<1> QED BY <1>1, <1>5, <1>7, <1>8 DEF OnceInv

\* No critical section of a runner starts an entry twice.
LEMMA RunnerStepOnce ==
    ASSUME ~TornWrites, NEW p \in Procs, TypeInv, LockInv, OnceInv, RunnerStep(p)
    PROVE  OnceInv'
<1>1. CASE RunNothing(p)
  <2>1. \A q \in Procs :
            /\ Pending(q)' => Pending(q) /\ entry'[q] = entry[q]
            /\ pc'[q] = "started" => pc[q] = "started" /\ entry'[q] = entry[q]
    BY <1>1 DEF RunNothing, Pending, TypeInv, TypeOK
  <2> QED BY <1>1, <2>1, OnceKept DEF RunNothing, fileVars, ghostVars
<1>2. ASSUME NEW e \in Entries, RunSelect(p, e) PROVE OnceInv'
  BY <1>2, SelectOnce
<1>3. CASE Spawn(p)
  BY <1>3, SpawnOnce
<1>4. ASSUME NEW c \in ExitCodes, RunRecord(p, c) PROVE OnceInv'
  <2>1. entry[p] \in Entries /\ c \in Nat
    BY <1>4, QueueAssumption DEF RunRecord, TypeInv, EntryInv
  <2>2. PICK k \in {"finish", "fail"} : Appends(p, Event(k, entry[p]), c)
    BY <1>4 DEF RunRecord
  <2> QED BY <1>4, <2>1, <2>2, RecordOnce DEF RunRecord
<1> QED BY <1>1, <1>2, <1>3, <1>4 DEF RunnerStep

\* A kill starts nothing, and what was recorded stays recorded.
LEMMA KillOnce ==
    ASSUME ~TornWrites, NEW p \in Procs, TypeInv, OnceInv, Kill(p) \/ KillSubshell(p)
    PROVE  OnceInv'
<1>1. CASE Kill(p)
  <2>1. \A q \in Procs :
            /\ Pending(q)' => Pending(q) /\ entry'[q] = entry[q]
            /\ pc'[q] = "started" => pc[q] = "started" /\ entry'[q] = entry[q]
    BY <1>1 DEF Kill, Pending, TypeInv, TypeOK
  <2>2. torn' = torn
    BY <1>1 DEF Kill
  <2> QED BY <1>1, <2>1, <2>2, OnceKept DEF Kill
<1>2. CASE KillSubshell(p)
  BY <1>2, ReturnsPending, OnceKept DEF KillSubshell, fileVars
<1> QED BY <1>1, <1>2

\* Every step of the queue, and a stutter, keep the invariant.
LEMMA StepOnce ==
    ASSUME ~TornWrites, TypeInv, LockInv, OnceInv, [Next]_vars
    PROVE  OnceInv'
<1>1. CASE Invoke
  BY <1>1, InvokeOnce
<1>2. ASSUME NEW p \in Procs, LockStep(p) \/ ClientStep(p) \/ RunnerStep(p) PROVE OnceInv'
  BY <1>2, LockStepOnce, ClientStepOnce, RunnerStepOnce
<1>3. ASSUME NEW p \in Procs, Kill(p) \/ KillSubshell(p) PROVE OnceInv'
  BY <1>3, KillOnce
<1>4. ASSUME NEW e \in Entries, OrphanExit(e) PROVE OnceInv'
  BY <1>4, OnceKept DEF OrphanExit, Pending, fileVars, procVars, ghostVars
<1>5. CASE UNCHANGED vars
  BY <1>5, OnceKept DEF vars, Pending
<1> QED BY <1>1, <1>2, <1>3, <1>4, <1>5 DEF Next

\* Without torn writes the inductive invariant behind RunOnce holds in every
\* reachable state: a spawned child has its start event in the log.
THEOREM OnceHolds == ASSUME ~TornWrites PROVE Spec => []OnceInv
<1>1. TypeInv /\ LockInv /\ OnceInv /\ [Next]_vars => OnceInv'
  BY StepOnce
<1> QED BY <1>1, InitOnce, TypesHold, LockHolds, PTL DEF Spec

\* Without torn writes no entry's round is started twice, whichever runners
\* compete for it and whatever is killed or canceled in between.
THEOREM StartedOnce == ASSUME ~TornWrites PROVE Spec => []RunOnce
<1>1. OnceInv => RunOnce
  BY DEF OnceInv, SpawnedOnce, RunOnce
<1> QED BY <1>1, OnceHolds, PTL
-----------------------------------------------------------------------------
(* A successful add lasts. *)

\* A client that is told "ok", or is about to be, has its event in the log.
DurableInv ==
    Intact => \A p \in Procs :
        op[p] = "add" /\ (report[p] = "ok" \/ (pc[p] = "unlock" /\ rc[p] = 0)) =>
            Has(log, "enqueue", entry[p])

\* At first nobody was told anything.
LEMMA InitDurable == Init => DurableInv
BY DEF Init, DurableInv

\* Whoever is told "ok" after this step was told so before, or was about to be.
LEMMA DurableKept ==
    ASSUME DurableInv, UNCHANGED log, Intact' => Intact,
           \A q \in Procs :
               op'[q] = "add" /\ (report'[q] = "ok" \/ (pc'[q] = "unlock" /\ rc'[q] = 0)) =>
                   /\ op[q] = "add" /\ entry'[q] = entry[q]
                   /\ report[q] = "ok" \/ (pc[q] = "unlock" /\ rc[q] = 0)
    PROVE  DurableInv'
BY DEF DurableInv

\* Only what was intact can be intact after an append, and then the line is there.
LEMMA IntactAppend ==
    ASSUME log \in Seq(Lines), NEW line \in Lines, Append1(line), Intact'
    PROVE  Intact /\ log' = Append(log, line)
<1> DEFINE new == IF torn THEN Garbage ELSE line
<1>1. log' = Append(log, new) /\ new \in Lines
  BY DEF Append1, Lines
<1>2. /\ Len(log') = Len(log) + 1 /\ log'[Len(log) + 1] = new
      /\ \A i \in 1..Len(log) : log'[i] = log[i]
  BY <1>1, AppendedLine
<1>3. Len(log) \in Nat /\ Len(log) + 1 \in DOMAIN log' /\ DOMAIN log = 1..Len(log)
      /\ 1..Len(log) \subseteq DOMAIN log'
  BY <1>1, <1>2
<1>4. \A i \in DOMAIN log' : log'[i] # Garbage
  BY DEF Intact
<1>5. new # Garbage /\ \A i \in DOMAIN log : log[i] # Garbage
  BY <1>2, <1>3, <1>4
<1>6. ~torn
  BY <1>5
<1> QED BY <1>1, <1>5, <1>6 DEF Intact

\* An append that fails leaves the log alone, and intact only if it was.
LEMMA IntactFails ==
    ASSUME torn \in BOOLEAN, AppendFails
    PROVE  log' = log /\ (Intact' => Intact)
<1>1. log' = log /\ (torn' = torn \/ torn' = TRUE)
  BY DEF AppendFails
<1> QED BY <1>1 DEF Intact

\* An append of somebody else never takes a reported add away.
LEMMA DurableAppend ==
    ASSUME TypeInv, DurableInv, NEW line \in Lines, Append1(line) \/ AppendFails,
           \A q \in Procs :
               op'[q] = "add" /\ (report'[q] = "ok" \/ (pc'[q] = "unlock" /\ rc'[q] = 0)) =>
                   /\ op[q] = "add" /\ entry'[q] = entry[q]
                   /\ \/ report[q] = "ok" \/ (pc[q] = "unlock" /\ rc[q] = 0)
                      \/ Append1(line) /\ line = Event("enqueue", entry[q])
    PROVE  DurableInv'
<1> SUFFICES ASSUME Intact', NEW q \in Procs, op'[q] = "add",
                    report'[q] = "ok" \/ (pc'[q] = "unlock" /\ rc'[q] = 0)
             PROVE  Has(log', "enqueue", entry[q]) /\ entry'[q] = entry[q]
  BY DEF DurableInv
<1>1. log \in Seq(Lines) /\ torn \in BOOLEAN
  BY DEF TypeInv, TypeOK
<1>2. Intact /\ (log' = Append(log, line) \/ log' = log) /\ (Append1(line) => log' = Append(log, line))
  BY <1>1, IntactAppend, IntactFails
<1>3. /\ entry'[q] = entry[q]
      /\ Has(log, "enqueue", entry[q]) \/ (Append1(line) /\ line = Event("enqueue", entry[q]))
  BY <1>2 DEF DurableInv
<1>4. \/ log' = log /\ Has(log, "enqueue", entry[q])
      \/ /\ log' = Append(log, line)
         /\ Has(log, "enqueue", entry[q]) \/ line = Event("enqueue", entry[q])
  BY <1>2, <1>3
<1>5. Has(Append(log, line), "enqueue", entry[q]) <=>
          Has(log, "enqueue", entry[q]) \/ line = Event("enqueue", entry[q])
  BY <1>1, HasAppend
<1>6. Has(log', "enqueue", entry[q])
  BY <1>4, <1>5
<1> QED BY <1>3, <1>6

\* Returning with r tells "ok" only for an r of 0.
LEMMA DurableReturns ==
    ASSUME TypeInv, DurableInv, NEW p \in Procs, NEW r \in Nat, Returns(p, r),
           UNCHANGED <<log, torn, op, entry>>,
           op[p] = "add" /\ r = 0 => pc[p] = "unlock" /\ rc[p] = 0
    PROVE  DurableInv'
<1>1. /\ rc' = [rc EXCEPT ![p] = 0]
      /\ pc' = [pc EXCEPT ![p] = "idle"] \/ pc' = [pc EXCEPT ![p] = "wait"]
  BY ReturnsTypes DEF TypeInv, Returns, RunnerReturns, ClientReturns
<1>2. \A q \in Procs : q # p => report'[q] = report[q] /\ pc'[q] = pc[q] /\ rc'[q] = rc[q]
  BY <1>1 DEF Returns, RunnerReturns, ClientReturns, TypeInv, TypeOK
<1>3. pc'[p] # "unlock"
  BY <1>1 DEF TypeInv, TypeOK
<1>4. op[p] = "add" /\ report'[p] = "ok" => r = 0
  BY DEF Returns, ClientReturns, ClientReport, TypeInv, TypeOK
<1>5. Intact' => Intact
  BY DEF Intact
<1>6. \A q \in Procs :
          op'[q] = "add" /\ (report'[q] = "ok" \/ (pc'[q] = "unlock" /\ rc'[q] = 0)) =>
              /\ op[q] = "add" /\ entry'[q] = entry[q]
              /\ report[q] = "ok" \/ (pc[q] = "unlock" /\ rc[q] = 0)
  BY <1>2, <1>3, <1>4
<1> QED BY <1>5, <1>6, DurableKept

\* Every step keeps reported adds.
LEMMA StepDurable == TypeInv /\ DurableInv /\ [Next]_vars => DurableInv'
<1> SUFFICES ASSUME TypeInv, DurableInv, [Next]_vars PROVE DurableInv'
  OBVIOUS
<1> USE DEF fileVars, procVars, ghostVars
<1>1. CASE Invoke
  <2>1. UNCHANGED <<log, torn, rc>> /\ (Intact' => Intact)
    BY <1>1 DEF Invoke, BeginAdd, BeginCancel, BeginRun, Intact
  <2>2. PICK p, o, e :
            /\ p \in Procs
            /\ pc' = [pc EXCEPT ![p] = "wait"] /\ report' = [report EXCEPT ![p] = "none"]
            /\ op' = [op EXCEPT ![p] = o] /\ entry' = [entry EXCEPT ![p] = e]
    BY <1>1 DEF Invoke, BeginAdd, BeginCancel, BeginRun, Procs
  <2>3. /\ pc'[p] = "wait" /\ report'[p] = "none"
        /\ \A q \in Procs \ {p} : /\ op'[q] = op[q] /\ entry'[q] = entry[q]
                                 /\ pc'[q] = pc[q] /\ report'[q] = report[q]
    BY <2>2 DEF TypeInv, TypeOK
  <2> QED BY <2>1, <2>3, DurableKept
<1>2. ASSUME NEW p \in Procs, LockStep(p) PROVE DurableInv'
  <2>1. CASE Acquire(p)
    BY <2>1, DurableKept DEF Acquire, Intact, TypeInv, TypeOK
  <2>2. CASE Timeout(p)
    BY <2>2, DurableReturns DEF Timeout
  <2>3. CASE Release(p)
    <3>1. rc[p] \in Nat
      BY DEF TypeInv, TypeOK
    <3> QED BY <2>3, <3>1, DurableReturns DEF Release
  <2> QED BY <1>2, <2>1, <2>2, <2>3 DEF LockStep
<1>3. ASSUME NEW p \in Procs, ClientStep(p) PROVE DurableInv'
  <2>1. CASE AddLocked(p) \/ CancelLocked(p)
    <3>1. entry[p] \in Entries
      BY <2>1 DEF AddLocked, CancelLocked, TypeInv, EntryInv
    <3>2. PICK k \in {"enqueue", "cancel"} :
              /\ Appends(p, Event(k, entry[p]), 0)
              /\ op[p] = "add" => k = "enqueue"
      BY <2>1 DEF AddLocked, CancelLocked
    <3>3. UNCHANGED <<op, entry, report>> /\ Event(k, entry[p]) \in Lines
      BY <2>1, <3>1, EventIsLine DEF AddLocked, CancelLocked, Kinds
    <3>4. \A q \in Procs : q # p => pc'[q] = pc[q] /\ rc'[q] = rc[q]
      BY <3>2 DEF Appends, TypeInv, TypeOK
    <3>5. rc'[p] = 0 => Append1(Event(k, entry[p]))
      BY <3>2 DEF Appends, TypeInv, TypeOK
    <3>6. Append1(Event(k, entry[p])) \/ AppendFails
      BY <3>2 DEF Appends
    <3> QED BY <3>2, <3>3, <3>4, <3>5, <3>6, DurableAppend
  <2>2. CASE CancelUnknown(p)
    BY <2>2, DurableKept DEF CancelUnknown, Intact, TypeInv, TypeOK
  <2> QED BY <1>3, <2>1, <2>2 DEF ClientStep
<1>4. ASSUME NEW p \in Procs, RunnerStep(p) PROVE DurableInv'
  <2>1. CASE RunNothing(p) \/ Spawn(p)
    <3>1. UNCHANGED <<log, torn, op, report>> /\ op[p] = "run" /\ (Intact' => Intact)
      BY <2>1 DEF RunNothing, Spawn, Intact, TypeInv, EntryInv
    <3>2. \A q \in Procs \ {p} : pc'[q] = pc[q] /\ rc'[q] = rc[q] /\ entry'[q] = entry[q]
      BY <2>1 DEF RunNothing, Spawn, TypeInv, TypeOK
    <3> QED BY <3>1, <3>2, DurableKept
  <2>2. ASSUME NEW e \in Entries, RunSelect(p, e) PROVE DurableInv'
    <3>1. op[p] = "run" /\ UNCHANGED <<op, report>> /\ Event("start", e) \in Lines
      BY <2>2, EventIsLine DEF RunSelect, Kinds
    <3>2. \A q \in Procs \ {p} : pc'[q] = pc[q] /\ rc'[q] = rc[q] /\ entry'[q] = entry[q]
      BY <2>2 DEF RunSelect, TypeInv, TypeOK
    <3>3. Append1(Event("start", e)) \/ AppendFails
      BY <2>2 DEF RunSelect
    <3> QED BY <3>1, <3>2, <3>3, DurableAppend
  <2>3. ASSUME NEW c \in ExitCodes, RunRecord(p, c) PROVE DurableInv'
    <3>1. op[p] = "run" /\ UNCHANGED <<op, entry, report>> /\ entry[p] \in Entries
      BY <2>3 DEF RunRecord, TypeInv, EntryInv
    <3>2. PICK k \in {"finish", "fail"} : Appends(p, Event(k, entry[p]), c)
      BY <2>3 DEF RunRecord
    <3>3. \A q \in Procs \ {p} : pc'[q] = pc[q] /\ rc'[q] = rc[q]
      BY <3>2 DEF Appends, TypeInv, TypeOK
    <3>4. /\ Append1(Event(k, entry[p])) \/ AppendFails
          /\ Event(k, entry[p]) \in Lines
      BY <3>1, <3>2, EventIsLine DEF Appends, Kinds
    <3> QED BY <3>1, <3>3, <3>4, DurableAppend
  <2> QED BY <1>4, <2>1, <2>2, <2>3 DEF RunnerStep
<1>5. ASSUME NEW p \in Procs, Kill(p) PROVE DurableInv'
  <2>1. torn' = torn \/ torn' = TRUE
    BY <1>5 DEF Kill
  <2>2. UNCHANGED <<log, report>> /\ (Intact' => Intact)
    BY <1>5, <2>1 DEF Kill, Intact
  <2>3. /\ op'[p] # "add"
        /\ \A q \in Procs \ {p} :
               pc'[q] = pc[q] /\ rc'[q] = rc[q] /\ entry'[q] = entry[q] /\ op'[q] = op[q]
    BY <1>5 DEF Kill, TypeInv, TypeOK
  <2> QED BY <2>2, <2>3, DurableKept
<1>6. ASSUME NEW p \in Procs, KillSubshell(p) PROVE DurableInv'
  BY <1>6, DurableReturns DEF KillSubshell
<1>7. ASSUME NEW e \in Entries, OrphanExit(e) PROVE DurableInv'
  BY <1>7, DurableKept DEF OrphanExit, Intact
<1>8. CASE UNCHANGED vars
  BY <1>8, DurableKept DEF vars, Intact
<1> QED BY <1>1, <1>2, <1>3, <1>4, <1>5, <1>6, <1>7, <1>8 DEF Next

\* Once "apr queue add" has reported success every later reader sees the
\* entry, whatever is killed, timed out or canceled, unless an append was cut
\* short; with either lock, torn writes or not.
THEOREM AddsLast == Spec => []AddDurable
<1>1. DurableInv => AddDurable
  <2> SUFFICES ASSUME DurableInv, Intact, NEW p \in Clients, op[p] = "add", report[p] = "ok"
               PROVE  Status(log, entry[p]) # "unknown"
    BY DEF AddDurable
  <2>1. Has(log, "enqueue", entry[p])
    BY DEF DurableInv, Procs
  <2> QED BY <2>1 DEF Status
<1> QED BY <1>1, InitDurable, StepDurable, TypesHold, PTL DEF Spec
-----------------------------------------------------------------------------
(* What one more line does to what a reader derives. *)

\* A line about another entry, or of another kind, is no new sight of an event.
LEMMA SeenAfter ==
    ASSUME NEW s \in Seq(Lines), NEW line \in Lines, NEW k \in Kinds, NEW e \in Entries,
           line # Event("enqueue", e)
    PROVE  Seen(Append(s, line), k, e) <=> Seen(s, k, e) \/ line = Event(k, e)
<1> DEFINE t == Append(s, line)
<1>1. /\ Len(t) = Len(s) + 1 /\ t[Len(s) + 1] = line
      /\ \A i \in 1..Len(s) : t[i] = s[i]
  BY AppendedLine
<1>2. Len(s) \in Nat
  OBVIOUS
<1>3. Seen(s, k, e) \/ line = Event(k, e) => Seen(t, k, e)
  BY SeenAppend, SeenLast
<1> HIDE DEF t
<1>4. ASSUME Seen(t, k, e) PROVE Seen(s, k, e) \/ line = Event(k, e)
  <2>1. PICK i \in 1..Len(t) : t[i] = Event(k, e) /\ Counts(t, i, e)
    BY <1>4 DEF Seen
  <2>2. CASE i = Len(s) + 1
    BY <1>1, <2>1, <2>2
  <2>3. CASE i \in 1..Len(s)
    <3>1. s[i] = Event(k, e)
      BY <1>1, <2>1, <2>3
    <3>2. \A j \in i+1..Len(s) : s[j] # Event("enqueue", e)
      <4> TAKE j \in i+1..Len(s)
      <4>1. j \in i+1..Len(t) /\ s[j] = t[j]
        BY <1>1, <1>2, <2>3
      <4> QED BY <2>1, <4>1 DEF Counts
    <3>3. Counts(s, i, e)
      BY <2>3, <3>1, <3>2 DEF Counts
    <3> QED BY <2>3, <3>1, <3>3 DEF Seen
  <2> QED BY <1>1, <1>2, <2>1, <2>2, <2>3
<1> QED BY <1>3, <1>4 DEF t

\* A verdict stands until the next verdict or enqueue.
LEMMA VerdictAfter ==
    ASSUME NEW s \in Seq(Lines), NEW line \in Lines, NEW k, NEW e,
           line \notin {Event("finish", e), Event("fail", e), Event("enqueue", e)}
    PROVE  Verdict(Append(s, line), k, e) <=> Verdict(s, k, e) \/ line = Event(k, e)
<1> DEFINE t == Append(s, line)
           ends == {Event("finish", e), Event("fail", e), Event("enqueue", e)}
<1>1. /\ Len(t) = Len(s) + 1 /\ t[Len(s) + 1] = line
      /\ \A i \in 1..Len(s) : t[i] = s[i]
  BY AppendedLine
<1>2. Len(s) \in Nat /\ line \notin ends
  OBVIOUS
<1> HIDE DEF t, ends
<1>3. ASSUME Verdict(t, k, e) PROVE Verdict(s, k, e) \/ line = Event(k, e)
  <2>1. PICK i \in 1..Len(t) : t[i] = Event(k, e) /\ \A j \in i+1..Len(t) : t[j] \notin ends
    BY <1>3 DEF Verdict, ends
  <2>2. CASE i = Len(s) + 1
    BY <1>1, <2>1, <2>2
  <2>3. CASE i \in 1..Len(s)
    <3>1. s[i] = Event(k, e)
      BY <1>1, <2>1, <2>3
    <3>2. \A j \in i+1..Len(s) : s[j] \notin ends
      <4> TAKE j \in i+1..Len(s)
      <4>1. j \in i+1..Len(t) /\ s[j] = t[j]
        BY <1>1, <1>2, <2>3
      <4> QED BY <2>1, <4>1
    <3> QED BY <2>3, <3>1, <3>2 DEF Verdict, ends
  <2> QED BY <1>1, <1>2, <2>1, <2>2, <2>3
<1>4. ASSUME Verdict(s, k, e) PROVE Verdict(t, k, e)
  <2>1. PICK i \in 1..Len(s) : s[i] = Event(k, e) /\ \A j \in i+1..Len(s) : s[j] \notin ends
    BY <1>4 DEF Verdict, ends
  <2>2. i \in 1..Len(t) /\ t[i] = Event(k, e)
    BY <1>1, <1>2, <2>1
  <2>3. \A j \in i+1..Len(t) : t[j] \notin ends
    <3> TAKE j \in i+1..Len(t)
    <3>1. j = Len(s) + 1 \/ (j \in i+1..Len(s) /\ t[j] = s[j])
      BY <1>1, <1>2, <2>1
    <3> QED BY <1>1, <1>2, <2>1, <3>1
  <2> QED BY <2>2, <2>3 DEF Verdict, ends
<1>5. ASSUME line = Event(k, e) PROVE Verdict(t, k, e)
  <2>1. Len(s) + 1 \in 1..Len(t) /\ \A j \in Len(s)+1+1..Len(t) : FALSE
    BY <1>1, <1>2
  <2> QED BY <1>1, <1>5, <2>1 DEF Verdict
<1> QED BY <1>3, <1>4, <1>5 DEF t

\* The last line, if it is a verdict, is the verdict.
LEMMA VerdictLast ==
    ASSUME NEW s \in Seq(Lines), NEW k \in {"finish", "fail"}, NEW l \in {"finish", "fail"},
           NEW e \in Entries
    PROVE  Verdict(Append(s, Event(k, e)), l, e) <=> k = l
<1> DEFINE line == Event(k, e)
           t == Append(s, line)
<1>1. line \in Lines
  BY EventIsLine DEF Kinds
<1>2. /\ Len(t) = Len(s) + 1 /\ t[Len(s) + 1] = line
      /\ Len(s) \in Nat
  BY <1>1, AppendedLine
<1>3. line \in {Event("finish", e), Event("fail", e), Event("enqueue", e)}
  OBVIOUS
<1>4. line = Event(l, e) <=> k = l
  BY EventsDiffer
<1> HIDE DEF t, line
<1>5. ASSUME k = l PROVE Verdict(t, l, e)
  <2>1. Len(s) + 1 \in 1..Len(t) /\ \A j \in Len(s)+1+1..Len(t) : FALSE
    BY <1>2
  <2> QED BY <1>2, <1>4, <1>5, <2>1 DEF Verdict
<1>6. ASSUME Verdict(t, l, e) PROVE k = l
  <2>1. PICK i \in 1..Len(t) : t[i] = Event(l, e)
            /\ \A j \in i+1..Len(t) :
                   t[j] \notin {Event("finish", e), Event("fail", e), Event("enqueue", e)}
    BY <1>6 DEF Verdict
  <2>2. i = Len(s) + 1
    <3>1. i # Len(s) + 1 => Len(s) + 1 \in i+1..Len(t)
      BY <1>2, <2>1
    <3> QED BY <1>2, <1>3, <2>1, <3>1
  <2> QED BY <1>2, <1>4, <2>1, <2>2
<1> QED BY <1>5, <1>6 DEF t, line

\* An event of another entry leaves a status alone.
LEMMA StatusOther ==
    ASSUME NEW s \in Seq(Lines), NEW k \in Kinds, NEW f \in Entries, NEW e \in Entries, e # f
    PROVE  Status(Append(s, Event(k, f)), e) = Status(s, e)
<1> DEFINE line == Event(k, f)
           t == Append(s, line)
<1>1. line \in Lines /\ \A l : line # Event(l, e)
  BY EventIsLine, EventsDiffer
<1> HIDE DEF line
<1>2. \A l \in Kinds : Seen(t, l, e) <=> Seen(s, l, e)
  BY <1>1, SeenAfter
<1>3. \A l : Verdict(t, l, e) <=> Verdict(s, l, e)
  BY <1>1, VerdictAfter
<1>4. Has(t, "enqueue", e) <=> Has(s, "enqueue", e)
  BY <1>1, HasAppend
<1> HIDE DEF t
<1>5. Status(t, e) = Status(s, e)
  BY <1>2, <1>3, <1>4 DEF Status, Kinds
<1> QED BY <1>5 DEF t, line

\* A cancel wins.
LEMMA StatusCancel ==
    ASSUME NEW s \in Seq(Lines), NEW e \in Entries
    PROVE  Status(Append(s, Event("cancel", e)), e) = "canceled"
BY SeenLast DEF Status, Kinds

\* A queued entry that is started is running.
LEMMA StatusStart ==
    ASSUME NEW s \in Seq(Lines), NEW e \in Entries, Status(s, e) = "queued"
    PROVE  Status(Append(s, Event("start", e)), e) = "running"
<1> DEFINE line == Event("start", e)
           t == Append(s, line)
<1>1. line \in Lines /\ \A l : line = Event(l, e) <=> l = "start"
  BY EventIsLine, EventsDiffer DEF Kinds
<1> HIDE DEF line
<1>2. ~Seen(s, "cancel", e) /\ ~Verdict(s, "finish", e) /\ ~Verdict(s, "fail", e)
  BY DEF Status
<1>3. ~Seen(t, "cancel", e) /\ Seen(t, "start", e)
  BY <1>1, <1>2, SeenAfter DEF Kinds
<1>4. ~Verdict(t, "finish", e) /\ ~Verdict(t, "fail", e)
  BY <1>1, <1>2, VerdictAfter
<1> HIDE DEF t
<1>5. Status(t, e) = "running"
  BY <1>3, <1>4 DEF Status
<1> QED BY <1>5 DEF t, line

\* A running entry gets the verdict that is appended.
LEMMA StatusSettle ==
    ASSUME NEW s \in Seq(Lines), NEW e \in Entries, NEW k \in {"finish", "fail"},
           Status(s, e) = "running"
    PROVE  Status(Append(s, Event(k, e)), e) = (IF k = "finish" THEN "done" ELSE "failed")
<1> DEFINE line == Event(k, e)
           t == Append(s, line)
<1>1. line \in Lines /\ \A l : line = Event(l, e) <=> l = k
  BY EventIsLine, EventsDiffer DEF Kinds
<1>2. Verdict(t, "finish", e) <=> k = "finish"
  BY VerdictLast
<1>3. Verdict(t, "fail", e) <=> k = "fail"
  BY VerdictLast
<1> HIDE DEF line
<1>4. ~Seen(s, "cancel", e)
  BY DEF Status
<1>5. ~Seen(t, "cancel", e)
  BY <1>1, <1>4, SeenAfter DEF Kinds
<1> HIDE DEF t
<1>6. Status(t, e) = (IF k = "finish" THEN "done" ELSE "failed")
  BY <1>2, <1>3, <1>5 DEF Status
<1> QED BY <1>6 DEF t, line

\* An event is about its entry and no other.
LEMMA About ==
    ASSUME NEW k \in Kinds, NEW e \in Entries, NEW f \in Entries
    PROVE  Event(k, e) \in {Event(l, f) : l \in Kinds} <=> e = f
BY EventsDiffer

\* An entry without events is unknown, and its first enqueue makes it queued.
LEMMA StatusNew ==
    ASSUME NEW s \in Seq(Lines), NEW e \in Entries, ~Mentioned(s, e)
    PROVE  /\ Status(s, e) = "unknown"
           /\ Status(Append(s, Event("enqueue", e)), e) = "queued"
<1> DEFINE line == Event("enqueue", e)
           t == Append(s, line)
<1>1. line \in Lines /\ \A l : line = Event(l, e) <=> l = "enqueue"
  BY EventIsLine, EventsDiffer DEF Kinds
<1>2. /\ Len(t) = Len(s) + 1 /\ t[Len(s) + 1] = line
      /\ \A i \in 1..Len(s) : t[i] = s[i]
      /\ Len(s) \in Nat
  BY <1>1, AppendedLine
<1>3. \A l \in Kinds : ~Has(s, l, e)
  BY DEF Mentioned, Has
<1>4. \A l \in Kinds : Has(t, l, e) <=> l = "enqueue"
  BY <1>1, <1>3, HasAppend
<1> HIDE DEF t, line
<1>5. \A l \in Kinds \ {"enqueue"} : ~Seen(t, l, e) /\ ~Verdict(t, l, e)
  BY <1>4 DEF Seen, Verdict, Has
<1>6. \A l \in Kinds : ~Seen(s, l, e) /\ ~Verdict(s, l, e)
  BY <1>3 DEF Seen, Verdict, Has
<1>7. Status(s, e) = "unknown"
  BY <1>3, <1>6 DEF Status, Kinds
<1>8. Status(t, e) = "queued"
  BY <1>4, <1>5 DEF Status, Kinds
<1> QED BY <1>7, <1>8 DEF t, line
-----------------------------------------------------------------------------
(* The order of the entries. *)

\* Who is ahead of e in the log.
Ahead(s, e) == {f \in Entries \ {e} : Mentioned(s, e) /\ Mentioned(s, f) /\ Before(s, f, e)}

\* An event mentions its entry.
LEMMA MentionedAfter ==
    ASSUME NEW s \in Seq(Lines), NEW k \in Kinds, NEW f \in Entries, NEW e \in Entries
    PROVE  Mentioned(Append(s, Event(k, f)), e) <=> Mentioned(s, e) \/ e = f
<1> DEFINE line == Event(k, f)
           t == Append(s, line)
           about == {Event(l, e) : l \in Kinds}
<1>1. line \in Lines /\ (line \in about <=> f = e)
  BY EventIsLine, About
<1>2. /\ Len(t) = Len(s) + 1 /\ t[Len(s) + 1] = line
      /\ \A i \in 1..Len(s) : t[i] = s[i]
      /\ Len(s) \in Nat
  BY <1>1, AppendedLine
<1> HIDE DEF t, line, about
<1>3. (\E i \in 1..Len(t) : t[i] \in about) <=> (\E i \in 1..Len(s) : s[i] \in about) \/ line \in about
  <2>1. \A i \in 1..Len(t) : i = Len(s) + 1 \/ i \in 1..Len(s)
    BY <1>2
  <2>2. Len(s) + 1 \in 1..Len(t) /\ \A i \in 1..Len(s) : i \in 1..Len(t)
    BY <1>2
  <2> QED BY <1>2, <2>1, <2>2
<1> QED BY <1>1, <1>3 DEF t, line, about, Mentioned

\* Of two entries that are mentioned the order never changes.
LEMMA BeforeAfter ==
    ASSUME NEW s \in Seq(Lines), NEW line \in Lines, NEW e \in Entries, NEW f \in Entries,
           Mentioned(s, f)
    PROVE  Before(Append(s, line), e, f) <=> Before(s, e, f)
<1> DEFINE t == Append(s, line)
           at(g) == {Event(l, g) : l \in Kinds}
<1>1. /\ Len(t) = Len(s) + 1
      /\ \A i \in 1..Len(s) : t[i] = s[i]
      /\ Len(s) \in Nat
  BY AppendedLine
<1> HIDE DEF t, at
<1>2. PICK m \in 1..Len(s) : s[m] \in at(f)
  BY DEF Mentioned, at
<1>3. ASSUME NEW i \in 1..Len(t), t[i] \in at(e), \A j \in 1..i : t[j] \notin at(f)
      PROVE  i \in 1..Len(s) /\ s[i] \in at(e) /\ \A j \in 1..i : s[j] \notin at(f)
  <2>1. m \notin 1..i
    BY <1>1, <1>2, <1>3
  <2>2. i \in 1..Len(s)
    BY <1>1, <1>2, <2>1
  <2>3. \A j \in 1..i : j \in 1..Len(s)
    BY <1>1, <2>2
  <2> QED BY <1>1, <1>3, <2>2, <2>3
<1>4. ASSUME NEW i \in 1..Len(s), s[i] \in at(e), \A j \in 1..i : s[j] \notin at(f)
      PROVE  i \in 1..Len(t) /\ t[i] \in at(e) /\ \A j \in 1..i : t[j] \notin at(f)
  <2>1. i \in 1..Len(t) /\ \A j \in 1..i : j \in 1..Len(s)
    BY <1>1
  <2> QED BY <1>1, <1>4, <2>1
<1> QED BY <1>3, <1>4 DEF t, at, Before

\* Two entries are not ahead of each other.
LEMMA BeforeAsym ==
    ASSUME NEW s \in Seq(Lines), NEW e, NEW f, Before(s, e, f), Before(s, f, e)
    PROVE  FALSE
<1>1. PICK i \in 1..Len(s) : /\ s[i] \in {Event(k, e) : k \in Kinds}
                            /\ \A j \in 1..i : s[j] \notin {Event(k, f) : k \in Kinds}
  BY DEF Before
<1>2. PICK n \in 1..Len(s) : /\ s[n] \in {Event(k, f) : k \in Kinds}
                            /\ \A j \in 1..n : s[j] \notin {Event(k, e) : k \in Kinds}
  BY DEF Before
<1>3. i \in 1..n \/ n \in 1..i
  OBVIOUS
<1> QED BY <1>1, <1>2, <1>3

\* Whoever comes before somebody is mentioned.
LEMMA BeforeMentioned ==
    ASSUME NEW s, NEW e, NEW f, Before(s, e, f)
    PROVE  Mentioned(s, e)
BY DEF Before, Mentioned

\* An event of a known entry puts nobody ahead of anybody.
LEMMA AheadKept ==
    ASSUME NEW s \in Seq(Lines), NEW k \in Kinds, NEW f \in Entries, NEW e \in Entries,
           Mentioned(s, f) \/ e # f
    PROVE  Ahead(Append(s, Event(k, f)), e) = Ahead(s, e)
<1> DEFINE t == Append(s, Event(k, f))
<1>1. Event(k, f) \in Lines
  BY EventIsLine
<1>2. Mentioned(t, e) <=> Mentioned(s, e)
  BY MentionedAfter
<1>3. Mentioned(s, e) => \A g \in Entries : Before(t, g, e) <=> Before(s, g, e)
  BY <1>1, BeforeAfter
<1>4. \A g \in Entries : Mentioned(s, g) => Mentioned(t, g)
  BY MentionedAfter
<1> HIDE DEF t
<1>5. \A g \in Entries : Before(s, g, e) => Mentioned(s, g)
  BY BeforeMentioned
<1>6. Ahead(t, e) = Ahead(s, e)
  BY <1>2, <1>3, <1>4, <1>5 DEF Ahead
<1> QED BY <1>6 DEF t

\* Everybody who is mentioned is ahead of a newcomer.
LEMMA AheadNew ==
    ASSUME NEW s \in Seq(Lines), NEW e \in Entries, ~Mentioned(s, e)
    PROVE  Ahead(Append(s, Event("enqueue", e)), e) = {f \in Entries : Mentioned(s, f)}
<1> DEFINE line == Event("enqueue", e)
           t == Append(s, line)
           at(g) == {Event(l, g) : l \in Kinds}
<1>1. line \in Lines
  BY EventIsLine DEF Kinds
<1>2. /\ Len(t) = Len(s) + 1
      /\ \A i \in 1..Len(s) : t[i] = s[i]
      /\ Len(s) \in Nat
  BY <1>1, AppendedLine
<1>3. \A g \in Entries : Mentioned(t, g) <=> Mentioned(s, g) \/ g = e
  BY MentionedAfter DEF Kinds
<1> HIDE DEF t, line, at
<1>4. ASSUME NEW g \in Entries, Mentioned(s, g) PROVE Before(t, g, e)
  <2>1. PICK i \in 1..Len(s) : s[i] \in at(g)
    BY <1>4 DEF Mentioned, at
  <2>2. i \in 1..Len(t) /\ t[i] \in at(g)
    BY <1>2, <2>1
  <2>3. \A j \in 1..i : t[j] \notin at(e)
    <3> TAKE j \in 1..i
    <3>1. j \in 1..Len(s) /\ t[j] = s[j]
      BY <1>2, <2>1
    <3>2. \A n \in 1..Len(s) : s[n] \notin at(e)
      BY DEF Mentioned, at
    <3> QED BY <3>1, <3>2
  <2> QED BY <2>2, <2>3 DEF Before, at
<1>5. Ahead(t, e) = {f \in Entries : Mentioned(s, f)}
  BY <1>3, <1>4 DEF Ahead
<1> QED BY <1>5 DEF t, line
-----------------------------------------------------------------------------
(* What every reader of the log may rely on. *)

Busy(p) == pc[p] \in {"started", "running"}

\* Nothing in the log is garbage, every entry in it was enqueued, and a round
\* under way is that of a running entry.
ForwardInv ==
    /\ \A i \in 1..Len(log) : log[i] # Garbage
    /\ \A e \in Entries : Mentioned(log, e) => Has(log, "enqueue", e)
    /\ \A p \in Procs : op[p] = "run" => p \in Runners
    /\ \A p \in Procs : Busy(p) => Status(log, entry[p]) = "running"

\* A step of the contract, or none.
Promised == [Contract!Next]_(Contract!vars)

Stat(s) == [e \in Entries |-> Status(s, e)]
RankOf(s) == [e \in Entries |-> Ahead(s, e)]

\* Nothing was cut short, so that the log can always be read.
LEMMA AlwaysReadable == ForwardInv /\ OnceInv => ~Unreadable(log, torn)
BY DEF ForwardInv, OnceInv, Unreadable

\* Whoever has a status is mentioned, and was enqueued.
LEMMA KnownMentioned ==
    ASSUME TypeInv, NEW e \in Entries
    PROVE  Status(log, e) # "unknown" => Mentioned(log, e)
BY StatusNew DEF TypeInv, TypeOK

\* A mentioned entry has a status.
LEMMA MentionedKnown ==
    ASSUME ForwardInv, NEW e \in Entries, Mentioned(log, e)
    PROVE  Status(log, e) # "unknown"
BY DEF ForwardInv, Status

\* Who is inside is alone, and nothing was left behind by anybody else.
LEMMA InsideAlone ==
    ASSUME LockInv, NEW p \in Procs, pc[p] \in Inside
    PROVE  orphans = {} /\ \A q \in Procs : Busy(q) => q = p
BY OwnersDiffer DEF LockInv, Inside, Busy

\* No round is under way while somebody reads the log under the lock.
LEMMA InsideIdle ==
    ASSUME LockInv, NEW p \in Procs, pc[p] \in {"locked", "unlock"}
    PROVE  Active = {}
BY InsideAlone DEF Active, Busy, Inside, Procs

\* The round of a busy runner is the only one under way.
LEMMA BusyActive ==
    ASSUME TypeInv, LockInv, ForwardInv, NEW p \in Procs, Busy(p)
    PROVE  p \in Runners /\ Active = {entry[p]} /\ entry[p] \in Entries
<1>1. p \in Runners /\ entry[p] \in Entries
  BY DEF TypeInv, EntryInv, ForwardInv, Busy
<1>2. orphans = {} /\ \A q \in Procs : Busy(q) => q = p
  BY InsideAlone DEF Busy, Inside
<1> QED BY <1>1, <1>2 DEF Active, Busy, Procs

\* The rounds under way depend on nothing but the busy runners and the orphans.
LEMMA ActiveKept ==
    ASSUME orphans' = orphans,
           \A q \in Procs : (Busy(q)' <=> Busy(q)) /\ (Busy(q) => entry'[q] = entry[q])
    PROVE  Active' = Active
<1>1. \A q \in Runners : (Busy(q)' <=> Busy(q)) /\ (Busy(q) => entry'[q] = entry[q])
  BY DEF Procs
<1>2. Active = {entry[q] : q \in {r \in Runners : Busy(r)}} \cup orphans
  BY DEF Active, Busy
<1>3. Active' = {entry'[q] : q \in {r \in Runners : Busy(r)'}} \cup orphans'
  BY DEF Active, Busy
<1>4. {r \in Runners : Busy(r)'} = {r \in Runners : Busy(r)}
  BY <1>1
<1>5. {entry'[q] : q \in {r \in Runners : Busy(r)}} = {entry[q] : q \in {r \in Runners : Busy(r)}}
  BY <1>1
<1> QED BY <1>2, <1>3, <1>4, <1>5

\* Nothing the contract speaks of changed.
LEMMA QuietStep ==
    ASSUME UNCHANGED log, Active' = Active
    PROVE  Promised
BY DEF Promised, Contract!vars

\* A round ended without a verdict.
LEMMA LoseStep ==
    ASSUME NEW e \in Entries, UNCHANGED log, Active = {e}, Active' = {}
    PROVE  Promised
<1>1. Contract!Lose(e)
  BY DEF Contract!Lose
<1> QED BY <1>1 DEF Promised, Contract!Next

\* A step that adds nothing to the log and makes nobody busy.
LEMMA ForwardKept ==
    ASSUME ForwardInv, UNCHANGED log,
           \A q \in Procs : /\ op'[q] = "run" => op[q] = "run" \/ q \in Runners
                            /\ Busy(q)' => Busy(q) /\ entry'[q] = entry[q]
    PROVE  ForwardInv'
<1> SUFFICES /\ \A i \in 1..Len(log') : log'[i] # Garbage
             /\ \A e \in Entries : Mentioned(log', e) => Has(log', "enqueue", e)
             /\ \A p \in Procs : op'[p] = "run" => p \in Runners
             /\ \A p \in Procs : Busy(p)' => Status(log', entry'[p]) = "running"
  BY DEF ForwardInv
<1> QED BY DEF ForwardInv
-----------------------------------------------------------------------------
(* Steps that append. *)

\* Only the entry of the event changes its status.
LEMMA StatAfter ==
    ASSUME NEW s \in Seq(Lines), NEW k \in Kinds, NEW e \in Entries
    PROVE  Stat(Append(s, Event(k, e))) =
               [Stat(s) EXCEPT ![e] = Status(Append(s, Event(k, e)), e)]
BY StatusOther DEF Stat

\* An event of a known entry leaves the order alone.
LEMMA OrderAfter ==
    ASSUME NEW s \in Seq(Lines), NEW k \in Kinds, NEW e \in Entries, Mentioned(s, e)
    PROVE  RankOf(Append(s, Event(k, e))) = RankOf(s)
BY AheadKept DEF RankOf

\* An append for an entry that is known, or becomes known by it, keeps the log forward.
LEMMA LogForward ==
    ASSUME TypeInv, ForwardInv, NEW k \in Kinds, NEW e \in Entries,
           k = "enqueue" \/ Mentioned(log, e), log' = Append(log, Event(k, e)),
           \A q \in Procs : /\ op'[q] = op[q]
                            /\ Busy(q)' => Status(log', entry'[q]) = "running"
    PROVE  ForwardInv'
<1> DEFINE line == Event(k, e)
<1>1. log \in Seq(Lines) /\ line \in Lines
  BY EventIsLine DEF TypeInv, TypeOK
<1>2. \A i \in 1..Len(log') : log'[i] # Garbage
  <2>1. /\ Len(log') = Len(log) + 1 /\ log'[Len(log) + 1] = line
        /\ \A i \in 1..Len(log) : log'[i] = log[i]
        /\ Len(log) \in Nat
    BY <1>1, AppendedLine
  <2>2. line # Garbage
    BY DEF Event, Garbage
  <2>3. \A i \in 1..Len(log') : i = Len(log) + 1 \/ i \in 1..Len(log)
    BY <2>1
  <2> HIDE DEF line
  <2> QED BY <2>1, <2>2, <2>3 DEF ForwardInv
<1>3. ASSUME NEW f \in Entries, Mentioned(log', f) PROVE Has(log', "enqueue", f)
  <2>1. Mentioned(log, f) \/ f = e
    BY <1>1, <1>3, MentionedAfter
  <2>2. CASE Mentioned(log, f)
    BY <1>1, <2>2, HasAppend DEF ForwardInv
  <2>3. CASE f = e /\ k = "enqueue"
    BY <1>1, <2>3, HasAppend
  <2> QED BY <2>1, <2>2, <2>3
<1>4. \A q \in Procs : op'[q] = "run" => q \in Runners
  BY DEF ForwardInv
<1> QED BY <1>2, <1>3, <1>4 DEF ForwardInv

\* An add whose event is written enqueues its entry; one whose append failed changes nothing.
LEMMA AddForward ==
    ASSUME ~TornWrites, TypeInv, LockInv, OnceInv, ForwardInv, NEW p \in Procs, AddLocked(p)
    PROVE  ForwardInv' /\ Promised
<1>0. PICK e \in Entries : e = entry[p]
  BY DEF AddLocked, TypeInv, EntryInv
<1> DEFINE line == Event("enqueue", e)
<1>1. /\ Pending(p) /\ pc[p] = "locked" /\ UNCHANGED <<op, entry, orphans>>
      /\ pc' = [pc EXCEPT ![p] = "unlock"] /\ "enqueue" \in Kinds /\ log \in Seq(Lines)
  BY DEF AddLocked, Appends, Pending, TypeInv, TypeOK, EntryInv, Kinds
<1>2. \A q \in Procs : ~Busy(q) /\ ~Busy(q)'
  BY <1>1, InsideAlone DEF Busy, Inside, TypeInv, TypeOK
<1>3. Active = {} /\ Active' = Active
  BY <1>1, <1>2, InsideIdle, ActiveKept
<1>4. log' = log \/ log' = Append(log, line)
  BY <1>0, AppendOutcome DEF AddLocked, Appends, OnceInv
<1>5. CASE log' = log
  <2>1. ForwardInv'
    BY <1>1, <1>2, <1>5, ForwardKept
  <2> QED BY <1>3, <1>5, <2>1, QuietStep
<1>6. CASE log' = Append(log, line)
  <2>1. ~Mentioned(log, e)
    BY <1>0, <1>1 DEF OnceInv, PendingInv, ForwardInv
  <2>2. ForwardInv'
    BY <1>1, <1>2, <1>6, LogForward
  <2>3. Status(log, e) = "unknown" /\ Stat(log') = [Stat(log) EXCEPT ![e] = "queued"]
    BY <1>1, <1>6, <2>1, StatusNew, StatAfter
  <2>4. RankOf(log') = [RankOf(log) EXCEPT ![e] = {f \in Entries : Stat(log)[f] # "unknown"}]
    <3>1. \A f \in Entries : Mentioned(log, f) <=> Stat(log)[f] # "unknown"
      BY KnownMentioned, MentionedKnown DEF Stat
    <3>2. Ahead(log', e) = {f \in Entries : Stat(log)[f] # "unknown"}
      BY <1>1, <1>6, <2>1, <3>1, AheadNew
    <3>3. \A f \in Entries : f # e => Ahead(log', f) = Ahead(log, f)
      BY <1>1, <1>6, AheadKept
    <3> QED BY <3>2, <3>3 DEF RankOf
  <2>5. Contract!Enqueue(e)
    BY <1>1, <1>3, <2>3, <2>4 DEF Contract!Enqueue, Stat, RankOf, Ahead
  <2> QED BY <1>1, <2>2, <2>5 DEF Promised, Contract!Next
<1> QED BY <1>4, <1>5, <1>6

\* A cancel hits a known entry whose round is not under way.
LEMMA CancelForward ==
    ASSUME ~TornWrites, TypeInv, LockInv, OnceInv, ForwardInv, NEW p \in Procs, CancelLocked(p)
    PROVE  ForwardInv' /\ Promised
<1>0. PICK e \in Entries : e = entry[p]
  BY DEF CancelLocked, TypeInv, EntryInv
<1> DEFINE line == Event("cancel", e)
<1>1. /\ Status(log, e) # "unknown" /\ Mentioned(log, e)
      /\ pc[p] = "locked" /\ UNCHANGED <<op, entry, orphans>>
      /\ pc' = [pc EXCEPT ![p] = "unlock"] /\ "cancel" \in Kinds /\ log \in Seq(Lines)
  BY <1>0, AlwaysReadable, KnownMentioned DEF CancelLocked, Appends, TypeInv, TypeOK, Kinds
<1>2. \A q \in Procs : ~Busy(q) /\ ~Busy(q)'
  BY <1>1, InsideAlone DEF Busy, Inside, TypeInv, TypeOK
<1>3. Active = {} /\ Active' = Active
  BY <1>1, <1>2, InsideIdle, ActiveKept
<1>4. log' = log \/ log' = Append(log, line)
  BY <1>0, AppendOutcome DEF CancelLocked, Appends, OnceInv
<1>5. CASE log' = log
  <2>1. ForwardInv'
    BY <1>1, <1>2, <1>5, ForwardKept
  <2> QED BY <1>3, <1>5, <2>1, QuietStep
<1>6. CASE log' = Append(log, line)
  <2>1. ForwardInv'
    BY <1>1, <1>2, <1>6, LogForward
  <2>2. Stat(log') = [Stat(log) EXCEPT ![e] = "canceled"] /\ RankOf(log') = RankOf(log)
    BY <1>1, <1>6, StatAfter, StatusCancel, OrderAfter
  <2>3. Contract!Cancel(e)
    BY <1>1, <1>3, <2>2 DEF Contract!Cancel, Stat, RankOf, Ahead
  <2> QED BY <2>1, <2>3 DEF Promised, Contract!Next
<1> QED BY <1>4, <1>5, <1>6

\* The oldest queued entry is started, while nothing else executes.
LEMMA SelectForward ==
    ASSUME ~TornWrites, TypeInv, LockInv, OnceInv, ForwardInv, NEW p \in Procs,
           NEW e \in Entries, RunSelect(p, e)
    PROVE  ForwardInv' /\ Promised
<1> DEFINE line == Event("start", e)
<1>1. /\ Status(log, e) = "queued" /\ Mentioned(log, e)
      /\ p \in Runners /\ pc[p] = "locked" /\ UNCHANGED <<op, orphans>>
      /\ entry' = [entry EXCEPT ![p] = e] /\ "start" \in Kinds /\ log \in Seq(Lines)
  BY KnownMentioned DEF RunSelect, Selected, ForwardInv, TypeInv, TypeOK, Kinds
<1>2. orphans = {} /\ \A q \in Procs : ~Busy(q)
  BY <1>1, InsideAlone DEF Busy, Inside
<1>3. Active = {}
  BY <1>1, InsideIdle
<1>4. \/ log' = log /\ pc' = [pc EXCEPT ![p] = "unlock"]
      \/ log' = Append(log, line) /\ pc' = [pc EXCEPT ![p] = "started"]
  BY AppendOutcome DEF RunSelect, Append1, AppendFails, OnceInv
<1>5. CASE log' = log /\ pc' = [pc EXCEPT ![p] = "unlock"]
  <2>1. \A q \in Procs : ~Busy(q)'
    BY <1>2, <1>5 DEF Busy, TypeInv, TypeOK
  <2>2. ForwardInv' /\ Active' = Active
    BY <1>1, <1>2, <1>5, <2>1, ForwardKept, ActiveKept
  <2> QED BY <1>5, <2>2, QuietStep
<1>6. CASE log' = Append(log, line) /\ pc' = [pc EXCEPT ![p] = "started"]
  <2>1. Busy(p)' /\ entry'[p] = e /\ \A q \in Procs : Busy(q)' => q = p
    BY <1>1, <1>2, <1>6 DEF Busy, TypeInv, TypeOK
  <2>2. Status(log', e) = "running"
    BY <1>1, <1>6, StatusStart
  <2>3. ForwardInv'
    BY <1>1, <1>6, <2>1, <2>2, LogForward
  <2>4. Active' = {e}
    <3>1. Active' = {entry'[q] : q \in {r \in Runners : Busy(r)'}} \cup orphans'
      BY DEF Active, Busy
    <3>2. {r \in Runners : Busy(r)'} = {p}
      BY <1>1, <2>1 DEF Procs
    <3> QED BY <1>1, <1>2, <2>1, <3>1, <3>2
  <2>5. Stat(log') = [Stat(log) EXCEPT ![e] = "running"] /\ RankOf(log') = RankOf(log)
    BY <1>1, <1>6, <2>2, StatAfter, OrderAfter
  <2>6. \A f \in Ahead(log, e) : Status(log, f) # "queued"
    BY <1>1, BeforeAsym DEF RunSelect, Selected, Ahead
  <2>7. Contract!Start(e)
    BY <1>1, <1>3, <2>4, <2>5, <2>6 DEF Contract!Start, Stat, RankOf, Ahead
  <2> QED BY <2>3, <2>7 DEF Promised, Contract!Next
<1> QED BY <1>4, <1>5, <1>6

\* A verdict settles the entry; one that cannot be written loses the round.
LEMMA RecordForward ==
    ASSUME ~TornWrites, TypeInv, LockInv, OnceInv, ForwardInv, NEW p \in Procs,
           NEW c \in ExitCodes, RunRecord(p, c)
    PROVE  ForwardInv' /\ Promised
<1>0. PICK e \in Entries : e = entry[p]
  BY DEF RunRecord, TypeInv, EntryInv
<1>1. PICK k \in {"finish", "fail"} : Appends(p, Event(k, e), c)
  BY <1>0 DEF RunRecord
<1> DEFINE line == Event(k, e)
<1>2. /\ Busy(p) /\ Status(log, e) = "running" /\ Mentioned(log, e)
      /\ UNCHANGED <<op, entry, orphans>>
      /\ pc' = [pc EXCEPT ![p] = "unlock"] /\ k \in Kinds /\ log \in Seq(Lines)
  BY <1>0, <1>1, KnownMentioned DEF RunRecord, Appends, Busy, ForwardInv, TypeInv, TypeOK, Kinds
<1>3. orphans = {} /\ \A q \in Procs : ~Busy(q)'
  <2>1. orphans = {} /\ \A q \in Procs : Busy(q) => q = p
    BY <1>2, InsideAlone DEF Busy, Inside
  <2> QED BY <1>2, <2>1 DEF Busy, TypeInv, TypeOK
<1>4. Active = {e} /\ Active' = {}
  <2>1. Active' = {}
    BY <1>2, <1>3 DEF Active, Busy, Procs
  <2> QED BY <1>0, <1>2, <2>1, BusyActive
<1>5. log' = log \/ log' = Append(log, line)
  BY <1>1, AppendOutcome DEF Appends, OnceInv
<1>6. CASE log' = log
  <2>1. ForwardInv'
    BY <1>2, <1>3, <1>6, ForwardKept
  <2> QED BY <1>4, <1>6, <2>1, LoseStep
<1>7. CASE log' = Append(log, line)
  <2>1. ForwardInv'
    BY <1>2, <1>3, <1>7, LogForward
  <2>2. \E v \in {"done", "failed"} : Stat(log') = [Stat(log) EXCEPT ![e] = v]
    BY <1>2, <1>7, StatAfter, StatusSettle
  <2>3. RankOf(log') = RankOf(log)
    BY <1>2, <1>7, OrderAfter
  <2>4. Contract!Settle(e)
    BY <1>2, <1>4, <2>2, <2>3 DEF Contract!Settle, Stat, RankOf, Ahead
  <2> QED BY <2>1, <2>4 DEF Promised, Contract!Next
<1> QED BY <1>5, <1>6, <1>7
-----------------------------------------------------------------------------
(* Steps that append nothing. *)

\* A step of somebody who is not busy, before or after, is none of the contract's.
LEMMA IdleForward ==
    ASSUME ForwardInv, UNCHANGED <<log, orphans>>,
           \A q \in Procs : /\ op'[q] = "run" => op[q] = "run" \/ q \in Runners
                            /\ Busy(q)' <=> Busy(q)
                            /\ Busy(q) => entry'[q] = entry[q]
    PROVE  ForwardInv' /\ Promised
<1>1. ForwardInv'
  BY ForwardKept
<1>2. Active' = Active
  BY ActiveKept
<1> QED BY <1>1, <1>2, QuietStep

\* A new invocation only waits.
LEMMA InvokeForward == ASSUME TypeInv, ForwardInv, Invoke PROVE ForwardInv' /\ Promised
<1>1. PICK p, o, e :
          /\ p \in Procs
          /\ pc[p] = "idle" /\ pc' = [pc EXCEPT ![p] = "wait"]
          /\ op' = [op EXCEPT ![p] = o] /\ entry' = [entry EXCEPT ![p] = e]
          /\ o = "run" => p \in Runners
          /\ UNCHANGED <<log, orphans>>
  BY DEF Invoke, BeginAdd, BeginCancel, BeginRun, Procs, fileVars
<1>2. /\ pc'[p] = "wait" /\ op'[p] = o
      /\ \A q \in Procs \ {p} : pc'[q] = pc[q] /\ op'[q] = op[q] /\ entry'[q] = entry[q]
  BY <1>1 DEF TypeInv, TypeOK
<1>3. \A q \in Procs : (Busy(q)' <=> Busy(q)) /\ (Busy(q) => entry'[q] = entry[q])
  BY <1>1, <1>2 DEF Busy
<1>4. \A q \in Procs : op'[q] = "run" => op[q] = "run" \/ q \in Runners
  BY <1>1, <1>2
<1> QED BY <1>1, <1>3, <1>4, IdleForward

\* Taking the lock, giving it up and giving up on it execute nothing.
LEMMA LockStepForward ==
    ASSUME TypeInv, ForwardInv, NEW p \in Procs, LockStep(p)
    PROVE  ForwardInv' /\ Promised
<1>1. UNCHANGED <<log, orphans, op, entry>>
  BY DEF LockStep, Acquire, Timeout, Release, fileVars
<1>2. \E l \in {"idle", "wait", "locked"} : pc' = [pc EXCEPT ![p] = l]
  <2>1. CASE Acquire(p)
    BY <2>1 DEF Acquire
  <2>2. CASE Timeout(p)
    BY <2>2, ReturnsTypes DEF Timeout, TypeInv
  <2>3. CASE Release(p)
    <3>1. rc[p] \in Nat
      BY DEF TypeInv, TypeOK
    <3> QED BY <2>3, <3>1, ReturnsTypes DEF Release, TypeInv
  <2> QED BY <2>1, <2>2, <2>3 DEF LockStep
<1>3. ~Busy(p)
  BY DEF LockStep, Acquire, Timeout, Release, Busy
<1>4. \A q \in Procs : Busy(q)' <=> Busy(q)
  BY <1>2, <1>3 DEF Busy, TypeInv, TypeOK
<1> QED BY <1>1, <1>4, IdleForward

\* A cancel that is refused, an empty queue and the fork of the child leave
\* the log alone; the child belongs to the round that is under way already.
LEMMA SectionForward ==
    ASSUME TypeInv, ForwardInv, NEW p \in Procs, CancelUnknown(p) \/ RunNothing(p) \/ Spawn(p)
    PROVE  ForwardInv' /\ Promised
<1>1. UNCHANGED <<log, orphans, op>>
  BY DEF CancelUnknown, RunNothing, Spawn, fileVars
<1>2. \A q \in Procs : (Busy(q)' <=> Busy(q)) /\ (Busy(q) => entry'[q] = entry[q])
  BY DEF CancelUnknown, RunNothing, Spawn, Busy, TypeInv, TypeOK
<1> QED BY <1>1, <1>2, IdleForward

\* Killing a busy runner and its child loses the round, killing anybody else does not matter.
LEMMA KillForward ==
    ASSUME TypeInv, LockInv, ForwardInv, NEW p \in Procs, Kill(p)
    PROVE  ForwardInv' /\ Promised
<1>1. /\ UNCHANGED <<log, orphans>>
      /\ pc' = [pc EXCEPT ![p] = "idle"] /\ op' = [op EXCEPT ![p] = "none"]
      /\ entry' = [entry EXCEPT ![p] = NoEntry]
  BY DEF Kill
<1>2. /\ pc'[p] = "idle" /\ op'[p] = "none"
      /\ \A q \in Procs \ {p} : pc'[q] = pc[q] /\ op'[q] = op[q] /\ entry'[q] = entry[q]
  BY <1>1 DEF TypeInv, TypeOK
<1>3. ~Busy(p)' /\ \A q \in Procs \ {p} : Busy(q)' <=> Busy(q)
  BY <1>2 DEF Busy
<1>4. CASE ~Busy(p)
  BY <1>1, <1>2, <1>3, <1>4, IdleForward
<1>5. CASE Busy(p)
  <2>1. ForwardInv'
    BY <1>1, <1>2, <1>3, ForwardKept
  <2>2. PICK e \in Entries : Active = {e}
    BY <1>5, BusyActive
  <2>3. orphans = {} /\ \A q \in Procs : ~Busy(q)'
    BY <1>3, <1>5, InsideAlone DEF Busy, Inside
  <2>4. Active' = {}
    BY <1>1, <2>3 DEF Active, Busy, Procs
  <2> QED BY <1>1, <2>1, <2>2, <2>4, LoseStep
<1> QED BY <1>4, <1>5

\* A round that outlives its subshell is still the round under way.
LEMMA KillSubshellForward ==
    ASSUME TypeInv, LockInv, ForwardInv, NEW p \in Procs, KillSubshell(p)
    PROVE  ForwardInv' /\ Promised
<1>1. /\ Busy(p) /\ UNCHANGED <<log, op, entry>> /\ orphans' = orphans \cup {entry[p]}
      /\ pc' = [pc EXCEPT ![p] = "idle"] \/ pc' = [pc EXCEPT ![p] = "wait"]
  BY ReturnsTypes DEF KillSubshell, Busy, TypeInv, fileVars
<1>2. orphans = {} /\ \A q \in Procs : ~Busy(q)'
  <2>1. orphans = {} /\ \A q \in Procs : Busy(q) => q = p
    BY <1>1, InsideAlone DEF Busy, Inside
  <2> QED BY <1>1, <2>1 DEF Busy, TypeInv, TypeOK
<1>3. ForwardInv'
  BY <1>1, <1>2, ForwardKept
<1>4. Active' = {entry[p]}
  BY <1>1, <1>2 DEF Active, Busy, Procs
<1>5. Active = {entry[p]}
  BY <1>1, BusyActive
<1> QED BY <1>1, <1>3, <1>4, <1>5, QuietStep

\* The orphan was the only round under way, and it ends without a verdict.
LEMMA OrphanExitForward ==
    ASSUME TypeInv, LockInv, ForwardInv, NEW e \in Entries, OrphanExit(e)
    PROVE  ForwardInv' /\ Promised
<1>1. /\ e \in orphans /\ orphans = {e} /\ orphans' = {}
      /\ UNCHANGED <<log, pc, op, entry>>
  BY DEF OrphanExit, LockInv, fileVars, procVars
<1>2. \A q \in Procs : ~Busy(q)
  BY <1>1, InsideAlone DEF Busy, Inside
<1>3. \A q \in Procs : ~Busy(q)'
  BY <1>1, <1>2 DEF Busy
<1>4. ForwardInv'
  BY <1>1, <1>3, ForwardKept
<1>5. Active = {e}
  BY <1>1, <1>2 DEF Active, Busy, Procs
<1>6. Active' = {}
  BY <1>1, <1>3 DEF Active, Busy, Procs
<1> QED BY <1>1, <1>4, <1>5, <1>6, LoseStep
-----------------------------------------------------------------------------
(* The queue keeps its promise. *)

\* An empty log with nobody at work is the contract's initial state.
LEMMA InitForward == Init => ForwardInv /\ Contract!Init
<1> SUFFICES ASSUME Init PROVE ForwardInv /\ Contract!Init
  OBVIOUS
<1>1. log = <<>> /\ Len(log) = 0 /\ log \in Seq(Lines)
  BY DEF Init
<1>2. \A e : ~Mentioned(log, e)
  BY <1>1 DEF Mentioned
<1>3. ForwardInv
  BY <1>1, <1>2 DEF Init, ForwardInv, Busy
<1>4. \A e \in Entries : Status(log, e) = "unknown"
  BY <1>1, <1>2, StatusNew
<1>5. Active = {}
  BY DEF Init, Active, Procs
<1>6. Contract!Init
  BY <1>2, <1>4, <1>5 DEF Contract!Init
<1> QED BY <1>3, <1>6

\* Every step of the queue is a step of the contract, or none, and keeps what it relies on.
LEMMA StepForward ==
    ASSUME ~TornWrites, TypeInv, LockInv, OnceInv, ForwardInv, [Next]_vars
    PROVE  ForwardInv' /\ Promised
<1>1. CASE Invoke
  BY <1>1, InvokeForward
<1>2. ASSUME NEW p \in Procs, LockStep(p) PROVE ForwardInv' /\ Promised
  BY <1>2, LockStepForward
<1>3. ASSUME NEW p \in Procs, ClientStep(p) PROVE ForwardInv' /\ Promised
  BY <1>3, AddForward, CancelForward, SectionForward DEF ClientStep
<1>4. ASSUME NEW p \in Procs, RunnerStep(p) PROVE ForwardInv' /\ Promised
  BY <1>4, SelectForward, RecordForward, SectionForward DEF RunnerStep
<1>5. ASSUME NEW p \in Procs, Kill(p) \/ KillSubshell(p) PROVE ForwardInv' /\ Promised
  BY <1>5, KillForward, KillSubshellForward
<1>6. ASSUME NEW e \in Entries, OrphanExit(e) PROVE ForwardInv' /\ Promised
  BY <1>6, OrphanExitForward
<1>7. CASE UNCHANGED vars
  BY <1>7, IdleForward DEF vars, Busy
<1> QED BY <1>1, <1>2, <1>3, <1>4, <1>5, <1>6, <1>7 DEF Next

\* Without torn writes the log is always readable, everything in it was
\* enqueued, and a round under way is that of a running entry.
THEOREM ForwardHolds == ASSUME ~TornWrites PROVE Spec => []ForwardInv
<1>1. TypeInv /\ LockInv /\ OnceInv /\ ForwardInv /\ [Next]_vars => ForwardInv'
  BY StepForward
<1>2. Init => ForwardInv
  BY InitForward
<1> QED BY <1>1, <1>2, TypesHold, LockHolds, OnceHolds, PTL DEF Spec

\* The queue as apr keeps it, many processes folding and appending to one file
\* under a lock that is held across a round, implements the queue that its
\* users are promised: entries only move forward, start in their order and one
\* at a time, a cancel wins and never hits a round that is under way.
THEOREM QueueImplementsContract == ASSUME ~TornWrites PROVE Spec => ImplementsContract
<1>1. TypeInv /\ LockInv /\ OnceInv /\ ForwardInv /\ [Next]_vars =>
          [Contract!Next]_(Contract!vars)
  BY StepForward DEF Promised
<1>2. Init => Contract!Init
  BY InitForward
<1> QED BY <1>1, <1>2, TypesHold, LockHolds, OnceHolds, ForwardHolds, PTL
        DEF Spec, ImplementsContract, Contract!Spec

\* Only the step that forks starts a child, and its runner wrote the start
\* event that every reader still goes by.
THEOREM OnlyRunningSpawned == ASSUME ~TornWrites PROVE Spec => SpawnsOnlyRunning
<1>1. ASSUME TypeInv, ForwardInv, [Next]_vars, NEW e \in Entries, spawned'[e] > spawned[e]
      PROVE  Status(log, e) = "running"
  <2>1. UNCHANGED spawned \/ \E p \in Procs : Spawn(p)
    BY <1>1 DEF Next, vars, Invoke, BeginAdd, BeginCancel, BeginRun, LockStep, Acquire, Timeout,
                Release, ClientStep, AddLocked, CancelUnknown, CancelLocked, RunnerStep,
                RunNothing, RunSelect, RunRecord, Kill, KillSubshell, OrphanExit, ghostVars
  <2>2. spawned \in [Entries -> Nat]
    BY <1>1 DEF TypeInv, TypeOK
  <2>3. PICK p \in Procs : Spawn(p)
    BY <1>1, <2>1, <2>2
  <2>4. e = entry[p] /\ pc[p] = "started"
    BY <1>1, <2>2, <2>3 DEF Spawn
  <2> QED BY <1>1, <2>4 DEF ForwardInv, Busy
<1>2. TypeInv /\ ForwardInv /\ [Next]_vars =>
          [\A e \in Entries : spawned'[e] > spawned[e] => Status(log, e) = "running"]_vars
  BY <1>1
<1> QED BY <1>2, TypesHold, ForwardHolds, PTL DEF Spec, SpawnsOnlyRunning
-----------------------------------------------------------------------------
(* The readers of the code, against Status, Before and Selected. *)

\* A set of numbers that is not empty has a least one.
LEMMA Least ==
    ASSUME NEW T \in SUBSET Nat, T # {}
    PROVE  \E m \in T : \A k \in T : m <= k
<1>1. PICK m \in T : \A k \in T : <<k, m>> \notin OpToRel(<, Nat)
  BY NatLessThanWellFounded, WFMin
<1>2. \A k \in T : ~(k < m)
  BY <1>1, Zenon DEF OpToRel
<1> QED BY <1>2

\* Events have one kind and one entry, and are no garbage.
LEMMA LineCases ==
    ASSUME NEW line \in Lines
    PROVE  \/ line = Garbage
           \/ /\ line # Garbage /\ line.kind \in Kinds /\ line.entry \in Entries
              /\ line = Event(line.kind, line.entry)
<1>1. CASE line \in Events
  <2>1. line.kind \in Kinds /\ line.entry \in Entries /\ line = Event(line.kind, line.entry)
    BY <1>1 DEF Events, Event
  <2>2. line # Garbage
    BY <2>1 DEF Garbage, Event, Kinds
  <2> QED BY <2>1, <2>2
<1> QED BY <1>1 DEF Lines

\* A line that does not parse changes no status.
LEMMA StatusGarbage ==
    ASSUME NEW s \in Seq(Lines), NEW e \in Entries
    PROVE  Status(Append(s, Garbage), e) = Status(s, e)
<1> DEFINE t == Append(s, Garbage)
<1>1. Garbage \in Lines /\ \A k : Garbage # Event(k, e)
  BY DEF Lines, Garbage, Event
<1>2. \A l \in Kinds : Seen(t, l, e) <=> Seen(s, l, e)
  BY <1>1, SeenAfter
<1>3. \A l : Verdict(t, l, e) <=> Verdict(s, l, e)
  BY <1>1, VerdictAfter
<1>4. Has(t, "enqueue", e) <=> Has(s, "enqueue", e)
  BY <1>1, HasAppend
<1> HIDE DEF t
<1>5. Status(t, e) = Status(s, e)
  BY <1>2, <1>3, <1>4 DEF Status, Kinds
<1> QED BY <1>5 DEF t

\* An entry that is enqueued, for the first time or again, is queued.
LEMMA StatusEnqueue ==
    ASSUME NEW s \in Seq(Lines), NEW e \in Entries
    PROVE  Status(Append(s, Event("enqueue", e)), e) = "queued"
<1> DEFINE line == Event("enqueue", e)
           t == Append(s, line)
<1>1. line \in Lines /\ \A l : line = Event(l, e) <=> l = "enqueue"
  BY EventIsLine, EventsDiffer DEF Kinds
<1>2. /\ Len(t) = Len(s) + 1 /\ t[Len(s) + 1] = line
      /\ Len(s) \in Nat
  BY <1>1, AppendedLine
<1>3. Has(t, "enqueue", e)
  BY <1>1, HasAppend
<1> HIDE DEF t, line
<1>4. ASSUME NEW i \in 1..Len(t), \A j \in i+1..Len(t) : t[j] # line PROVE i = Len(s) + 1
  BY <1>2, <1>4
<1>5. \A l \in Kinds \ {"enqueue"} : ~Seen(t, l, e) /\ ~Verdict(t, l, e)
  <2> SUFFICES ASSUME NEW l \in Kinds \ {"enqueue"}
               PROVE  ~Seen(t, l, e) /\ ~Verdict(t, l, e)
    OBVIOUS
  <2>1. line # Event(l, e)
    BY <1>1
  <2>2. ~Seen(t, l, e)
    BY <1>2, <1>4, <2>1 DEF Seen, Counts, line
  <2>3. ~Verdict(t, l, e)
    BY <1>2, <1>4, <2>1 DEF Verdict, line
  <2> QED BY <2>2, <2>3
<1>6. Status(t, e) = "queued"
  BY <1>3, <1>5 DEF Status, Kinds
<1> QED BY <1>6 DEF t, line

\* What one more event of an entry does to its status is what the code does
\* with it.
LEMMA StatusApply ==
    ASSUME NEW s \in Seq(Lines), NEW e \in Entries, NEW k \in Kinds
    PROVE  Status(Append(s, Event(k, e)), e) = Apply(Status(s, e), k)
<1> DEFINE line == Event(k, e)
           t == Append(s, line)
<1>1. line \in Lines /\ \A l : line = Event(l, e) <=> l = k
  BY EventIsLine, EventsDiffer
<1>2. CASE k = "enqueue"
  BY <1>2, StatusEnqueue DEF Apply
<1>3. CASE k = "cancel"
  BY <1>3, StatusCancel DEF Apply
<1>4. CASE k = "start"
  <2>1. Seen(t, "cancel", e) <=> Seen(s, "cancel", e)
    BY <1>1, <1>4, SeenAfter DEF Kinds
  <2>2. Seen(t, "start", e)
    BY <1>1, <1>4, SeenLast DEF Kinds
  <2>3. \A l \in {"finish", "fail"} : Verdict(t, l, e) <=> Verdict(s, l, e)
    BY <1>1, <1>4, VerdictAfter
  <2> HIDE DEF t
  <2>4. Status(t, e) = Apply(Status(s, e), "start")
    BY <2>1, <2>2, <2>3 DEF Status, Apply, Terminal
  <2> QED BY <1>4, <2>4 DEF t
<1>5. CASE k \in {"finish", "fail"}
  <2>1. Seen(t, "cancel", e) <=> Seen(s, "cancel", e)
    BY <1>1, <1>5, SeenAfter DEF Kinds
  <2>2. \A l \in {"finish", "fail"} : Verdict(t, l, e) <=> k = l
    BY <1>5, VerdictLast
  <2> HIDE DEF t
  <2>3. Status(s, e) = "canceled" <=> Seen(s, "cancel", e)
    BY DEF Status
  <2>4. Status(t, e) = Apply(Status(s, e), k)
    BY <1>5, <2>1, <2>2, <2>3 DEF Status, Apply
  <2> QED BY <2>4 DEF t
<1> QED BY <1>2, <1>3, <1>4, <1>5 DEF Kinds

\* The log up to a line.
LEMMA Prefixes ==
    ASSUME NEW s \in Seq(Lines)
    PROVE  /\ SubSeq(s, 1, 0) = <<>> /\ SubSeq(s, 1, Len(s)) = s
           /\ \A i \in 0..Len(s) : SubSeq(s, 1, i) \in Seq(Lines)
           /\ \A i \in 1..Len(s) : /\ s[i] \in Lines /\ i - 1 \in 0..Len(s)
                                   /\ SubSeq(s, 1, i) = Append(SubSeq(s, 1, i - 1), s[i])
<1>1. Len(s) \in Nat /\ \A i \in 1..Len(s) : s[i] \in Lines /\ i - 1 \in 0..Len(s)
  OBVIOUS
<1>2. SubSeq(s, 1, 0) = <<>> /\ SubSeq(s, 1, Len(s)) = s
  BY <1>1
<1>3. \A i \in 0..Len(s) : SubSeq(s, 1, i) \in Seq(Lines) /\ Len(SubSeq(s, 1, i)) = i
                           /\ \A j \in 1..i : SubSeq(s, 1, i)[j] = s[j]
  BY <1>1
<1>4. ASSUME NEW i \in 1..Len(s) PROVE SubSeq(s, 1, i) = Append(SubSeq(s, 1, i - 1), s[i])
  <2> DEFINE p == SubSeq(s, 1, i)
             q == SubSeq(s, 1, i - 1)
             a == Append(q, s[i])
  <2>1. p \in Seq(Lines) /\ Len(p) = i /\ \A j \in 1..i : p[j] = s[j]
    BY <1>1, <1>3
  <2>2. q \in Seq(Lines) /\ Len(q) = i - 1 /\ \A j \in 1..(i - 1) : q[j] = s[j]
    BY <1>1, <1>3
  <2> HIDE DEF p, q
  <2>3. a \in Seq(Lines) /\ Len(a) = i /\ a[i] = s[i] /\ \A j \in 1..(i - 1) : a[j] = q[j]
    BY <1>1, <2>2, AppendedLine
  <2> HIDE DEF a
  <2>4. \A j \in 1..i : p[j] = a[j]
    BY <2>1, <2>2, <2>3
  <2>5. p = a
    BY <2>1, <2>3, <2>4
  <2> QED BY <2>5 DEF p, q, a
<1> QED BY <1>1, <1>2, <1>3, <1>4

\* The status of an entry, line by line.
LEMMA StatusStep ==
    ASSUME NEW s \in Seq(Lines), NEW e \in Entries, NEW i \in 1..Len(s)
    PROVE  Status(SubSeq(s, 1, i), e) =
             IF s[i] = Garbage THEN Status(SubSeq(s, 1, i - 1), e)
             ELSE IF s[i].entry # e THEN Status(SubSeq(s, 1, i - 1), e)
             ELSE Apply(Status(SubSeq(s, 1, i - 1), e), s[i].kind)
<1> DEFINE q == SubSeq(s, 1, i - 1)
           line == s[i]
<1>1. q \in Seq(Lines) /\ line \in Lines /\ SubSeq(s, 1, i) = Append(q, line)
  BY Prefixes
<1> HIDE DEF q, line
<1>2. CASE line = Garbage
  BY <1>1, <1>2, StatusGarbage DEF line, q
<1>3. CASE line # Garbage
  <2>1. line.kind \in Kinds /\ line.entry \in Entries /\ line = Event(line.kind, line.entry)
    BY <1>1, <1>3, LineCases
  <2>2. CASE line.entry # e
    <3>1. Status(Append(q, Event(line.kind, line.entry)), e) = Status(q, e)
      BY <1>1, <2>1, <2>2, StatusOther
    <3> QED BY <1>1, <1>3, <2>1, <2>2, <3>1 DEF line, q
  <2>3. CASE line.entry = e
    <3>1. Status(Append(q, Event(line.kind, e)), e) = Apply(Status(q, e), line.kind)
      BY <1>1, <2>1, StatusApply
    <3> QED BY <1>1, <1>3, <2>1, <2>3, <3>1 DEF line, q
  <2> QED BY <2>2, <2>3
<1> QED BY <1>2, <1>3

\* Nobody has a status in an empty log.
LEMMA StatusEmpty == \A e : Status(<<>>, e) = "unknown"
<1>1. Len(<<>>) = 0 /\ \A i : i \notin 1..0
  OBVIOUS
<1> QED BY <1>1 DEF Status, Seen, Verdict, Has, Counts

\* The fold of apr_lib_queue_derive computes Status, on every log.
THEOREM FoldIsStatus ==
    ASSUME NEW s \in Seq(Lines), NEW e \in Entries
    PROVE  Fold(s, e) = Status(s, e)
<1> DEFINE n == Len(s)
           stat(i) == Status(SubSeq(s, 1, i), e)
           next(f, i) == IF i = 0 THEN "unknown"
                         ELSE IF s[i] = Garbage THEN f[i - 1]
                         ELSE IF s[i].entry # e THEN f[i - 1]
                         ELSE Apply(f[i - 1], s[i].kind)
           Folds(f) == f = [i \in 0..n |-> next(f, i)]
           after == CHOOSE f : Folds(f)
           g == [i \in 0..n |-> stat(i)]
<1>1. n \in Nat /\ stat(0) = "unknown" /\ stat(n) = Status(s, e)
  <2>1. SubSeq(s, 1, 0) = <<>> /\ SubSeq(s, 1, n) = s
    BY Prefixes
  <2>2. stat(0) = Status(<<>>, e) /\ stat(n) = Status(s, e)
    BY <2>1, Zenon
  <2> QED BY <2>2, StatusEmpty
<1>2. \A i \in 1..n : stat(i) = IF s[i] = Garbage THEN stat(i - 1)
                                ELSE IF s[i].entry # e THEN stat(i - 1)
                                ELSE Apply(stat(i - 1), s[i].kind)
  BY StatusStep
<1> HIDE DEF stat, n
<1>3. Folds(g)
  <2>1. \A i \in 0..n : stat(i) = next(g, i)
    BY <1>1, <1>2
  <2> QED BY <2>1
<1> HIDE DEF Folds
<1>4. Folds(after)
  BY <1>3
<1>5. Fold(s, e) = after[n]
  BY DEF Fold, Folds, n
<1> HIDE DEF after
<1>6. \A i \in 0..n : after[i] = stat(i)
  <2> DEFINE T == {i \in 0..n : after[i] # stat(i)}
  <2> SUFFICES ASSUME T # {} PROVE FALSE
    OBVIOUS
  <2>1. T \in SUBSET Nat
    BY <1>1
  <2>2. PICK m \in T : \A k \in T : m <= k
    <3> HIDE DEF T
    <3> QED BY <2>1, Least
  <2>3. after[m] = next(after, m)
    BY <1>4, <2>2 DEF Folds
  <2>4. CASE m = 0
    BY <1>1, <2>2, <2>3, <2>4
  <2>5. CASE m # 0
    <3>1. m \in 1..n /\ m - 1 \in 0..n /\ ~(m <= m - 1)
      BY <1>1, <2>2, <2>5
    <3>2. after[m - 1] = stat(m - 1)
      BY <2>2, <3>1
    <3> QED BY <1>2, <2>2, <2>3, <2>5, <3>1, <3>2
  <2> QED BY <2>4, <2>5
<1> QED BY <1>1, <1>5, <1>6

\* So does its fallback in bash, on every log without garbage.
LEMMA FallbackIsStatus ==
    ASSUME NEW s \in Seq(Lines), NEW e \in Entries, \A i \in 1..Len(s) : s[i] # Garbage
    PROVE  Fallback(s, e) = Status(s, e)
<1> DEFINE n == Len(s)
           stat(i) == Status(SubSeq(s, 1, i), e)
           next(f, i) == IF i = 0 THEN "unknown"
                         ELSE IF s[i].entry = e THEN FallbackStep(f[i - 1], s[i].kind)
                         ELSE f[i - 1]
           Folds(f) == f = [i \in 0..n |-> next(f, i)]
           after == CHOOSE f : Folds(f)
           g == [i \in 0..n |-> stat(i)]
<1>1. n \in Nat /\ stat(0) = "unknown" /\ stat(n) = Status(s, e)
  <2>1. SubSeq(s, 1, 0) = <<>> /\ SubSeq(s, 1, n) = s
    BY Prefixes
  <2>2. stat(0) = Status(<<>>, e) /\ stat(n) = Status(s, e)
    BY <2>1, Zenon
  <2> QED BY <2>2, StatusEmpty
<1>2. \A i \in 1..n : stat(i) = IF s[i].entry = e THEN FallbackStep(stat(i - 1), s[i].kind)
                                ELSE stat(i - 1)
  <2> TAKE i \in 1..n
  <2>1. stat(i) = IF s[i] = Garbage THEN stat(i - 1)
                  ELSE IF s[i].entry # e THEN stat(i - 1)
                  ELSE Apply(stat(i - 1), s[i].kind)
    BY StatusStep
  <2>2. s[i] # Garbage /\ s[i].kind \in Kinds
    BY LineCases
  <2>3. \A v : Apply(v, s[i].kind) = FallbackStep(v, s[i].kind)
    BY <2>2 DEF Apply, FallbackStep, Kinds, Terminal
  <2> HIDE DEF stat, n
  <2> QED BY <2>1, <2>2, <2>3
<1> HIDE DEF stat, n
<1>3. Folds(g)
  <2>1. \A i \in 0..n : stat(i) = next(g, i)
    BY <1>1, <1>2
  <2> QED BY <2>1
<1> HIDE DEF Folds
<1>4. Folds(after)
  BY <1>3
<1>5. Fallback(s, e) = after[n]
  BY DEF Fallback, Folds, n
<1> HIDE DEF after
<1>6. \A i \in 0..n : after[i] = stat(i)
  <2> DEFINE T == {i \in 0..n : after[i] # stat(i)}
  <2> SUFFICES ASSUME T # {} PROVE FALSE
    OBVIOUS
  <2>1. T \in SUBSET Nat
    BY <1>1
  <2>2. PICK m \in T : \A k \in T : m <= k
    <3> HIDE DEF T
    <3> QED BY <2>1, Least
  <2>3. after[m] = next(after, m)
    BY <1>4, <2>2 DEF Folds
  <2>4. CASE m = 0
    BY <1>1, <2>2, <2>3, <2>4
  <2>5. CASE m # 0
    <3>1. m \in 1..n /\ m - 1 \in 0..n /\ ~(m <= m - 1)
      BY <1>1, <2>2, <2>5
    <3>2. after[m - 1] = stat(m - 1)
      BY <2>2, <3>1
    <3> QED BY <1>2, <2>2, <2>3, <2>5, <3>1, <3>2
  <2> QED BY <2>4, <2>5
<1> QED BY <1>1, <1>5, <1>6

\* by_id of status_summary and of apr_queue_state_json is the same status, of
\* all entries at once.
LEMMA ByIdIsStatus ==
    ASSUME NEW s \in Seq(Lines), NEW e \in Entries
    PROVE  ById(s)[e] = Status(s, e)
<1> DEFINE n == Len(s)
           stat(i) == [d \in Entries |-> Status(SubSeq(s, 1, i), d)]
           next(f, i) == IF i = 0 THEN [d \in Entries |-> "unknown"]
                         ELSE IF s[i] = Garbage THEN f[i - 1]
                         ELSE [f[i - 1] EXCEPT ![s[i].entry] = SummaryStep(@, s[i].kind)]
           Folds(f) == f = [i \in 0..n |-> next(f, i)]
           by_id == CHOOSE f : Folds(f)
           g == [i \in 0..n |-> stat(i)]
<1>1. n \in Nat /\ stat(0) = [d \in Entries |-> "unknown"] /\ stat(n)[e] = Status(s, e)
  <2>1. SubSeq(s, 1, 0) = <<>> /\ SubSeq(s, 1, n) = s
    BY Prefixes
  <2>2. \A d \in Entries : stat(0)[d] = Status(<<>>, d)
    BY <2>1, Zenon
  <2>3. stat(n)[e] = Status(s, e)
    BY <2>1, Zenon
  <2>4. \A d \in Entries : stat(0)[d] = "unknown"
    BY <2>2, StatusEmpty
  <2> QED BY <2>3, <2>4
<1>2. \A i \in 1..n : stat(i) = IF s[i] = Garbage THEN stat(i - 1)
                                ELSE [stat(i - 1) EXCEPT ![s[i].entry] = SummaryStep(@, s[i].kind)]
  <2> SUFFICES ASSUME NEW i \in 1..n
               PROVE  stat(i) = IF s[i] = Garbage THEN stat(i - 1)
                                ELSE [stat(i - 1) EXCEPT ![s[i].entry] = SummaryStep(@, s[i].kind)]
    OBVIOUS
  <2> DEFINE now(d) == Status(SubSeq(s, 1, i), d)
             was(d) == Status(SubSeq(s, 1, i - 1), d)
  <2>1. \A d \in Entries : now(d) = IF s[i] = Garbage THEN was(d)
                                    ELSE IF s[i].entry # d THEN was(d)
                                    ELSE Apply(was(d), s[i].kind)
    BY StatusStep
  <2>2. s[i] = Garbage \/ (s[i].kind \in Kinds /\ s[i].entry \in Entries)
    BY LineCases, Prefixes
  <2>3. stat(i) = [d \in Entries |-> now(d)] /\ stat(i - 1) = [d \in Entries |-> was(d)]
    OBVIOUS
  <2>4. \A v : \A k \in Kinds : SummaryStep(v, k) = Apply(v, k)
    BY DEF SummaryStep, Apply, Kinds, Terminal
  <2> HIDE DEF now, was, stat
  <2>5. CASE s[i] = Garbage
    BY <2>1, <2>3, <2>5
  <2>6. CASE s[i] # Garbage
    <3> DEFINE f == [stat(i - 1) EXCEPT ![s[i].entry] = SummaryStep(@, s[i].kind)]
    <3>1. f = [d \in Entries |-> IF d = s[i].entry THEN SummaryStep(was(d), s[i].kind) ELSE was(d)]
      BY <2>2, <2>3, <2>6
    <3>2. \A d \in Entries : now(d) = IF d = s[i].entry THEN SummaryStep(was(d), s[i].kind) ELSE was(d)
      BY <2>1, <2>2, <2>4, <2>6
    <3> HIDE DEF f
    <3>3. stat(i) = f
      BY <2>3, <3>1, <3>2
    <3> QED BY <2>6, <3>3 DEF f
  <2> QED BY <2>5, <2>6
<1> HIDE DEF stat, n
<1>3. Folds(g)
  <2>1. \A i \in 0..n : stat(i) = next(g, i)
    <3> SUFFICES ASSUME NEW i \in 0..n PROVE stat(i) = next(g, i)
      OBVIOUS
    <3>1. CASE i = 0
      BY <1>1, <3>1
    <3>2. CASE i # 0
      <4>1. i \in 1..n /\ i - 1 \in 0..n /\ g[i - 1] = stat(i - 1)
        BY <1>1, <3>2
      <4> QED BY <1>2, <3>2, <4>1
    <3> QED BY <3>1, <3>2
  <2> QED BY <2>1
<1> HIDE DEF Folds
<1>4. Folds(by_id)
  BY <1>3
<1>5. ById(s) = by_id[n]
  BY DEF ById, Folds, n
<1> HIDE DEF by_id
<1>6. \A i \in 0..n : by_id[i] = stat(i)
  <2> DEFINE T == {i \in 0..n : by_id[i] # stat(i)}
  <2> SUFFICES ASSUME T # {} PROVE FALSE
    OBVIOUS
  <2>1. T \in SUBSET Nat
    BY <1>1
  <2>2. PICK m \in T : \A k \in T : m <= k
    <3> HIDE DEF T
    <3> QED BY <2>1, Least
  <2>3. by_id[m] = next(by_id, m)
    <3>1. by_id = [i \in 0..n |-> next(by_id, i)] /\ m \in 0..n
      BY <1>4, <2>2 DEF Folds
    <3> HIDE DEF next
    <3> QED BY <3>1
  <2>4. CASE m = 0
    BY <1>1, <2>2, <2>3, <2>4
  <2>5. CASE m # 0
    <3>1. m \in 1..n /\ m - 1 \in 0..n /\ ~(m <= m - 1)
      BY <1>1, <2>2, <2>5
    <3>2. by_id[m - 1] = stat(m - 1)
      BY <2>2, <3>1
    <3> QED BY <1>2, <2>2, <2>3, <2>5, <3>1, <3>2
  <2> QED BY <2>4, <2>5
<1> QED BY <1>1, <1>5, <1>6
-----------------------------------------------------------------------------
(* The order of next_queued, and what it selects. *)

\* A line that does not parse mentions nobody.
LEMMA MentionedGarbage ==
    ASSUME NEW s \in Seq(Lines), NEW e \in Entries
    PROVE  Mentioned(Append(s, Garbage), e) <=> Mentioned(s, e)
<1> DEFINE t == Append(s, Garbage)
           about == {Event(k, e) : k \in Kinds}
<1>1. Garbage \in Lines /\ Garbage \notin about
  BY DEF Lines, Garbage, Event
<1>2. /\ Len(t) = Len(s) + 1 /\ t[Len(s) + 1] = Garbage
      /\ \A i \in 1..Len(s) : t[i] = s[i]
      /\ Len(s) \in Nat
  BY <1>1, AppendedLine
<1> HIDE DEF t, about
<1>3. (\E i \in 1..Len(t) : t[i] \in about) <=> \E i \in 1..Len(s) : s[i] \in about
  <2>1. \A i \in 1..Len(t) : i = Len(s) + 1 \/ i \in 1..Len(s)
    BY <1>2
  <2>2. \A i \in 1..Len(s) : i \in 1..Len(t)
    BY <1>2
  <2> QED BY <1>1, <1>2, <2>1, <2>2
<1> QED BY <1>3 DEF t, about, Mentioned

\* Whoever is mentioned is ahead of one that is mentioned now.
LEMMA BeforeNew ==
    ASSUME NEW s \in Seq(Lines), NEW line \in Lines, NEW e \in Entries, NEW g \in Entries,
           Mentioned(s, g), ~Mentioned(s, e)
    PROVE  Before(Append(s, line), g, e)
<1> DEFINE t == Append(s, line)
           at(f) == {Event(l, f) : l \in Kinds}
<1>1. /\ Len(t) = Len(s) + 1 /\ Len(s) \in Nat
      /\ \A i \in 1..Len(s) : t[i] = s[i]
  BY AppendedLine
<1>2. \A n \in 1..Len(s) : s[n] \notin at(e)
  BY DEF Mentioned
<1>3. PICK i \in 1..Len(s) : s[i] \in at(g)
  BY DEF Mentioned
<1> HIDE DEF t, at
<1>4. i \in 1..Len(t) /\ t[i] \in at(g)
  BY <1>1, <1>3
<1>5. \A j \in 1..i : t[j] \notin at(e)
  <2> TAKE j \in 1..i
  <2>1. j \in 1..Len(s) /\ t[j] = s[j]
    BY <1>1, <1>3
  <2> QED BY <1>2, <2>1
<1> QED BY <1>4, <1>5 DEF Before, at, t

\* q names the entries of the log s, in the order of their first mention.
Ranked(q, s) ==
    /\ q \in Seq(Entries)
    /\ \A e \in Entries : Mentioned(s, e) <=> Lists(q, e)
    /\ \A i, j \in 1..Len(q) : i < j => Before(s, q[i], q[j])

\* One line of next_queued's order.
Meet(q, line) ==
    IF line = Garbage \/ Lists(q, line.entry) THEN q ELSE Append(q, line.entry)

\* A line keeps the order an order.
LEMMA RankedStep ==
    ASSUME NEW s \in Seq(Lines), NEW line \in Lines, NEW q, Ranked(q, s)
    PROVE  Ranked(Meet(q, line), Append(s, line))
<1> DEFINE t == Append(s, line)
<1>1. /\ q \in Seq(Entries) /\ Len(q) \in Nat
      /\ \A i \in 1..Len(q) : q[i] \in Entries /\ Mentioned(s, q[i])
  BY DEF Ranked, Lists
<1>2. \A i, j \in 1..Len(q) : i < j => Before(t, q[i], q[j])
  BY <1>1, BeforeAfter DEF Ranked
<1>3. CASE line = Garbage
  <2>1. \A e \in Entries : Mentioned(t, e) <=> Mentioned(s, e)
    BY <1>3, MentionedGarbage
  <2> HIDE DEF t
  <2> QED BY <1>2, <1>3, <2>1 DEF Ranked, Meet, t
<1>4. CASE line # Garbage
  <2> DEFINE f == line.entry
  <2>1. line.kind \in Kinds /\ f \in Entries /\ line = Event(line.kind, f)
    BY <1>4, LineCases
  <2>2. \A e \in Entries : Mentioned(t, e) <=> Mentioned(s, e) \/ e = f
    <3>1. \A e \in Entries : Mentioned(Append(s, Event(line.kind, f)), e) <=> Mentioned(s, e) \/ e = f
      BY <2>1, MentionedAfter
    <3> QED BY <2>1, <3>1
  <2> HIDE DEF f
  <2>3. CASE Lists(q, f)
    <3> HIDE DEF t
    <3>1. Meet(q, line) = q
      BY <2>3 DEF Meet, f
    <3> QED BY <1>2, <2>1, <2>2, <2>3, <3>1 DEF Ranked, t
  <2>4. CASE ~Lists(q, f)
    <3> DEFINE r == Append(q, f)
    <3>1. Meet(q, line) = r
      BY <1>4, <2>4 DEF Meet, f
    <3>2. /\ r \in Seq(Entries) /\ Len(r) = Len(q) + 1 /\ r[Len(q) + 1] = f
          /\ \A i \in 1..Len(q) : r[i] = q[i]
      BY <1>1, <2>1
    <3> HIDE DEF r
    <3>3. \A e : Lists(r, e) <=> Lists(q, e) \/ e = f
      <4>0. DOMAIN r = 1..Len(r) /\ DOMAIN q = 1..Len(q)
        BY <1>1, <3>2
      <4> SUFFICES ASSUME NEW e
                   PROVE  (\E i \in 1..Len(r) : r[i] = e) <=> (\E i \in 1..Len(q) : q[i] = e) \/ e = f
        BY <4>0 DEF Lists
      <4>1. \A i \in 1..Len(r) : i = Len(q) + 1 \/ i \in 1..Len(q)
        BY <1>1, <3>2
      <4>2. Len(q) + 1 \in 1..Len(r) /\ \A i \in 1..Len(q) : i \in 1..Len(r)
        BY <1>1, <3>2
      <4> QED BY <3>2, <4>1, <4>2
    <3>4. \A i \in 1..Len(q) : Before(t, q[i], f)
      BY <1>1, <2>1, <2>4, BeforeNew DEF Ranked
    <3> HIDE DEF t
    <3>5. \A i, j \in 1..Len(r) : i < j => Before(t, r[i], r[j])
      <4> TAKE i, j \in 1..Len(r)
      <4> HAVE i < j
      <4>1. i \in 1..Len(q) /\ (j \in 1..Len(q) \/ j = Len(q) + 1)
        BY <1>1, <3>2
      <4> QED BY <1>2, <3>2, <3>4, <4>1
    <3> QED BY <2>2, <3>1, <3>2, <3>3, <3>5 DEF Ranked, t
  <2> QED BY <2>3, <2>4
<1> QED BY <1>3, <1>4

\* The recursion of next_queued's order has a solution.
LEMMA OrderExists ==
    ASSUME NEW s \in Seq(Lines), NEW m \in 0..Len(s)
    PROVE  \E f : f = [i \in 0..m |-> IF i = 0 THEN <<>> ELSE Meet(f[i - 1], s[i])]
<1> DEFINE next(f, i) == IF i = 0 THEN <<>> ELSE Meet(f[i - 1], s[i])
           Folds(f, n) == f = [i \in 0..n |-> next(f, i)]
           T == {n \in 0..Len(s) : \A f : ~Folds(f, n)}
<1> SUFFICES ASSUME T # {} PROVE FALSE
  OBVIOUS
<1>1. T \in SUBSET Nat
  OBVIOUS
<1>2. PICK n \in T : \A k \in T : n <= k
  <2> HIDE DEF T
  <2> QED BY <1>1, Least
<1>3. CASE n = 0
  <2> DEFINE f == [i \in 0..0 |-> <<>>]
  <2>1. \A i \in 0..0 : next(f, i) = <<>>
    OBVIOUS
  <2>2. Folds(f, 0)
    BY <2>1
  <2> QED BY <1>2, <1>3, <2>2
<1>4. CASE n # 0
  <2>1. n \in Nat /\ n - 1 \in Nat /\ n - 1 \in 0..Len(s) /\ ~(n <= n - 1)
    BY <1>2, <1>4
  <2>2. PICK f : Folds(f, n - 1)
    <3> HIDE DEF Folds
    <3>1. n - 1 \notin T
      <4> HIDE DEF T
      <4> QED BY <1>2, <2>1
    <3> QED BY <2>1, <3>1
  <2> DEFINE g == [i \in 0..n |-> IF i = n THEN Meet(f[n - 1], s[n]) ELSE f[i]]
  <2>3. \A i \in 0..(n - 1) : f[i] = next(f, i)
    <3> HIDE DEF next
    <3> QED BY <2>2
  <2>4. \A i \in 0..n : g[i] = next(g, i)
    <3> TAKE i \in 0..n
    <3>1. CASE i = 0
      BY <1>4, <2>1, <2>3, <3>1
    <3>2. CASE i = n
      BY <1>4, <2>1, <3>2
    <3>3. CASE i # 0 /\ i # n
      <4>1. i \in 0..(n - 1) /\ i - 1 \in 0..n /\ i - 1 # n
        BY <2>1, <3>3
      <4>2. g[i] = f[i] /\ g[i - 1] = f[i - 1]
        BY <3>3, <4>1
      <4> HIDE DEF g
      <4> QED BY <2>3, <3>3, <4>1, <4>2
    <3> QED BY <3>1, <3>2, <3>3
  <2>5. Folds(g, n)
    <3> HIDE DEF next
    <3>1. g = [i \in 0..n |-> g[i]]
      OBVIOUS
    <3> HIDE DEF g
    <3> QED BY <2>4, <3>1
  <2> HIDE DEF g, Folds
  <2> QED BY <1>2, <2>5
<1> QED BY <1>3, <1>4

\* next_queued's order is the order of the first mentions, on every log.
LEMMA OrderIsRanked ==
    ASSUME NEW s \in Seq(Lines)
    PROVE  Ranked(Order(s), s)
<1> DEFINE n == Len(s)
           next(f, i) == IF i = 0 THEN <<>> ELSE Meet(f[i - 1], s[i])
           Folds(f) == f = [i \in 0..n |-> next(f, i)]
           order == CHOOSE f : Folds(f)
           upto(i) == SubSeq(s, 1, i)
<1>1. n \in Nat /\ upto(0) = <<>> /\ upto(n) = s
  BY Prefixes
<1>2. \A i \in 1..n : /\ upto(i - 1) \in Seq(Lines) /\ s[i] \in Lines
                      /\ upto(i) = Append(upto(i - 1), s[i])
  BY Prefixes
<1>3. \E f : Folds(f)
  <2>1. n \in 0..Len(s)
    BY <1>1
  <2> QED BY <2>1, OrderExists
<1>4. Folds(order)
  <2> HIDE DEF Folds
  <2> QED BY <1>3
<1>5. Order(s) = order[n]
  BY DEF Order, Meet
<1> HIDE DEF order, upto, n
<1>6. Ranked(<<>>, <<>>)
  <2>1. <<>> \in Seq(Entries) /\ Len(<<>>) = 0
    OBVIOUS
  <2> QED BY <2>1 DEF Ranked, Mentioned, Lists
<1>7. \A i \in 0..n : order[i] = next(order, i)
  <2> HIDE DEF next
  <2> QED BY <1>4
<1>8. \A i \in 0..n : Ranked(order[i], upto(i))
  <2> DEFINE T == {i \in 0..n : ~Ranked(order[i], upto(i))}
  <2> SUFFICES ASSUME T # {} PROVE FALSE
    OBVIOUS
  <2>1. T \in SUBSET Nat
    BY <1>1
  <2>2. PICK m \in T : \A k \in T : m <= k
    <3> HIDE DEF T
    <3> QED BY <2>1, Least
  <2>3. CASE m = 0
    BY <1>1, <1>6, <1>7, <2>2, <2>3
  <2>4. CASE m # 0
    <3>1. m \in 1..n /\ m - 1 \in 0..n /\ ~(m <= m - 1)
      BY <1>1, <2>2, <2>4
    <3>2. Ranked(order[m - 1], upto(m - 1))
      BY <2>2, <3>1
    <3>3. Ranked(Meet(order[m - 1], s[m]), Append(upto(m - 1), s[m]))
      BY <1>2, <3>1, <3>2, RankedStep
    <3>4. order[m] = Meet(order[m - 1], s[m])
      BY <1>7, <2>2, <2>4
    <3> QED BY <1>2, <2>2, <3>1, <3>3, <3>4
  <2> QED BY <2>3, <2>4
<1>9. n \in 0..n
  BY <1>1
<1> QED BY <1>1, <1>5, <1>8, <1>9

\* next_queued prints the entry that a runner selects, on every log.
LEMMA NextQueuedIsSelected ==
    ASSUME NEW s \in Seq(Lines), NEW t, NEW e \in Entries
    PROVE  NextQueued(s, t) = e <=> Selected(s, t, e)
<1> DEFINE order == Order(s)
           I == {i \in DOMAIN order : Fold(s, order[i]) = "queued"}
           first == CHOOSE i \in I : \A j \in I : i <= j
<1>1. NextQueued(s, t) = IF Unreadable(s, t) \/ I = {} THEN NoEntry ELSE order[first]
  BY DEF NextQueued
<1>2. NoEntry # e
  BY QueueAssumption
<1>3. Ranked(order, s)
  BY OrderIsRanked
<1> HIDE DEF order
<1>4. /\ Len(order) \in Nat /\ DOMAIN order = 1..Len(order)
      /\ \A i \in 1..Len(order) : order[i] \in Entries
      /\ \A i, j \in 1..Len(order) : i < j => Before(s, order[i], order[j])
  BY <1>3 DEF Ranked
<1>5. I = {i \in 1..Len(order) : Status(s, order[i]) = "queued"}
  BY <1>4, FoldIsStatus
<1>6. ASSUME NEW f \in Entries, Status(s, f) = "queued"
      PROVE  \E i \in I : order[i] = f
  <2>1. Mentioned(s, f)
    BY <1>6, StatusNew
  <2>2. PICK i \in 1..Len(order) : order[i] = f
    BY <1>3, <2>1 DEF Ranked, Lists
  <2> QED BY <1>5, <1>6, <2>2
<1>7. CASE I = {}
  BY <1>1, <1>2, <1>6, <1>7 DEF Selected
<1>8. CASE I # {}
  <2>1. I \in SUBSET Nat
    BY <1>4
  <2>2. \E x \in I : \A y \in I : x <= y
    <3> HIDE DEF I
    <3> QED BY <1>8, <2>1, Least
  <2> HIDE DEF I
  <2>4. first \in I /\ \A y \in I : first <= y
    BY <2>2
  <2> HIDE DEF first
  <2>5. first \in 1..Len(order) /\ order[first] \in Entries /\ Status(s, order[first]) = "queued"
    BY <1>4, <1>5, <2>4
  <2>6. ASSUME NEW f \in Entries, Status(s, f) = "queued", f # order[first]
        PROVE  Before(s, order[first], f)
    <3>1. PICK i \in I : order[i] = f
      BY <1>6, <2>6
    <3>2. i \in 1..Len(order) /\ first <= i /\ first # i
      BY <1>5, <2>4, <2>6, <3>1
    <3>3. first < i
      BY <2>5, <3>2
    <3> QED BY <1>4, <2>5, <3>1, <3>2, <3>3
  <2>7. ~Unreadable(s, t) => Selected(s, t, order[first])
    BY <2>5, <2>6 DEF Selected
  <2>8. ASSUME Selected(s, t, e) PROVE e = order[first]
    <3> SUFFICES ASSUME e # order[first] PROVE FALSE
      OBVIOUS
    <3>1. Status(s, e) = "queued" /\ Before(s, e, order[first])
      BY <2>5, <2>8 DEF Selected
    <3>2. Before(s, order[first], e)
      BY <2>6, <3>1
    <3> QED BY <3>1, <3>2, BeforeAsym
  <2> QED BY <1>1, <1>2, <1>8, <2>7, <2>8 DEF Selected
<1> QED BY <1>7, <1>8

\* A line takes an entry out of a verdict only by enqueueing it again.
LEMMA VerdictsLast ==
    ASSUME NEW s \in Seq(Lines), NEW line \in Lines, NEW e \in Entries,
           line # Event("enqueue", e)
    PROVE  /\ Status(s, e) \in Terminal => Status(Append(s, line), e) \in Terminal
           /\ Status(s, e) = "canceled" => Status(Append(s, line), e) = "canceled"
<1>1. CASE line = Garbage
  BY <1>1, StatusGarbage
<1>2. CASE line # Garbage
  <2>1. line.kind \in Kinds /\ line.entry \in Entries /\ line = Event(line.kind, line.entry)
    BY <1>2, LineCases
  <2>2. CASE line.entry # e
    <3>1. Status(Append(s, Event(line.kind, line.entry)), e) = Status(s, e)
      BY <2>1, <2>2, StatusOther
    <3> QED BY <2>1, <3>1
  <2>3. CASE line.entry = e
    <3>1. line.kind # "enqueue" /\ line = Event(line.kind, e)
      BY <2>1, <2>3
    <3>2. Status(Append(s, Event(line.kind, e)), e) = Apply(Status(s, e), line.kind)
      BY <2>1, StatusApply
    <3>3. \A v \in Terminal : \A k \in Kinds \ {"enqueue"} :
              Apply(v, k) \in Terminal /\ (v = "canceled" => Apply(v, k) = "canceled")
      BY DEF Apply, Terminal, Kinds
    <3>4. "canceled" \in Terminal
      BY DEF Terminal
    <3> QED BY <2>1, <3>1, <3>2, <3>3, <3>4
  <2> QED BY <2>2, <2>3
<1> QED BY <1>1, <1>2

\* Whatever is in the file, the readers of lib/queue.sh make the same of it
\* (derive, "apr queue status" and status_summary agree on every entry), and
\* next_queued prints the oldest queued entry of a readable file.
THEOREM OnEveryLog == log \in Seq(Lines) => ReadersAgree /\ SelectionIsOldest
BY FoldIsStatus, FallbackIsStatus, ByIdIsStatus, NextQueuedIsSelected
   DEF ReadersAgree, SelectionIsOldest, Intact

\* The readers agree on what the queue itself writes.
THEOREM ReadersAlwaysAgree == Spec => []ReadersAgree
<1>1. TypeInv => ReadersAgree
  BY OnEveryLog DEF TypeInv, TypeOK
<1> QED BY <1>1, TypesHold, PTL

\* What the runners take is what next_queued prints.
THEOREM OldestIsSelected == Spec => []SelectionIsOldest
<1>1. TypeInv => SelectionIsOldest
  BY OnEveryLog DEF TypeInv, TypeOK
<1> QED BY <1>1, TypesHold, PTL

\* What the readers see to by themselves, whatever is appended to whatever file:
\* nothing but a repeated enqueue takes an entry from its end back to work, or
\* undoes a cancel.  They let a later finish or fail replace the other, so that
\* EndedStays rests on who writes.
THEOREM OnlyEnqueueRevives ==
    ASSUME NEW s \in Seq(Lines), NEW line \in Lines, NEW e \in Entries,
           line # Event("enqueue", e)
    PROVE  /\ Fold(s, e) \in Terminal => Fold(Append(s, line), e) \in Terminal
           /\ Fold(s, e) = "canceled" => Fold(Append(s, line), e) = "canceled"
<1>1. Append(s, line) \in Seq(Lines)
  BY AppendedLine
<1> QED BY <1>1, VerdictsLast, FoldIsStatus

\* In the contract an entry that has ended changes only by a cancel.
LEMMA ContractKeepsEnds ==
    ASSUME Promised, NEW e \in Entries, Status(log, e) \in Terminal
    PROVE  Status(log', e) \in {Status(log, e), "canceled"}
<1> DEFINE now == [d \in Entries |-> Status(log, d)]
           then == [d \in Entries |-> Status(log', d)]
<1>1. now[e] \in Terminal /\ now[e] = Status(log, e) /\ then[e] = Status(log', e)
  OBVIOUS
<1>2. CASE UNCHANGED Contract!vars
  <2>1. then = now
    BY <1>2 DEF Contract!vars
  <2> QED BY <1>1, <2>1
<1>3. CASE Contract!Next
  <2>1. PICK d \in Entries : \/ Contract!Enqueue(d) \/ Contract!Start(d) \/ Contract!Settle(d)
                             \/ Contract!Lose(d) \/ Contract!Cancel(d)
    BY <1>3 DEF Contract!Next
  <2>2. CASE Contract!Enqueue(d)
    <3>1. now[d] = "unknown" /\ then = [now EXCEPT ![d] = "queued"]
      BY <2>2 DEF Contract!Enqueue
    <3> HIDE DEF now, then
    <3> QED BY <1>1, <3>1 DEF Terminal, now
  <2>3. CASE Contract!Start(d)
    <3>1. now[d] = "queued" /\ then = [now EXCEPT ![d] = "running"]
      BY <2>3 DEF Contract!Start
    <3> QED BY <1>1, <3>1 DEF Terminal
  <2>4. CASE Contract!Settle(d)
    <3>1. now[d] = "running" /\ \E v \in {"done", "failed"} : then = [now EXCEPT ![d] = v]
      BY <2>4 DEF Contract!Settle
    <3> QED BY <1>1, <3>1 DEF Terminal
  <2>5. CASE Contract!Lose(d)
    <3>1. then = now
      BY <2>5 DEF Contract!Lose
    <3> QED BY <1>1, <3>1
  <2>6. CASE Contract!Cancel(d)
    <3>1. then = [now EXCEPT ![d] = "canceled"]
      BY <2>6 DEF Contract!Cancel
    <3> QED BY <1>1, <3>1
  <2> QED BY <2>1, <2>2, <2>3, <2>4, <2>5, <2>6
<1> QED BY <1>2, <1>3 DEF Promised

\* The queue's own processes never write what would change how an entry ended,
\* but for a cancel: its verdict is written by the one runner that started it,
\* under the lock that it took for that, and its id is enqueued once.
THEOREM EndsStay == ASSUME ~TornWrites PROVE Spec => EndedStays
<1>1. ASSUME TypeInv, TypeInv', LockInv, OnceInv, ForwardInv, [Next]_vars, NEW e \in Entries,
             Fold(log, e) \in Terminal
      PROVE  Fold(log', e) \in {Fold(log, e), "canceled"}
  <2>1. Promised
    BY <1>1, StepForward
  <2>2. log \in Seq(Lines) /\ log' \in Seq(Lines)
    BY <1>1 DEF TypeInv, TypeOK
  <2>3. Fold(log, e) = Status(log, e) /\ Fold(log', e) = Status(log', e)
    BY <2>2, FoldIsStatus
  <2> QED BY <1>1, <2>1, <2>3, ContractKeepsEnds
<1>2. TypeInv /\ TypeInv' /\ LockInv /\ OnceInv /\ ForwardInv /\ [Next]_vars =>
        [\A e \in Entries : Fold(log, e) \in Terminal =>
            Fold(log', e) \in {Fold(log, e), "canceled"}]_fileVars
  BY <1>1
<1> QED BY <1>2, TypesHold, LockHolds, OnceHolds, ForwardHolds, PTL DEF Spec, EndedStays

\* If no append can be cut short, every reader can read the log, always.
THEOREM LogsAreLegible == ASSUME ~TornWrites PROVE Spec => []AlwaysLegible
<1>1. ForwardInv /\ OnceInv => AlwaysLegible
  BY AlwaysReadable DEF AlwaysLegible
<1> QED BY <1>1, OnceHolds, ForwardHolds, PTL
=============================================================================
