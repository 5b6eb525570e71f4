--------------------------- MODULE RoundRunProofs ---------------------------
(***************************************************************************)
(* Proofs about module RoundRun, for every set of invocations, of files    *)
(* and of reports that oracle may give, and for any number of signals.     *)
(*                                                                         *)
(* UnderLock compares pairs of invocations and is not inductive: nothing   *)
(* in it says why a second one stays out.  LockInv says it: who is between *)
(* the lock and the exit holds it, a detached oracle has it, and nobody    *)
(* else's trap frees it.  The other properties rest on UnderLock.          *)
(*                                                                         *)
(* Last comes module OracleRetry, the loop in which a round calls oracle,  *)
(* for every configuration of its limits.  That argument is one of book-   *)
(* keeping: between an invocation and the charge for it the count of       *)
(* invocations is one ahead of the budgets (Charged), and who is asked to  *)
(* charge has not used up either (Solvent).                                *)
(***************************************************************************)
EXTENDS RoundRun, OracleRetry, TLAPS, WellFoundedInduction

\* Where an invocation has the lock, unless a TERM released it.
Working == {"locked", "oracle", "validate", "recover", "metrics", "finish"}

\* The lock is with whoever works, or with the oracle he left behind.
LockInv ==
    /\ \A p \in Procs : holds[p] => lock = p /\ ~kid[p]
    /\ \A p \in Procs \ termed : pc[p] \in Working => holds[p]
    /\ \A p \in Procs \ termed : kid[p] => lock = p
    /\ \A p \in Procs : kid[p] => pc[p] \in {"forked", "exit", "over", "dead"}
-----------------------------------------------------------------------------
(* Types. *)

\* What the verifier says of a log is a trust record.
LEMMA TrustIsTrust == \A lines : Trust(lines) \in Trusts
BY DEF Trust, Trusts

\* A finished ledger has the type of a ledger.
LEMMA FinishedIsLedger ==
    ASSUME NEW p \in Procs, log \in Logs
    PROVE  Finished(p) \in Ledgers
BY TrustIsTrust DEF Finished, Ledgers

\* A fresh log, an empty ledger and a started one have their types.
LEMMA FreshTypes ==
    /\ NoLog \in Logs /\ NoLedger \in Ledgers
    /\ \A p \in Procs : [NoLedger EXCEPT !.run = p, !.state = "started"] \in Ledgers
<1>1. <<>> \in Seq(ReportLines)
  OBVIOUS
<1>2. NoLog \in Logs
  BY <1>1 DEF NoLog, Logs
<1>3. Unverified \in Trusts
  BY DEF Unverified, Trusts
<1>4. NoLedger \in Ledgers
  BY <1>2, <1>3 DEF NoLedger, Ledgers
<1>5. ASSUME NEW p \in Procs
      PROVE  [NoLedger EXCEPT !.run = p, !.state = "started"] \in Ledgers
  BY <1>4 DEF Ledgers
<1> QED BY <1>2, <1>4, <1>5

\* The initial states have the types.
LEMMA InitTypes == Init => TypeOK
<1> SUFFICES ASSUME Init PROVE TypeOK
  OBVIOUS
<1>1. pc \in [Procs -> PCs] /\ code \in [Procs -> Codes]
  BY DEF Init, PCs, Codes
<1>2. holds \in [Procs -> BOOLEAN] /\ kid \in [Procs -> BOOLEAN]
  BY DEF Init
<1> QED BY <1>1, <1>2, FreshTypes DEF Init, TypeOK

\* Every step keeps the types.
LEMMA StepTypes == TypeOK /\ [Next]_vars => TypeOK'
<1> SUFFICES ASSUME TypeOK, [Next]_vars PROVE TypeOK'
  OBVIOUS
<1> USE DEF TypeOK, Goto, Exit, PCs, Codes, OK, Partial, Dependency, Config, OracleCode,
            request, history
<1>1. ASSUME NEW p \in Procs, Check(p) PROVE TypeOK'
  BY <1>1 DEF Check
<1>2. ASSUME NEW p \in Procs, WriteStarted(p) PROVE TypeOK'
  BY <1>2, FreshTypes DEF WriteStarted
<1>3. ASSUME NEW p \in Procs, PromptCheck(p) PROVE TypeOK'
  BY <1>3 DEF PromptCheck
<1>4. ASSUME NEW p \in Procs, LockRound(p) PROVE TypeOK'
  BY <1>4 DEF LockRound
<1>5. ASSUME NEW p \in Procs, StartForeground(p) PROVE TypeOK'
  <2>1. [run |-> p, lines |-> <<>>] \in Logs
    BY FreshTypes DEF NoLog, Logs
  <2> QED BY <1>5, <2>1 DEF StartForeground
<1>6. ASSUME NEW p \in Procs, OracleEnds(p) PROVE TypeOK'
  <2>1. PICK lines \in Attempts : log' = [run |-> p, lines |-> lines]
    BY <1>6 DEF OracleEnds
  <2>2. log' \in Logs
    BY <2>1, RunAssumption DEF Logs
  <2> QED BY <1>6, <2>2 DEF OracleEnds
<1>7. ASSUME NEW p \in Procs, Validate(p) PROVE TypeOK'
  BY <1>7 DEF Validate
<1>8. ASSUME NEW p \in Procs, Recover(p) PROVE TypeOK'
  BY <1>8 DEF Recover
<1>9. ASSUME NEW p \in Procs, RecordMetrics(p) PROVE TypeOK'
  BY <1>9 DEF RecordMetrics
<1>10. ASSUME NEW p \in Procs, WriteFinished(p) PROVE TypeOK'
  BY <1>10, FinishedIsLedger DEF WriteFinished
<1>11. ASSUME NEW p \in Procs, StartBackground(p) PROVE TypeOK'
  BY <1>11 DEF StartBackground
<1>12. ASSUME NEW p \in Procs, CheckBackground(p) PROVE TypeOK'
  BY <1>12 DEF CheckBackground
<1>13. ASSUME NEW p \in Procs, KidExit(p) PROVE TypeOK'
  BY <1>13 DEF KidExit
<1>14. ASSUME NEW p \in Procs, Trap(p) PROVE TypeOK'
  BY <1>14 DEF Trap, ReleaseLock
<1>15. ASSUME NEW p \in Procs, Term(p) PROVE TypeOK'
  BY <1>15 DEF Term, ReleaseLock
<1>16. ASSUME NEW p \in Procs, Kill(p) PROVE TypeOK'
  BY <1>16 DEF Kill
<1>17. CASE UNCHANGED vars
  BY <1>17 DEF vars
<1> QED
  BY <1>1, <1>2, <1>3, <1>4, <1>5, <1>6, <1>7, <1>8, <1>9, <1>10, <1>11, <1>12, <1>13,
     <1>14, <1>15, <1>16, <1>17 DEF Next, Step

\* In every reachable state of the round every variable has its type.
THEOREM TypeCorrect == Spec => []TypeOK
BY InitTypes, StepTypes, PTL DEF Spec
-----------------------------------------------------------------------------
(* One oracle at a time, and the work after it under the lock. *)

\* At first nobody has the lock or an oracle.
LEMMA InitLock == Init => LockInv
BY DEF Init, LockInv, Working

\* A step of p that leaves the lock, its holders and the oracles alone, and
\* takes p nowhere that needs the lock.
LEMMA LockKept ==
    ASSUME NEW p \in Procs, TypeOK, LockInv,
           UNCHANGED <<holds, kid, lock, termed>>,
           NEW l \in PCs, pc' = [pc EXCEPT ![p] = l],
           l \in Working => pc[p] \in Working,
           l \in {"forked", "exit", "over", "dead"} \/ ~kid[p]
    PROVE  LockInv'
BY DEF LockInv, TypeOK, Working, PCs

\* The steps before the lock, and those of the foreground.
LEMMA PlainStepLock ==
    ASSUME NEW p \in Procs, TypeOK, LockInv,
           \/ Check(p) \/ WriteStarted(p) \/ PromptCheck(p)
           \/ StartForeground(p) \/ OracleEnds(p) \/ Validate(p) \/ Recover(p)
           \/ RecordMetrics(p) \/ WriteFinished(p) \/ CheckBackground(p)
    PROVE  LockInv'
<1> USE DEF Goto, Exit, history, PCs, Working
<1>0. pc[p] \notin {"forked", "exit", "over", "dead"} => ~kid[p]
  BY DEF LockInv
<1>1. CASE Check(p) \/ WriteStarted(p) \/ PromptCheck(p)
  BY <1>0, <1>1, LockKept DEF Check, WriteStarted, PromptCheck
<1>2. CASE StartForeground(p) \/ OracleEnds(p) \/ Validate(p) \/ Recover(p)
  BY <1>0, <1>2, LockKept DEF StartForeground, OracleEnds, Validate, Recover
<1>3. CASE RecordMetrics(p) \/ WriteFinished(p)
  BY <1>0, <1>3, LockKept DEF RecordMetrics, WriteFinished
<1>4. CASE CheckBackground(p)
  BY <1>0, <1>4, LockKept DEF CheckBackground
<1> QED BY <1>1, <1>2, <1>3, <1>4

\* The steps that take the lock, hand it over or free it.
LEMMA LockStepLock ==
    ASSUME NEW p \in Procs, TypeOK, LockInv,
           \/ LockRound(p) \/ StartBackground(p) \/ KidExit(p)
           \/ Trap(p) \/ Term(p) \/ Kill(p)
    PROVE  LockInv'
<1> USE DEF LockInv, TypeOK, Goto, Exit, history, Working
<1>1. CASE LockRound(p)
  BY <1>1, RunAssumption DEF LockRound
<1>2. CASE StartBackground(p)
  BY <1>2 DEF StartBackground
<1>3. CASE KidExit(p)
  BY <1>3 DEF KidExit
<1>4. CASE Trap(p)
  BY <1>4 DEF Trap, ReleaseLock
<1>5. CASE Term(p)
  BY <1>5 DEF Term, ReleaseLock
<1>6. CASE Kill(p)
  BY <1>6 DEF Kill
<1> QED BY <1>1, <1>2, <1>3, <1>4, <1>5, <1>6

\* Every step keeps the lock with whoever works.
LEMMA StepLock == TypeOK /\ LockInv /\ [Next]_vars => LockInv'
<1> SUFFICES ASSUME TypeOK, LockInv, [Next]_vars PROVE LockInv'
  OBVIOUS
<1>1. ASSUME NEW p \in Procs, Step(p) \/ Term(p) \/ Kill(p) PROVE LockInv'
  BY <1>1, PlainStepLock, LockStepLock DEF Step
<1>2. CASE UNCHANGED vars
  BY <1>2 DEF vars, LockInv
<1> QED BY <1>1, <1>2 DEF Next

\* The inductive invariant holds in every reachable state.
THEOREM LockHolds == Spec => [](TypeOK /\ LockInv)
BY InitTypes, StepTypes, InitLock, StepLock, PTL DEF Spec

\* Whoever has the lock or an oracle is the one that the lock names.
LEMMA LockUnder == LockInv => UnderLock
BY DEF LockInv, UnderLock, Oracles, Working

\* At most one oracle works on the round, and what follows it is done alone and
\* under the lock, unless a TERM released the lock of a run that went on.
THEOREM OracleUnderLock == Spec => []UnderLock
BY LockHolds, LockUnder, PTL
-----------------------------------------------------------------------------
(* What is recorded is valid. *)

\* Once validated, the output stays valid until the run has recorded it.
GoodInv ==
    termed = {} => \A p \in Procs : pc[p] \in {"metrics", "finish"} => output = "good"

\* Nobody else works on the output of a run that has validated it.
LEMMA AloneAfterwards ==
    ASSUME LockInv, termed = {}, NEW p \in Procs, pc[p] \in {"metrics", "finish"}, NEW q \in Procs
    PROVE  ~kid[q] /\ pc[q] # "oracle"
BY DEF LockInv, Working

\* Every step keeps a validated output valid.
LEMMA StepGood == TypeOK /\ LockInv /\ GoodInv /\ [Next]_vars => GoodInv'
<1> SUFFICES ASSUME TypeOK, LockInv, GoodInv, [Next]_vars, termed' = {},
                    NEW p \in Procs, pc'[p] \in {"metrics", "finish"}
             PROVE  output' = "good"
  BY DEF GoodInv
<1> USE DEF Goto, Exit, history, TypeOK
<1>1. ASSUME NEW q \in Procs, Check(q) \/ WriteStarted(q) \/ PromptCheck(q) \/ LockRound(q)
      PROVE  output' = "good"
  BY <1>1 DEF Check, WriteStarted, PromptCheck, LockRound, GoodInv
<1>2. ASSUME NEW q \in Procs, StartForeground(q) \/ Validate(q) \/ Recover(q)
      PROVE  output' = "good"
  BY <1>2 DEF StartForeground, Validate, Recover, GoodInv
<1>3. ASSUME NEW q \in Procs, OracleEnds(q) \/ KidExit(q)
      PROVE  output' = "good"
  <2>1. pc[p] \in {"metrics", "finish"} /\ termed = {}
    BY <1>3 DEF OracleEnds, KidExit
  <2> QED BY <1>3, <2>1, AloneAfterwards DEF OracleEnds, KidExit
<1>4. ASSUME NEW q \in Procs, RecordMetrics(q) \/ WriteFinished(q)
      PROVE  output' = "good"
  BY <1>4 DEF RecordMetrics, WriteFinished, GoodInv
<1>5. ASSUME NEW q \in Procs, StartBackground(q) \/ CheckBackground(q) \/ Trap(q)
      PROVE  output' = "good"
  BY <1>5 DEF StartBackground, CheckBackground, Trap, GoodInv
<1>6. ASSUME NEW q \in Procs, Term(q) \/ Kill(q)
      PROVE  output' = "good"
  BY <1>6 DEF Term, Kill, GoodInv
<1>7. CASE UNCHANGED vars
  BY <1>7 DEF vars, GoodInv
<1> QED BY <1>1, <1>2, <1>3, <1>4, <1>5, <1>6, <1>7 DEF Next, Step

\* A step that records the metrics or signs the ledger sees a valid output.
LEMMA RecordsGood ==
    TypeOK /\ GoodInv /\ [Next]_vars =>
        [(signed' # signed \/ metrics' # metrics) /\ termed = {} => output = "good"]_vars
<1> SUFFICES ASSUME TypeOK, GoodInv, Next, termed = {}, signed' # signed \/ metrics' # metrics
             PROVE  output = "good"
  BY DEF vars
<1>1. ASSUME NEW p \in Procs, RecordMetrics(p) \/ WriteFinished(p) PROVE output = "good"
  BY <1>1 DEF RecordMetrics, WriteFinished, GoodInv
<1>2. ASSUME NEW p \in Procs,
             \/ Check(p) \/ WriteStarted(p) \/ PromptCheck(p) \/ LockRound(p)
             \/ StartForeground(p) \/ OracleEnds(p) \/ Validate(p) \/ Recover(p)
             \/ StartBackground(p) \/ CheckBackground(p) \/ KidExit(p) \/ Trap(p)
             \/ Term(p) \/ Kill(p)
      PROVE  UNCHANGED <<signed, metrics>>
  BY <1>2 DEF Check, WriteStarted, PromptCheck, LockRound, StartForeground, OracleEnds,
       Validate, Recover, StartBackground, CheckBackground, KidExit, Trap, Term, Kill, history
<1> QED BY <1>1, <1>2 DEF Next, Step

\* Metrics and a finished ledger are only written while the output is valid:
\* no competitor and no detached oracle spoils it after it was validated.
THEOREM RecordedIsGood == Spec => RecordsOnlyGood
<1>1. Init => GoodInv
  BY DEF Init, GoodInv
<1>2. Spec => [](TypeOK /\ LockInv /\ GoodInv)
  BY <1>1, InitTypes, StepTypes, InitLock, StepLock, StepGood, PTL DEF Spec
<1> QED BY <1>2, RecordsGood, PTL DEF Spec, RecordsOnlyGood
-----------------------------------------------------------------------------
(* An exit code of 0. *)

\* A run that has not passed its checks owns nothing, and only a background
\* run is ever past its fork.
SuccessInv ==
    /\ SuccessIsSigned
    /\ \A p \in Procs : pc[p] \in {"new", "checked"} => ledger.run # p /\ p \notin metrics
    /\ \A p \in Procs : pc[p] = "forked" => mode[p] = "background"

\* Every step keeps it.
LEMMA StepSuccess == TypeOK /\ SuccessInv /\ [Next]_vars => SuccessInv'
<1> SUFFICES ASSUME TypeOK, SuccessInv, [Next]_vars PROVE SuccessInv'
  OBVIOUS
<1> USE DEF TypeOK, SuccessInv, SuccessIsSigned, Goto, Exit, request, history, OK, Partial,
            Dependency, Config, OracleCode
<1>1. ASSUME NEW q \in Procs, Check(q) PROVE SuccessInv'
  BY <1>1 DEF Check
<1>2. ASSUME NEW q \in Procs, WriteStarted(q) PROVE SuccessInv'
  <2>1. ledger'.run = q
    BY <1>2 DEF WriteStarted, NoLedger
  <2> QED BY <1>2, <2>1 DEF WriteStarted
<1>3. ASSUME NEW q \in Procs, PromptCheck(q) \/ LockRound(q) PROVE SuccessInv'
  BY <1>3 DEF PromptCheck, LockRound
<1>4. ASSUME NEW q \in Procs, StartForeground(q) \/ OracleEnds(q) \/ Validate(q) \/ Recover(q)
      PROVE  SuccessInv'
  BY <1>4 DEF StartForeground, OracleEnds, Validate, Recover
<1>5. ASSUME NEW q \in Procs, RecordMetrics(q) PROVE SuccessInv'
  BY <1>5 DEF RecordMetrics
<1>6. ASSUME NEW q \in Procs, WriteFinished(q) PROVE SuccessInv'
  <2>1. ledger'.run = q \/ ledger' = ledger
    BY <1>6 DEF WriteFinished, Finished
  <2> QED BY <1>6, <2>1 DEF WriteFinished
<1>7. ASSUME NEW q \in Procs, StartBackground(q) \/ CheckBackground(q) \/ KidExit(q) \/ Trap(q)
      PROVE  SuccessInv'
  BY <1>7 DEF StartBackground, CheckBackground, KidExit, Trap
<1>8. ASSUME NEW q \in Procs, Term(q) \/ Kill(q) PROVE SuccessInv'
  BY <1>8 DEF Term, Kill
<1>9. CASE UNCHANGED vars
  BY <1>9 DEF vars
<1> QED BY <1>1, <1>2, <1>3, <1>4, <1>5, <1>6, <1>7, <1>8, <1>9 DEF Next, Step

\* A foreground run that exits with 0 signed the ledger, or found a live
\* session and touched nothing.
THEOREM SuccessSigned == Spec => []SuccessIsSigned
<1>1. Init => SuccessInv
  BY RunAssumption DEF Init, SuccessInv, SuccessIsSigned, NoLedger
<1>2. SuccessInv => SuccessIsSigned
  BY DEF SuccessInv
<1> QED BY <1>1, <1>2, InitTypes, StepTypes, StepSuccess, PTL DEF Spec
-----------------------------------------------------------------------------
(* What a finished ledger says of the attachments. *)

\* A set of natural numbers that is not empty has a least element.
LEMMA HasLeast ==
    ASSUME NEW S \in SUBSET Nat, S # {}
    PROVE  \E x \in S : \A y \in S : x <= y
<1>1. PICK x \in S : \A y \in S : <<y, x>> \notin OpToRel(<, Nat)
  BY NatLessThanWellFounded, WFMin
<1>2. \A y \in S : ~(y < x)
  BY <1>1, Zenon DEF OpToRel
<1> QED BY <1>2

\* A set of numbers up to n that is not empty has a greatest element.
LEMMA HasGreatest ==
    ASSUME NEW n \in Nat, NEW S \in SUBSET (1..n), S # {}
    PROVE  \E x \in S : \A y \in S : y <= x
<1> DEFINE T == {n - x : x \in S}
<1>1. T \in SUBSET Nat
  OBVIOUS
<1>2. T # {}
  OBVIOUS
<1>3. PICK m \in T : \A y \in T : m <= y
  <2> HIDE DEF T
  <2> QED BY <1>1, <1>2, HasLeast
<1>4. PICK x \in S : m = n - x
  OBVIOUS
<1>5. \A y \in S : n - x <= n - y
  BY <1>3, <1>4
<1> QED BY <1>5

\* The last line about a path that oracle mentions is about it, and no later
\* line is.
LEMMA LastLineIsLast ==
    ASSUME NEW lines \in Seq(ReportLines), NEW f \in Paths(lines)
    PROVE  \E i \in DOMAIN lines :
             /\ lines[i] = LastLine(lines, f) /\ lines[i].path = f
             /\ \A j \in DOMAIN lines : j > i => lines[j].path # f
<1> DEFINE Mentions == LinesOf(lines, f)
           Latest(i) == \A j \in Mentions : j <= i
<1>1. Len(lines) \in Nat /\ Mentions \in SUBSET (1..Len(lines)) /\ Mentions # {}
  BY DEF LinesOf, Paths
<1>2. \E i \in Mentions : Latest(i)
  <2> HIDE DEF Mentions
  <2> QED BY <1>1, HasGreatest
<1>3. PICK i \in Mentions : Latest(i) /\ i = CHOOSE k \in Mentions : Latest(k)
  BY <1>2
<1>4. lines[i] = LastLine(lines, f)
  BY <1>3 DEF LastLine
<1>5. i \in DOMAIN lines /\ lines[i].path = f
  BY DEF LinesOf
<1>6. \A j \in DOMAIN lines : j > i => lines[j].path # f
  BY <1>1, <1>3 DEF LinesOf
<1> QED BY <1>4, <1>5, <1>6

\* The last of the lines says that the file was uploaded whole, or nearly so.
Uploaded(lines, f) ==
    \E i \in DOMAIN lines :
        /\ lines[i].path = f /\ lines[i].status = "success" /\ ~Differs(lines[i].bytes, Bytes(f))
        /\ \A j \in DOMAIN lines : j > i => lines[j].path # f

\* A report that is there and found in order says so of every file.
THEOREM TrustMeansUploaded ==
    ASSUME NEW lines \in Seq(ReportLines), Trust(lines).ok, Trust(lines).supported, NEW f \in Files
    PROVE  Uploaded(lines, f)
<1>1. f \notin Missing(lines) /\ f \notin SizeMismatches(lines)
  BY DEF Trust
<1>2. f \in Paths(lines) /\ LastLine(lines, f).status = "success"
  BY <1>1 DEF Missing
<1>3. ~Differs(LastLine(lines, f).bytes, Bytes(f))
  BY <1>1, <1>2 DEF SizeMismatches
<1> QED BY <1>2, <1>3, LastLineIsLast DEF Uploaded

\* The run log is that of the run whose oracle has been started, and a finished
\* ledger says what the verifier made of it.
TrustInv ==
    termed = {} =>
        /\ \A p \in Procs : pc[p] \in Working \ {"locked"} => log.run = p
        /\ ledger.state = "finished" =>
             /\ ledger.report.run = ledger.run
             /\ ledger.trust = Trust(ledger.report.lines)
             /\ ledger.run \in Strict => ledger.trust.ok

\* Two invocations are not both at work.
LEMMA OneWorks ==
    ASSUME LockInv, termed = {}, NEW p \in Procs, pc[p] \in Working,
           NEW q \in Procs, pc[q] \in Working
    PROVE  p = q
BY DEF LockInv

\* Every step keeps it.
LEMMA StepTrust == TypeOK /\ LockInv /\ TrustInv /\ [Next]_vars => TrustInv'
<1> SUFFICES ASSUME TypeOK, LockInv, TrustInv, [Next]_vars, termed' = {} PROVE TrustInv'
  BY DEF TrustInv
<1> USE DEF TypeOK, Goto, Exit, request, history, Working
<1>1. ASSUME NEW p \in Procs, Check(p) \/ PromptCheck(p) \/ LockRound(p) PROVE TrustInv'
  BY <1>1 DEF Check, PromptCheck, LockRound, TrustInv
<1>2. ASSUME NEW p \in Procs, WriteStarted(p) PROVE TrustInv'
  <2>1. ledger'.state = "started"
    BY <1>2 DEF WriteStarted, NoLedger
  <2> QED BY <1>2, <2>1 DEF WriteStarted, TrustInv
<1>3. ASSUME NEW p \in Procs, StartForeground(p) \/ OracleEnds(p) PROVE TrustInv'
  <2>1. termed = {} /\ pc[p] \in Working
    BY <1>3 DEF StartForeground, OracleEnds
  <2>2. \A q \in Procs : pc[q] \in Working => q = p
    BY <2>1, OneWorks
  <2>3. log'.run = p /\ ledger' = ledger
    BY <1>3 DEF StartForeground, OracleEnds
  <2>4. \A q \in Procs : pc'[q] \in Working => q = p
    BY <1>3, <2>2 DEF StartForeground, OracleEnds
  <2> QED BY <2>1, <2>3, <2>4 DEF TrustInv
<1>4. ASSUME NEW p \in Procs, Validate(p) \/ Recover(p) \/ RecordMetrics(p) PROVE TrustInv'
  BY <1>4 DEF Validate, Recover, RecordMetrics, TrustInv
<1>5. ASSUME NEW p \in Procs, WriteFinished(p) PROVE TrustInv'
  <2>1. CASE UNCHANGED ledger
    BY <1>5, <2>1 DEF WriteFinished, TrustInv
  <2>2. CASE ~VerifierFails(log.lines, p \in Strict) /\ ledger' = Finished(p)
    <3>1. log.run = p
      BY <1>5 DEF WriteFinished, TrustInv
    <3>2. ledger'.run = p /\ ledger'.report = log /\ ledger'.trust = Trust(log.lines)
      BY <2>2 DEF Finished
    <3>3. p \in Strict => Trust(log.lines).ok
      BY <2>2 DEF VerifierFails
    <3> QED BY <1>5, <3>1, <3>2, <3>3 DEF WriteFinished, TrustInv
  <2> QED BY <1>5, <2>1, <2>2 DEF WriteFinished
<1>6. ASSUME NEW p \in Procs, StartBackground(p) \/ CheckBackground(p) \/ KidExit(p) \/ Trap(p)
      PROVE  TrustInv'
  BY <1>6 DEF StartBackground, CheckBackground, KidExit, Trap, TrustInv
<1>7. ASSUME NEW p \in Procs, Term(p) \/ Kill(p) PROVE TrustInv'
  BY <1>7 DEF Term, Kill, TrustInv
<1>8. CASE UNCHANGED vars
  BY <1>8 DEF vars, TrustInv
<1> QED BY <1>1, <1>2, <1>3, <1>4, <1>5, <1>6, <1>7, <1>8 DEF Next, Step

\* The invariant is what the property says of the ledger, by what trust means.
LEMMA TrustImplies == TypeOK /\ TrustInv => AttachmentsTrusted
<1> SUFFICES ASSUME TypeOK, TrustInv, termed = {}, ledger.state = "finished"
             PROVE  /\ ledger.report.run = ledger.run
                    /\ ledger.trust.ok /\ ledger.trust.supported =>
                         \A f \in Files : Uploaded(ledger.report.lines, f)
                    /\ ledger.run \in Strict => ledger.trust.ok
  BY DEF AttachmentsTrusted, Uploaded
<1>1. ledger.report.lines \in Seq(ReportLines)
  BY DEF TypeOK, Ledgers, Logs
<1> QED BY <1>1, TrustMeansUploaded DEF TrustInv

\* A finished ledger tells of the log of the run that signed it, and if it
\* trusts the attachments, oracle's last word on each file is that it got it.
THEOREM LedgerTellsTruth == Spec => []AttachmentsTrusted
<1>1. Init => TrustInv
  BY DEF Init, TrustInv, NoLedger, Working
<1>2. Spec => [](TypeOK /\ LockInv /\ TrustInv)
  BY <1>1, InitTypes, StepTypes, InitLock, StepLock, StepTrust, PTL DEF Spec
<1> QED BY <1>2, TrustImplies, PTL
-----------------------------------------------------------------------------
(* The retry loop in which a round calls oracle.                           *)

Charging == {"classify", "busy", "generic"}

\* Whoever goes on has a generic attempt and a busy failure left.
Solvent ==
    phase # "done" => attempt <= config.attempts /\ busyAttempts < config.busyAttempts

\* Every invocation but the one under way, and the last if it succeeded, was charged once.
Charged ==
    invocations = (attempt - 1) + busyAttempts +
        (IF phase \in Charging \/ (phase = "done" /\ ret = 0) THEN 1 ELSE 0)

\* What the invocations did is what the return code is about to say.
Told ==
    /\ phase = "invoke" => last # "ok"
    /\ phase \in Charging => ret = FailCode /\ last \in {"busy", "fail"}
    /\ phase = "busy" \/ last = "busy" => wasBusy
    /\ phase = "done" =>
         \/ ret = 0 /\ last = "ok"
            /\ attempt <= config.attempts /\ busyAttempts < config.busyAttempts
         \/ ret = BusyCode /\ wasBusy /\ last \in {"busy", "fail"} /\ BusyExhausted(busyAttempts)
            /\ attempt <= config.attempts
         \/ ret = FailCode /\ last \in {"busy", "fail"} /\ attempt = config.attempts + 1
            /\ busyAttempts < config.busyAttempts

\* The generic sleeps so far: the last attempt has none.
Tries == Least(attempt, config.attempts) - 1

\* The total wait, only for a busy oracle, and the generic sleeps against the backoff they came from.
Waited ==
    /\ config.busyWait > 0 /\ busyElapsed > 0 => busyElapsed < config.busyWait + config.busySleep
    /\ 2 * slept = backoff - config.backoff
    /\ ~wasBusy => busyAttempts = 0 /\ busyElapsed = 0

\* The backoff against the first one.
Grown == Growth(Tries) \in Nat /\ backoff = config.backoff * Growth(Tries)

RetryInv == RetryTypeOK /\ Solvent /\ Charged /\ Told /\ Waited /\ Grown

\* One power of three after the other.
Powers(f, n) == f = [i \in 0..n |-> IF i = 0 THEN 1 ELSE 3 * f[i - 1]]

\* Every number has its powers.
LEMMA PowersExist ==
    ASSUME NEW m \in Nat
    PROVE  \E f : Powers(f, m)
<1> DEFINE T == {n \in Nat : \A f : ~Powers(f, n)}
<1> SUFFICES ASSUME T # {} PROVE FALSE
  OBVIOUS
<1>1. T \in SUBSET Nat
  OBVIOUS
<1>2. PICK n \in T : \A k \in T : n <= k
  <2> HIDE DEF T
  <2> QED BY <1>1, HasLeast
<1>3. CASE n = 0
  <2> DEFINE f == [i \in 0..0 |-> 1]
  <2>1. f = [i \in 0..0 |-> IF i = 0 THEN 1 ELSE 3 * f[i - 1]]
    OBVIOUS
  <2>2. Powers(f, 0)
    BY <2>1 DEF Powers
  <2> QED BY <1>2, <1>3, <2>2
<1>4. CASE n # 0
  <2>1. n \in Nat /\ n - 1 \in Nat /\ ~(n <= n - 1)
    BY <1>2, <1>4
  <2>2. PICK f : Powers(f, n - 1)
    <3>1. n - 1 \notin T
      <4> HIDE DEF T
      <4> QED BY <1>2, <2>1
    <3> QED BY <2>1, <3>1
  <2> DEFINE g == [i \in 0..n |-> IF i = n THEN 3 * f[n - 1] ELSE f[i]]
             next(h, i) == IF i = 0 THEN 1 ELSE 3 * h[i - 1]
  <2>3. \A i \in 0..(n - 1) : f[i] = next(f, i)
    <3>1. f = [i \in 0..(n - 1) |-> next(f, i)]
      BY <2>2 DEF Powers
    <3> HIDE DEF next
    <3> QED BY <3>1
  <2>4. \A i \in 0..n : g[i] = next(g, i)
    <3> TAKE i \in 0..n
    <3>1. CASE i = 0
      BY <1>4, <2>1, <2>3, <3>1
    <3>2. CASE i = n
      <4>1. n - 1 \in 0..n /\ n - 1 # n
        BY <2>1
      <4>2. g[n - 1] = f[n - 1] /\ g[i] = 3 * f[n - 1]
        BY <3>2, <4>1
      <4> HIDE DEF g
      <4> QED BY <1>4, <3>2, <4>2
    <3>3. CASE i # 0 /\ i # n
      <4>1. i \in 0..(n - 1) /\ i - 1 \in 0..n /\ i - 1 # n
        BY <2>1, <3>3
      <4>2. g[i] = f[i] /\ g[i - 1] = f[i - 1]
        BY <3>3, <4>1
      <4> HIDE DEF g
      <4> QED BY <2>3, <3>3, <4>1, <4>2
    <3> QED BY <3>1, <3>2, <3>3
  <2>5. Powers(g, n)
    <3>1. g = [i \in 0..n |-> g[i]]
      OBVIOUS
    <3> HIDE DEF g, next
    <3>2. g = [i \in 0..n |-> next(g, i)]
      BY <2>4, <3>1
    <3> QED BY <3>2 DEF Powers, next
  <2> HIDE DEF g
  <2> QED BY <1>2, <2>5
<1> QED BY <1>3, <1>4

\* The powers of n are those of a larger number, up to n.
LEMMA PowersAgree ==
    ASSUME NEW n \in Nat, NEW f, NEW g, Powers(f, n), Powers(g, n + 1)
    PROVE  /\ \A i \in 0..n : f[i] = g[i]
           /\ f[0] = 1 /\ g[n + 1] = 3 * g[n]
<1>1. /\ \A i \in 0..n : f[i] = IF i = 0 THEN 1 ELSE 3 * f[i - 1]
      /\ \A i \in 0..(n + 1) : g[i] = IF i = 0 THEN 1 ELSE 3 * g[i - 1]
  <2> DEFINE next(h, i) == IF i = 0 THEN 1 ELSE 3 * h[i - 1]
  <2>1. f = [i \in 0..n |-> next(f, i)] /\ g = [i \in 0..(n + 1) |-> next(g, i)]
    BY DEF Powers
  <2> HIDE DEF next
  <2>2. /\ \A i \in 0..n : f[i] = next(f, i)
        /\ \A i \in 0..(n + 1) : g[i] = next(g, i)
    BY <2>1
  <2> QED BY <2>2 DEF next
<1>2. \A i \in 0..n : f[i] = g[i]
  <2> DEFINE T == {i \in 0..n : f[i] # g[i]}
  <2> SUFFICES ASSUME T # {} PROVE FALSE
    OBVIOUS
  <2>1. T \in SUBSET Nat
    OBVIOUS
  <2>2. PICK m \in T : \A k \in T : m <= k
    <3> HIDE DEF T
    <3> QED BY <2>1, HasLeast
  <2>3. m \in 0..n /\ m \in 0..(n + 1) /\ f[m] # g[m]
    BY <2>2
  <2>4. CASE m = 0
    BY <1>1, <2>3, <2>4
  <2>5. CASE m # 0
    <3>1. m - 1 \in 0..n /\ ~(m <= m - 1)
      BY <2>3, <2>5
    <3>2. f[m - 1] = g[m - 1]
      BY <2>2, <3>1
    <3> QED BY <1>1, <2>3, <2>5, <3>2
  <2> QED BY <2>4, <2>5
<1>3. 0 \in 0..n /\ n + 1 \in 0..(n + 1) /\ n + 1 # 0 /\ (n + 1) - 1 = n
  OBVIOUS
<1> QED BY <1>1, <1>2, <1>3

\* Growth is the last of the powers.
LEMMA GrowthIs ==
    ASSUME NEW n \in Nat
    PROVE  \E f : Powers(f, n) /\ Growth(n) = f[n]
<1> DEFINE power == CHOOSE f : Powers(f, n)
<1>1. Powers(power, n)
  BY PowersExist
<1>2. Growth(n) = power[n]
  BY DEF Growth, Powers
<1> HIDE DEF power
<1> QED BY <1>1, <1>2

\* Nothing slept, nothing grown; and each sleep multiplies by three.
LEMMA GrowthStep ==
    ASSUME NEW n \in Nat
    PROVE  Growth(0) = 1 /\ Growth(n + 1) = 3 * Growth(n)
<1>1. PICK f : Powers(f, n) /\ Growth(n) = f[n]
  BY GrowthIs
<1>2. PICK g : Powers(g, n + 1) /\ Growth(n + 1) = g[n + 1]
  <2>1. n + 1 \in Nat
    OBVIOUS
  <2> QED BY <2>1, GrowthIs
<1>3. f[n] = g[n] /\ g[n + 1] = 3 * g[n]
  BY <1>1, <1>2, PowersAgree
<1>4. PICK h : Powers(h, 0) /\ Growth(0) = h[0]
  BY GrowthIs
<1>5. PICK k : Powers(k, 0 + 1)
  BY PowersExist
<1>6. h[0] = 1
  BY <1>4, <1>5, PowersAgree
<1> QED BY <1>1, <1>2, <1>3, <1>4, <1>6

\* The fields of a configuration are numbers, and it has an attempt of either kind.
LEMMA ConfigTypes ==
    ASSUME RetryTypeOK
    PROVE  /\ config \in Configs
           /\ config.attempts \in Nat \ {0} /\ config.busyAttempts \in Nat \ {0}
           /\ config.backoff \in Nat /\ config.busyBackoff \in Nat
           /\ config.busySleep \in Nat /\ config.busyWait \in Nat
BY RetryAssumption DEF RetryTypeOK

\* Before the first invocation nothing was charged.
LEMMA InitRetry == RetryInit => RetryInv
<1> SUFFICES ASSUME RetryInit PROVE RetryInv
  OBVIOUS
<1>1. RetryTypeOK
  <2>1. wasBusy \in BOOLEAN
    BY DEF RetryInit
  <2> QED BY <2>1, RetryAssumption DEF RetryInit, RetryTypeOK, Returns
<1>2. Solvent /\ Charged /\ Told /\ Waited
  BY <1>1, ConfigTypes DEF RetryInit, Solvent, Charged, Told, Waited, Charging
<1>3. Grown
  <2>1. Tries = 0
    BY <1>1, ConfigTypes DEF Tries, Least, RetryInit
  <2>2. Growth(0) = 1
    BY GrowthStep
  <2>3. backoff = config.backoff * 1
    BY <1>1, ConfigTypes DEF RetryInit
  <2> QED BY <2>1, <2>2, <2>3 DEF Grown
<1> QED BY <1>1, <1>2, <1>3 DEF RetryInv

\* Only a generic failure multiplies the backoff, and only if another attempt
\* follows.
LEMMA StepGrown ==
    ASSUME RetryTypeOK, Solvent, Grown, [RetryNext]_loopVars
    PROVE  Grown'
<1>1. /\ config.attempts \in Nat \ {0} /\ config.backoff \in Nat
      /\ attempt \in 1..config.attempts + 1 /\ backoff \in Nat
      /\ Growth(Tries) \in Nat /\ backoff = config.backoff * Growth(Tries)
  BY ConfigTypes DEF RetryTypeOK, Grown
<1>2. ASSUME UNCHANGED <<config, attempt, backoff>> PROVE Grown'
  <2>1. Tries' = Tries
    BY <1>2 DEF Tries, Least
  <2> QED BY <1>1, <1>2, <2>1 DEF Grown, Growth
<1>3. CASE Generic
  <2>1. config' = config /\ attempt' = attempt + 1 /\ attempt <= config.attempts
    BY <1>3 DEF Generic, Solvent
  <2>2. CASE attempt < config.attempts
    <3>1. backoff' = backoff * 3
      BY <1>3, <2>2 DEF Generic
    <3>2. Tries' = Tries + 1 /\ Tries \in Nat
      <4>1. Tries = attempt - 1
        BY <1>1, <2>2 DEF Tries, Least
      <4>2. Tries' = Least(attempt + 1, config.attempts) - 1
        BY <2>1 DEF Tries, Least
      <4>3. Least(attempt + 1, config.attempts) = attempt + 1
        <5> DEFINE n == config.attempts
        <5>1. n \in Nat /\ attempt \in Nat /\ attempt < n
          BY <1>1, <2>2
        <5> HIDE DEF n
        <5>2. Least(attempt + 1, n) = attempt + 1
          BY <5>1 DEF Least
        <5> QED BY <5>2 DEF n
      <4> QED BY <1>1, <4>1, <4>2, <4>3
    <3>3. Growth(Tries + 1) = 3 * Growth(Tries)
      BY <3>2, GrowthStep
    <3> DEFINE g == Growth(Tries)
               c == config.backoff
    <3>4. c \in Nat /\ g \in Nat /\ backoff = c * g
      BY <1>1
    <3> HIDE DEF g, c
    <3>5. (c * g) * 3 = c * (3 * g) /\ 3 * g \in Nat
      BY <3>4
    <3>6. Growth(Tries)' = 3 * g /\ backoff' = c * (3 * g) /\ config.backoff' = c
      <4>1. Growth(Tries)' = Growth(Tries + 1)
        BY <3>2 DEF Growth
      <4> QED BY <2>1, <3>1, <3>3, <3>4, <3>5, <4>1 DEF g, c
    <3> QED BY <3>5, <3>6 DEF Grown
  <2>3. CASE ~(attempt < config.attempts)
    <3>1. backoff' = backoff
      BY <1>3, <2>3 DEF Generic
    <3>2. Tries' = Tries
      BY <1>1, <2>1, <2>3 DEF Tries, Least
    <3> QED BY <1>1, <2>1, <3>1, <3>2 DEF Grown, Growth
  <2> QED BY <2>2, <2>3
<1> QED BY <1>2, <1>3 DEF RetryNext, Invoke, Classify, BusyGivesUp, BusyWaits, Done, retryVars, loopVars

\* Every step charges what it must and no more.
LEMMA StepRetry == RetryInv /\ [RetryNext]_loopVars => RetryInv'
<1> SUFFICES ASSUME RetryInv, [RetryNext]_loopVars PROVE RetryInv'
  OBVIOUS
<1>0. Grown'
  BY StepGrown DEF RetryInv
<1> USE DEF RetryInv, Charging, FailCode, Returns
<1>1. /\ config \in Configs
      /\ config.attempts \in Nat \ {0} /\ config.busyAttempts \in Nat \ {0}
      /\ config.backoff \in Nat /\ config.busyBackoff \in Nat
      /\ config.busySleep \in Nat /\ config.busyWait \in Nat
  BY ConfigTypes
<1>2. CASE Invoke
  <2>1. wasBusy' \in BOOLEAN /\ (wasBusy => wasBusy') /\ (last' = "busy" => wasBusy')
    BY <1>2 DEF Invoke
  <2>2. /\ phase = "invoke" /\ last' \in {"ok", "busy", "fail"} /\ invocations' = invocations + 1
        /\ phase' = IF last' = "ok" THEN "done" ELSE "classify"
        /\ ret' = IF last' = "ok" THEN 0 ELSE FailCode
        /\ UNCHANGED <<config, attempt, backoff, slept, busyAttempts, busyBackoff, busyElapsed>>
    BY <1>2 DEF Invoke, retryVars, busyVars
  <2>3. RetryTypeOK'
    BY <2>1, <2>2 DEF RetryTypeOK
  <2>4. (Solvent /\ Charged)'
    BY <1>1, <2>2, RetryAssumption DEF RetryTypeOK, Solvent, Charged
  <2>5. Told'
    BY <1>1, <2>1, <2>2, RetryAssumption DEF RetryTypeOK, Solvent, Told
  <2>6. Waited'
    BY <1>1, <2>1, <2>2 DEF RetryTypeOK, Waited
  <2> QED BY <1>0, <2>3, <2>4, <2>5, <2>6
<1>3. CASE Classify
  <2>1. phase' \in {"busy", "generic"} /\ (phase' = "busy" => wasBusy)
        /\ UNCHANGED <<config, attempt, backoff, slept, busyAttempts, busyBackoff, busyElapsed,
                       last, wasBusy, ret, invocations>>
    BY <1>3 DEF Classify, retryVars, busyVars
  <2>2. RetryTypeOK'
    BY <2>1 DEF RetryTypeOK
  <2>3. (Solvent /\ Charged /\ Told /\ Waited)'
    BY <1>3, <2>1 DEF Classify, Solvent, Charged, Told, Waited
  <2> QED BY <1>0, <2>2, <2>3
<1>4. CASE BusyGivesUp
  <2>1. RetryTypeOK'
    BY <1>1, <1>4 DEF BusyGivesUp, RetryTypeOK, Solvent, retryVars
  <2>2. BusyExhausted(busyAttempts)'
    BY <1>4 DEF BusyGivesUp, BusyExhausted, retryVars
  <2>3. (Solvent /\ Charged /\ Waited)'
    BY <1>1, <1>4, RetryAssumption DEF BusyGivesUp, RetryTypeOK, Solvent, Charged, Told, Waited, retryVars
  <2>4. Told'
    BY <1>1, <1>4, <2>2 DEF BusyGivesUp, RetryTypeOK, Solvent, Told, retryVars
  <2> QED BY <1>0, <2>1, <2>3, <2>4
<1>5. CASE BusyWaits
  <2>1. BusySleep \in Nat /\ BusySleep <= config.busySleep
    BY <1>1 DEF BusySleep, Least, RetryTypeOK
  <2>2. Least(busyBackoff * 2, config.busySleep) \in Nat
    BY <1>1 DEF Least, RetryTypeOK
  <2>3. RetryTypeOK'
    BY <1>1, <1>5, <2>1, <2>2 DEF BusyWaits, RetryTypeOK, Solvent, retryVars
  <2>4. busyAttempts + 1 < config.busyAttempts
        /\ (config.busyWait > 0 => busyElapsed < config.busyWait)
    BY <1>1, <1>5 DEF BusyWaits, BusyExhausted, RetryTypeOK
  <2>5. (Solvent /\ Charged /\ Told)'
    BY <1>1, <1>5, <2>4 DEF BusyWaits, RetryTypeOK, Solvent, Charged, Told, retryVars
  <2>6. wasBusy /\ wasBusy'
    BY <1>5 DEF BusyWaits, Told
  <2>7. Waited'
    BY <1>1, <1>5, <2>1, <2>4, <2>6 DEF BusyWaits, RetryTypeOK, Waited, retryVars
  <2> QED BY <1>0, <2>3, <2>5, <2>7
<1>6. CASE Generic
  <2>1. /\ attempt' = attempt + 1 /\ phase = "generic"
        /\ phase' = IF attempt + 1 > config.attempts THEN "done" ELSE "invoke"
        /\ UNCHANGED <<config, busyAttempts, busyBackoff, busyElapsed, last, wasBusy, ret, invocations>>
    BY <1>6 DEF Generic, busyVars
  <2>2. \/ slept' = slept + backoff /\ backoff' = backoff * 3
        \/ UNCHANGED <<slept, backoff>>
    BY <1>6 DEF Generic
  <2>3. RetryTypeOK'
    BY <1>1, <2>1, <2>2 DEF RetryTypeOK, Solvent
  <2>4. (Solvent /\ Charged /\ Told)'
    BY <1>1, <2>1, RetryAssumption DEF RetryTypeOK, Solvent, Charged, Told
  <2>5. Waited'
    BY <1>1, <2>1, <2>2 DEF RetryTypeOK, Waited
  <2> QED BY <1>0, <2>3, <2>4, <2>5
<1>7. CASE Done \/ UNCHANGED loopVars
  BY <1>7, <1>0 DEF Done, loopVars, RetryTypeOK, Solvent, Charged, Told, Waited, BusyExhausted
<1> QED BY <1>2, <1>3, <1>4, <1>5, <1>6, <1>7 DEF RetryNext

\* The books of the retry loop balance in every reachable state.
THEOREM BooksBalance == RetrySpec => []RetryInv
BY InitRetry, StepRetry, PTL DEF RetrySpec

\* The return code is 0 exactly after a success, BusyCode only when oracle was
\* busy at some time and the busy budget is gone, and a generic failure only
\* after every generic attempt; without a busy invocation nothing is waited for,
\* for every configuration.
THEOREM ReturnsHonestly == RetrySpec => []ReturnHonest
<1>1. RetryInv => ReturnHonest
  BY RetryAssumption DEF RetryInv, Told, Waited, ReturnHonest, FailCode
<1> QED BY <1>1, BooksBalance, PTL

\* Every failed invocation is charged to exactly one budget, oracle is invoked
\* at most once per generic attempt plus once per tolerated busy failure, the
\* wait on a busy oracle stays within its budget and one sleep, and the generic
\* sleeps are b + 3b + 9b + ..., for every configuration.
THEOREM BudgetsHold == RetrySpec => []WithinBudgets
<1>1. RetryInv => WithinBudgets
  <2> SUFFICES ASSUME RetryInv PROVE WithinBudgets
    OBVIOUS
  <2>1. /\ phase \in {"invoke", "done"} =>
              invocations = (attempt - 1) + busyAttempts + (IF last = "ok" THEN 1 ELSE 0)
        /\ invocations <= config.attempts + config.busyAttempts - 1
        /\ config.busyWait > 0 /\ busyElapsed > 0 =>
              busyElapsed < config.busyWait + config.busySleep
    BY ConfigTypes, RetryAssumption
       DEF RetryInv, RetryTypeOK, Solvent, Charged, Told, Waited, Charging, FailCode
  <2>2. /\ 2 * slept = backoff - config.backoff /\ backoff = config.backoff * Growth(Tries)
        /\ Growth(Tries) \in Nat /\ config.backoff \in Nat
    BY ConfigTypes DEF RetryInv, Waited, Grown
  <2>3. 2 * slept = config.backoff * (Growth(Tries) - 1)
    <3> DEFINE g == Growth(Tries)
               c == config.backoff
    <3>1. c \in Nat /\ g \in Nat /\ 2 * slept = c * g - c
      BY <2>2
    <3> HIDE DEF g, c
    <3>2. c * g - c = c * (g - 1)
      BY <3>1
    <3>3. 2 * slept = c * (g - 1)
      BY <3>1, <3>2
    <3> QED BY <3>3 DEF g, c
  <2> QED BY <2>1, <2>3 DEF WithinBudgets, Tries
<1> QED BY <1>1, BooksBalance, PTL
=============================================================================
