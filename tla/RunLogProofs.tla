---------------------------- MODULE RunLogProofs ----------------------------
(***************************************************************************)
(* Proofs about RunLog, for every set of recorders and harnesses, every    *)
(* list of commands and any number of events.                              *)
(*                                                                         *)
(* A torn append may cost an event later: the next append runs into its    *)
(* line.  So what is counted against the tears is the events that are lost *)
(* and, as long as the last line is cut, the one that will be.             *)
(***************************************************************************)
EXTENDS RunLog, FiniteSetTheorems, SequenceTheorems, WellFoundedInduction, TLAPS

Lines == EventSet \cup {Garbage}
Busy == {q \in Recorders : rec[q] # Nothing}

\* The events that are in the file or were, whether or not anybody was told.
Written == Range(recorded) \cup {rec[r] : r \in Busy}
Lost == Written \ Range(Events)
Issued == Len(recorded) + tears + Cardinality(Busy)

\* No event is issued twice, and each costs a tear of its own.
Survives ==
    /\ log = NoFile => recorded = <<>> /\ Busy = {}
    /\ kind = "planning" => \A e \in Written \cup Range(Events) : e.n < Issued
    /\ cut => log # NoFile /\ log # <<>> /\ log[Len(log)] \notin Written
    /\ IsFiniteSet(Lost) /\ Cardinality(Lost) + (IF cut THEN 1 ELSE 0) <= tears

\* Recorders and harnesses never share a directory.
Apart ==
    /\ kind = "planning" => (\A h \in Harnesses : har[h].pc = "idle") /\ summary = NoFile
    /\ kind = "e2e" => recorded = <<>> /\ tears = 0 /\ ~cut /\ Busy = {}

With(events, outcome) == {e.stage : e \in {x \in Range(events) : x.outcome = outcome}}
Complete(h) == Len(har[h].done) = Len(Tools)

\* What a harness has to show for the commands it has run.
Owned(h) ==
    /\ har[h].pc = "idle" => log = NoFile /\ har[h].done = <<>> /\ report = NoFile
    /\ har[h].pc = "write_events" => log = <<>>
    /\ log = NoFile \/ IsPrefix(log, LogOf(har[h].done))
    /\ har[h].pc \in {"summarise", "ended"} => Complete(h) /\ log = LogOf(har[h].done)
    /\ summary # NoFile <=> har[h].pc = "ended"
    /\ summary # NoFile /\ summary.status = "pass" => Failures(har[h].done) = {}
    /\ report # NoFile =>
         /\ report.failed \subseteq With(LogOf(har[h].done), "failed")
         /\ report.completed \subseteq With(LogOf(har[h].done), "success")
    /\ Complete(h) /\ Last(har[h].done).result = "good" => report # NoFile

Bundled ==
    kind = "e2e" =>
        \A h \in Harnesses : (\A g \in Harnesses \ {h} : har[g].pc = "idle") => Owned(h)

LogInv == Survives /\ Apart /\ Bundled
-----------------------------------------------------------------------------
(* Reading a log. *)

\* Each number up to the size of a finite set of indices is the rank of one of
\* them, and of one only.
LEMMA Ranks ==
    ASSUME NEW n \in Nat, NEW I \in SUBSET (1..n)
    PROVE  /\ Cardinality(I) \in Nat
           /\ \A i \in I : Cardinality({j \in I : j <= i}) \in 1..Cardinality(I)
           /\ \A i, k \in I : Cardinality({j \in I : j <= i}) = Cardinality({j \in I : j <= k}) => i = k
           /\ \A r \in 1..Cardinality(I) : \E i \in I : Cardinality({j \in I : j <= i}) = r
<1> DEFINE upto(i) == {j \in I : j <= i}
<1>1. IsFiniteSet(I) /\ Cardinality(I) \in Nat
  <2>1. IsFiniteSet(1..n)
    BY FS_Interval
  <2> QED BY <2>1, FS_Subset, FS_CardinalityType
<1>2. \A i \in I : IsFiniteSet(upto(i)) /\ Cardinality(upto(i)) \in 1..Cardinality(I)
  <2> SUFFICES ASSUME NEW i \in I
               PROVE  IsFiniteSet(upto(i)) /\ Cardinality(upto(i)) \in 1..Cardinality(I)
    OBVIOUS
  <2>1. upto(i) \in SUBSET I /\ i \in upto(i)
    OBVIOUS
  <2>2. /\ IsFiniteSet(upto(i)) /\ Cardinality(upto(i)) <= Cardinality(I)
        /\ Cardinality(upto(i)) \in Nat
    BY <1>1, <2>1, FS_Subset, FS_CardinalityType
  <2>3. Cardinality(upto(i)) # 0
    BY <2>1, <2>2, FS_EmptySet
  <2> QED BY <1>1, <2>2, <2>3
<1>3. ASSUME NEW i \in I, NEW k \in I, i < k PROVE Cardinality(upto(i)) # Cardinality(upto(k))
  <2>1. upto(i) \in SUBSET upto(k) /\ k \in upto(k) /\ k \notin upto(i)
    <3>1. \A j \in I : j \in Int
      OBVIOUS
    <3>2. \A j \in I : j <= i => j <= k
      BY <1>3, <3>1
    <3>3. k <= k /\ ~(k <= i)
      BY <1>3, <3>1
    <3> QED BY <3>2, <3>3
  <2>2. IsFiniteSet(upto(k)) /\ upto(i) # upto(k)
    BY <1>2, <2>1
  <2> HIDE DEF upto
  <2>3. Cardinality(upto(k)) = Cardinality(upto(i)) => upto(k) = upto(i)
    BY <2>1, <2>2, FS_Subset
  <2> QED BY <2>2, <2>3
<1>4. \A i, k \in I : Cardinality(upto(i)) = Cardinality(upto(k)) => i = k
  <2> HIDE DEF upto
  <2> QED BY <1>3
<1> DEFINE rank == [i \in I |-> Cardinality(upto(i))]
<1>5. rank \in Injection(I, 1..Cardinality(I))
  <2> HIDE DEF upto
  <2> QED BY <1>2, <1>4 DEF Injection, IsInjective
<1>6. rank \in Surjection(I, 1..Cardinality(I))
  <2>1. IsFiniteSet(1..Cardinality(I)) /\ Cardinality(1..Cardinality(I)) = Cardinality(I)
    BY <1>1, FS_Interval
  <2> HIDE DEF rank
  <2> QED BY <1>5, <2>1, FS_Injection
<1>7. \A r \in 1..Cardinality(I) : \E i \in I : Cardinality(upto(i)) = r
  <2> HIDE DEF upto
  <2> QED BY <1>6 DEF Surjection
<1> QED BY <1>1, <1>2, <1>4, <1>7

\* A reader sees the lines that parse, and those only.
LEMMA ReadableLines ==
    ASSUME NEW lines \in Seq(Lines)
    PROVE  /\ Readable(lines) \in Seq(EventSet)
           /\ Range(Readable(lines)) = {lines[i] : i \in {j \in DOMAIN lines : lines[j] # Garbage}}
<1> DEFINE I == {i \in DOMAIN lines : lines[i] # Garbage}
           rank(i) == Cardinality({j \in I : j <= i})
           at(r) == CHOOSE i \in I : rank(i) = r
           n == Cardinality(I)
<1>1. /\ Len(lines) \in Nat /\ DOMAIN lines = 1..Len(lines) /\ I \in SUBSET (1..Len(lines))
      /\ \A i \in I : lines[i] \in EventSet
  BY DEF Lines
<1>2. /\ n \in Nat /\ \A i \in I : rank(i) \in 1..n
      /\ \A i, k \in I : rank(i) = rank(k) => i = k
      /\ \A r \in 1..n : \E i \in I : rank(i) = r
  BY <1>1, Ranks
<1>3. Readable(lines) = [r \in 1..n |-> lines[at(r)]]
  BY DEF Readable
<1> HIDE DEF rank, n
<1>4. \A r \in 1..n : at(r) \in I /\ rank(at(r)) = r
  BY <1>2
<1>5. \A i \in I : at(rank(i)) = i
  BY <1>2, <1>4
<1> HIDE DEF at
<1>6. Readable(lines) \in Seq(EventSet) /\ DOMAIN Readable(lines) = 1..n
  <2>1. \A r \in 1..n : lines[at(r)] \in EventSet
    <3> HIDE DEF I
    <3> QED BY <1>1, <1>4
  <2> HIDE DEF I
  <2> QED BY <1>2, <1>3, <2>1
<1>7. Range(Readable(lines)) = {lines[i] : i \in I}
  <2> HIDE DEF I
  <2> QED BY <1>2, <1>3, <1>4, <1>5, <1>6 DEF Range
<1> QED BY <1>6, <1>7

\* The events of the log, and which they are.
LEMMA EventsFacts ==
    ASSUME TypeOK
    PROVE  /\ Events \in Seq(EventSet)
           /\ log = NoFile => Range(Events) = {}
           /\ log # NoFile => Range(Events) = {log[i] : i \in {j \in DOMAIN log : log[j] # Garbage}}
<1>1. CASE log = NoFile
  <2>1. Events = <<>> /\ <<>> \in Seq(EventSet)
    BY <1>1 DEF Events
  <2> QED BY <1>1, <2>1 DEF Range
<1>2. CASE log # NoFile
  <2>1. log \in Seq(Lines)
    BY <1>2 DEF TypeOK, Lines
  <2> QED BY <1>2, <2>1, ReadableLines DEF Events
<1> QED BY <1>1, <1>2

\* A status is one of the stages that are recorded.
LEMMA StatusType ==
    ASSUME NEW events \in Seq(EventSet)
    PROVE  /\ events # <<>> => /\ RunStatus(events) \in Statuses
                               /\ RunStatus(events) # Nothing /\ RunStatus(events) # NoFile
                               /\ RunStatus(events).failed = With(events, "failed")
                               /\ RunStatus(events).completed = With(events, "success")
                               /\ RunStatus(events).current = Last(events).stage
           /\ events = <<>> => RunStatus(events) = Nothing
<1>1. CASE events # <<>>
  <2>1. /\ Len(events) \in Nat \ {0} /\ DOMAIN events = 1..Len(events)
        /\ \A i \in 1..Len(events) : events[i] \in EventSet
    BY <1>1
  <2>2. Last(events) \in EventSet
    BY <2>1 DEF Last
  <2>3. \A o : With(events, o) \in SUBSET Recorded
    BY <2>1 DEF With, Range, EventSet
  <2>4. RunStatus(events) = [current |-> Last(events).stage,
                             completed |-> With(events, "success"),
                             failed |-> With(events, "failed")]
    BY <1>1 DEF RunStatus, With
  <2>5. RunStatus(events) \in Statuses
    BY <2>2, <2>3, <2>4 DEF Statuses, EventSet
  <2> QED BY <1>1, <2>4, <2>5, MarkersAreApart
<1>2. CASE events = <<>>
  BY <1>2 DEF RunStatus
<1> QED BY <1>1, <1>2
-----------------------------------------------------------------------------
(* Types. *)

\* A harness's log is made of events, one of each command.
LEMMA LogOfType ==
    ASSUME NEW commands \in Seq(Commands), Len(commands) <= Len(Tools)
    PROVE  /\ LogOf(commands) \in Seq(EventSet) /\ Len(LogOf(commands)) = Len(commands)
           /\ DOMAIN LogOf(commands) = 1..Len(commands)
           /\ \A i \in 1..Len(commands) :
                LogOf(commands)[i] = Event(i, StageOf(i, commands[i]),
                                           IF Succeeded(commands[i]) THEN "success" ELSE "failed")
<1>1. /\ Len(commands) \in Nat /\ DOMAIN commands = 1..Len(commands)
      /\ \A i \in 1..Len(commands) : commands[i] \in Commands
      /\ DOMAIN Unnamed = 1..Len(Tools) /\ Len(Tools) \in Nat
  BY MatrixIsList
<1>2. \A i \in 1..Len(commands) : Event(i, StageOf(i, commands[i]),
             IF Succeeded(commands[i]) THEN "success" ELSE "failed") \in EventSet
  <2> SUFFICES ASSUME NEW i \in 1..Len(commands), NEW o \in Outcomes
               PROVE  Event(i, StageOf(i, commands[i]), o) \in EventSet
    BY DEF Outcomes
  <2>1. i \in Nat /\ commands[i].tool \in Range(Tools)
    BY <1>1 DEF Commands
  <2>2. i \in DOMAIN Unnamed
    BY <1>1
  <2>3. Unnamed[i] \in Range(Unnamed)
    BY <2>2 DEF Range
  <2>4. StageOf(i, commands[i]) \in Range(Tools) \cup Range(Unnamed)
    BY <2>1, <2>3 DEF StageOf
  <2> QED BY <2>1, <2>4 DEF Event, EventSet, Recorded
<1>3. LogOf(commands) = [i \in 1..Len(commands) |-> Event(i, StageOf(i, commands[i]),
             IF Succeeded(commands[i]) THEN "success" ELSE "failed")]
  BY <1>1 DEF LogOf
<1> HIDE DEF LogOf, Event, Succeeded, StageOf
<1> QED BY <1>1, <1>2, <1>3

\* The directory is empty at first.
LEMMA InitTypes == Init => TypeOK
<1> SUFFICES ASSUME Init PROVE TypeOK
  OBVIOUS
<1>1. <<>> \in Seq(EventSet) /\ <<>> \in Seq(Commands)
  OBVIOUS
<1>2. Len(<<>>) <= Len(Tools)
  BY MatrixIsList
<1> QED BY <1>1, <1>2 DEF Init, TypeOK

\* A line more, or the last one spoilt.
LEMMA AppendTypes ==
    ASSUME TypeOK, NEW line \in Lines
    PROVE  /\ OnFile \in Seq(EventSet \cup {Garbage})
           /\ WithLine(line) \in Seq(EventSet \cup {Garbage})
<1> DEFINE S == EventSet \cup {Garbage}
           n == Len(OnFile)
<1>1. OnFile \in Seq(S)
  BY DEF TypeOK, OnFile
<1>2. Garbage \in S /\ line \in S
  BY DEF Lines
<1> HIDE DEF S
<1>3. CASE cut
  <2>1. n \in Nat /\ WithLine(line) = [OnFile EXCEPT ![n] = Garbage]
    BY <1>1, <1>3 DEF WithLine
  <2>2. CASE n = 0
    <3>1. OnFile \in [1..0 -> S]
      BY <1>1, <2>2
    <3>2. WithLine(line) \in [1..0 -> S]
      BY <1>2, <2>1, <3>1
    <3> QED BY <1>1, <3>2, 0 \in Nat, SeqDef, Zenon DEF S
  <2>3. CASE n # 0
    <3>1. n \in 1..Len(OnFile)
      BY <2>1, <2>3
    <3>2. [OnFile EXCEPT ![n] = Garbage] \in Seq(S)
      BY <1>1, <1>2, <3>1, ExceptSeq
    <3> QED BY <1>1, <2>1, <3>2 DEF S
  <2> QED BY <2>2, <2>3
<1>4. CASE ~cut
  <2>1. WithLine(line) = Append(OnFile, line)
    BY <1>4 DEF WithLine
  <2>2. WithLine(line) \in Seq(S)
    BY <1>1, <1>2, <2>1
  <2> QED BY <1>1, <2>2 DEF S
<1> QED BY <1>3, <1>4

\* A log written over what was on file, and over an empty file.
LEMMA OverTypes ==
    ASSUME TypeOK, NEW mine \in Seq(EventSet), NEW rest \in Leftovers(mine)
    PROVE  mine \o rest \in Seq(EventSet \cup {Garbage})
<1> DEFINE S == EventSet \cup {Garbage}
           n == Len(mine)
           beyond == SubSeq(OnFile, n + 1, Len(OnFile))
<1>1. OnFile \in Seq(S) /\ mine \in Seq(S) /\ n \in Nat
  BY DEF TypeOK, OnFile
<1>2. Garbage \in S
  OBVIOUS
<1> HIDE DEF S
<1>3. beyond \in Seq(S)
  BY <1>1
<1> HIDE DEF beyond
<1>4. rest \in {<<>>, beyond, <<Garbage>> \o beyond}
  BY DEF Leftovers, beyond
<1>5. <<>> \in Seq(S) /\ <<Garbage>> \in Seq(S)
  BY <1>2
<1>6. <<Garbage>> \o beyond \in Seq(S)
  BY <1>3, <1>5
<1>7. rest \in Seq(S)
  BY <1>3, <1>4, <1>5, <1>6, Zenon
<1>8. mine \o rest \in Seq(S)
  BY <1>1, <1>7
<1> QED BY <1>8 DEF S

\* What is written into an empty log is the log.
LEMMA OverNothing ==
    ASSUME log = <<>>, NEW mine \in Seq(EventSet), NEW rest \in Leftovers(mine)
    PROVE  mine \o rest = mine
<1>1. OnFile = <<>>
  BY DEF OnFile
<1>2. rest = <<>>
  BY <1>1 DEF Leftovers
<1> QED BY <1>2

\* What a recorder writes is an event, and its number is the next one.
LEMMA NextIsEvent ==
    ASSUME TypeOK, NEW stage \in Stages \cup {"run_lifecycle"}, NEW outcome \in Outcomes
    PROVE  NextEvent(stage, outcome) \in EventSet /\ NextEvent(stage, outcome).n = Issued
           /\ Issued \in Nat
<1>1. IsFiniteSet(Busy)
  BY FewRecorders, FS_Subset DEF Busy
<1>2. Len(recorded) + tears + Cardinality(Busy) \in Nat
  <2>1. Len(recorded) \in Nat /\ tears \in Nat
    BY DEF TypeOK
  <2>2. Cardinality(Busy) \in Nat
    BY <1>1, FS_CardinalityType
  <2> QED BY <2>1, <2>2
<1>3. NextEvent(stage, outcome) = [n |-> Issued, stage |-> stage, outcome |-> outcome]
  BY DEF NextEvent, Event, Issued, Busy
<1> QED BY <1>2, <1>3 DEF Issued, EventSet, Recorded

\* Every step keeps the types.
LEMMA StepTypes == TypeOK /\ [Next]_vars => TypeOK'
<1> SUFFICES ASSUME TypeOK, [Next]_vars PROVE TypeOK'
  OBVIOUS
<1>1. CASE CreateLayout
  <2>1. <<>> \in Seq(EventSet \cup {Garbage})
    OBVIOUS
  <2> QED BY <1>1, <2>1 DEF CreateLayout, TypeOK
<1>2. ASSUME NEW r \in Recorders, NEW stage \in Stages \cup {"run_lifecycle"}, NEW outcome \in Outcomes,
             RecordEvent(r, stage, outcome)
      PROVE  TypeOK'
  <2>1. NextEvent(stage, outcome) \in Lines /\ NextEvent(stage, outcome) \in EventSet
    BY NextIsEvent DEF Lines
  <2>2. log' \in Seq(EventSet \cup {Garbage})
    BY <1>2, <2>1, AppendTypes DEF RecordEvent, Appended
  <2> QED BY <1>2, <2>1, <2>2 DEF RecordEvent, Appended, TypeOK
<1>3. ASSUME NEW r \in Recorders, NEW stage \in Stages \cup {"run_lifecycle"}, NEW outcome \in Outcomes,
             TornEvent(r, stage, outcome)
      PROVE  TypeOK'
  <2>1. NextEvent(stage, outcome) \in Lines /\ Garbage \in Lines
    BY NextIsEvent DEF Lines
  <2>2. log' \in Seq(EventSet \cup {Garbage})
    BY <1>3, <2>1, AppendTypes DEF TornEvent
  <2>3. tears' \in Nat /\ cut' \in BOOLEAN
    BY <1>3 DEF TornEvent, TypeOK
  <2>4. UNCHANGED <<kind, report, recorded, rec, har, summary>>
    BY <1>3 DEF TornEvent
  <2> QED BY <2>2, <2>3, <2>4 DEF TypeOK
<1>4. ASSUME NEW r \in Recorders, Confirm(r) PROVE TypeOK'
  <2>1. recorded' \in Seq(EventSet)
    BY <1>4 DEF Confirm, TypeOK
  <2> QED BY <1>4, <2>1 DEF Confirm, TypeOK
<1>5. CASE Report
  <2>1. report' \in Statuses
    BY <1>5, EventsFacts, StatusType DEF Report, WriteReport, OpsSucceed
  <2> QED BY <1>5, <2>1 DEF Report, TypeOK
<1>6. ASSUME NEW h \in Harnesses,
             StartProfile(h) \/ EmptyLog(h) \/ WriteEvents(h) \/ RunCommand(h) \/ Summarise(h) \/ Abort(h)
      PROVE  TypeOK'
  <2>1. har[h].done \in Seq(Commands)
    BY DEF TypeOK
  <2>2. CASE StartProfile(h) \/ Abort(h)
    BY <2>2 DEF StartProfile, Abort, HarnessGoes, TypeOK
  <2>3. CASE EmptyLog(h)
    <3>1. <<>> \in Seq(EventSet \cup {Garbage})
      OBVIOUS
    <3> QED BY <2>3, <3>1 DEF EmptyLog, HarnessGoes, TypeOK
  <2>4. CASE WriteEvents(h)
    <3>1. LogOf(har[h].done) \in Seq(EventSet)
      BY <2>1, LogOfType DEF TypeOK
    <3>2. log' \in Seq(EventSet \cup {Garbage})
      BY <2>4, <3>1, OverTypes DEF WriteEvents, WritesOver
    <3> QED BY <2>4, <3>2 DEF WriteEvents, WritesOver, HarnessGoes, TypeOK
  <2>5. CASE RunCommand(h)
    <3>1. PICK result \in Results :
            har' = [har EXCEPT ![h].done = Append(@, Ran(NextTool(h), result))]
      BY <2>5 DEF RunCommand, Results
    <3>2. report' \in Statuses \cup {NoFile}
      BY <2>5, EventsFacts, StatusType DEF RunCommand, OpsSucceed, TypeOK
    <3>3. Len(har[h].done) < Len(Tools) /\ NextTool(h) \in Range(Tools)
      <4>1. Len(har[h].done) \in Nat /\ Len(Tools) \in Nat /\ DOMAIN Tools = 1..Len(Tools)
        BY <2>1, MatrixIsList
      <4>2. Len(har[h].done) <= Len(Tools) /\ Len(har[h].done) # Len(Tools)
        BY <2>5 DEF RunCommand, WantsLog, TypeOK
      <4> QED BY <4>1, <4>2 DEF NextTool, Range
    <3>4. Append(har[h].done, Ran(NextTool(h), result)) \in Seq(Commands)
          /\ Len(Append(har[h].done, Ran(NextTool(h), result))) <= Len(Tools)
      <4>1. Ran(NextTool(h), result) \in Commands
        BY <3>3 DEF Ran, Commands
      <4> QED BY <2>1, <3>3, <4>1, MatrixIsList
    <3>5. har' \in [Harnesses -> [pc : {"idle", "run", "write_events", "summarise", "ended", "aborted"},
                                 done : Seq(Commands)]]
          /\ \A g \in Harnesses : Len(har'[g].done) <= Len(Tools)
      BY <3>1, <3>4 DEF TypeOK
    <3> QED BY <2>5, <3>2, <3>5 DEF RunCommand, TypeOK
  <2>6. CASE Summarise(h)
    <3>1. summary' \in Summaries
      BY <2>6 DEF Summarise, Summaries
    <3> QED BY <2>6, <3>1 DEF Summarise, HarnessGoes, TypeOK
  <2> QED BY <1>6, <2>2, <2>3, <2>4, <2>5, <2>6
<1>7. CASE UNCHANGED vars
  BY <1>7 DEF vars, TypeOK
<1> QED BY <1>1, <1>2, <1>3, <1>4, <1>5, <1>6, <1>7 DEF Next
-----------------------------------------------------------------------------
(* Two readers of one log. *)

\* Where the last event of a stage is.
LastOf(events, s) ==
    CHOOSE i \in DOMAIN events :
        events[i].stage = s /\ \A j \in (i + 1)..Len(events) : events[j].stage # s

\* A stage that has events has a last one.
LEMMA LastOfStage ==
    ASSUME NEW events \in Seq(EventSet), NEW s \in {e.stage : e \in Range(events)}
    PROVE  /\ LastOf(events, s) \in 1..Len(events) /\ events[LastOf(events, s)].stage = s
           /\ \A j \in (LastOf(events, s) + 1)..Len(events) : events[j].stage # s
           /\ Reconstruct(events)[s] = events[LastOf(events, s)]
<1> DEFINE n == Len(events)
           T == {k \in Nat : \E i \in 1..n : k = n - i /\ events[i].stage = s}
           good(i) == events[i].stage = s /\ \A j \in (i + 1)..n : events[j].stage # s
           at == CHOOSE i \in DOMAIN events : good(i)
<1>1. n \in Nat /\ DOMAIN events = 1..n
  OBVIOUS
<1>2. PICK i \in 1..n : events[i].stage = s
  BY <1>1 DEF Range
<1>3. T \in SUBSET Nat /\ n - i \in T
  BY <1>1, <1>2
<1>4. PICK m \in T : \A y \in T : <<y, m>> \notin OpToRel(<, Nat)
  <2> HIDE DEF T
  <2> QED BY <1>3, NatLessThanWellFounded, WFMin
<1>5. \A y \in T : ~(y < m)
  <2> HIDE DEF T
  <2> QED BY <1>3, <1>4, Zenon DEF OpToRel
<1>6. PICK l \in 1..n : m = n - l /\ events[l].stage = s
  OBVIOUS
<1>7. ASSUME NEW j \in (l + 1)..n PROVE events[j].stage # s
  <2>1. n - j \in Nat /\ n - j < m /\ j \in 1..n
    BY <1>1, <1>6
  <2> QED BY <1>5, <2>1
<1>8. \E x \in DOMAIN events : good(x)
  BY <1>1, <1>6, <1>7
<1>9. at \in DOMAIN events /\ good(at)
  <2> HIDE DEF good
  <2> QED BY <1>8
<1>10. Reconstruct(events)[s] = events[at]
  BY DEF Reconstruct
<1>11. at = LastOf(events, s)
  BY DEF LastOf
<1> HIDE DEF at
<1> QED BY <1>1, <1>9, <1>10, <1>11

\* What v18-run-ops.py lists is what run-state-machine.py reconstructs, for
\* every log there can be.
LEMMA SameStory ==
    ASSUME NEW events \in Seq(EventSet), events # <<>>
    PROVE  LET state == Reconstruct(events)
               status == RunStatus(events)
           IN /\ state[status.current] = Last(events)
              /\ \A s \in DOMAIN state :
                   /\ state[s].outcome = "success" => s \in status.completed
                   /\ state[s].outcome = "failed" => s \in status.failed
                   /\ s \in status.completed \cap status.failed =>
                        \E i, j \in DOMAIN events : i < j /\ events[i].stage = s /\ events[j] = state[s]
<1> DEFINE n == Len(events)
           state == Reconstruct(events)
           status == RunStatus(events)
           at(s) == LastOf(events, s)
<1>1. n \in Nat \ {0} /\ DOMAIN events = 1..n
  OBVIOUS
<1>2. DOMAIN state = {e.stage : e \in Range(events)}
  BY DEF Reconstruct
<1>3. ASSUME NEW s \in DOMAIN state
      PROVE  /\ at(s) \in 1..n /\ events[at(s)].stage = s
             /\ \A j \in (at(s) + 1)..n : events[j].stage # s
             /\ state[s] = events[at(s)]
  <2>1. s \in {e.stage : e \in Range(events)}
    BY <1>2, <1>3
  <2> HIDE DEF state
  <2>2. /\ at(s) \in 1..n /\ events[at(s)].stage = s
        /\ \A j \in (at(s) + 1)..n : events[j].stage # s
        /\ Reconstruct(events)[s] = events[at(s)]
    BY <2>1, LastOfStage
  <2> QED BY <2>2 DEF state
<1>4. /\ status.current = events[n].stage /\ Last(events) = events[n]
      /\ status.failed = With(events, "failed") /\ status.completed = With(events, "success")
  BY StatusType DEF Last
<1> HIDE DEF at, state, status, n
<1>5. state[status.current] = Last(events)
  <2>1. status.current \in DOMAIN state
    BY <1>1, <1>2, <1>4 DEF Range
  <2>2. at(status.current) = n
    <3> DEFINE a == at(status.current)
    <3>1. a \in 1..n /\ \A j \in (a + 1)..n : events[j].stage # status.current
      BY <1>3, <2>1
    <3> HIDE DEF a
    <3>2. a < n => n \in (a + 1)..n
      BY <1>1, <3>1
    <3>3. a = n
      BY <1>1, <1>4, <3>1, <3>2
    <3> QED BY <3>3 DEF a
  <2> QED BY <1>3, <1>4, <2>1, <2>2
<1>6. ASSUME NEW s \in DOMAIN state
      PROVE  /\ state[s].outcome = "success" => s \in status.completed
             /\ state[s].outcome = "failed" => s \in status.failed
             /\ s \in status.completed \cap status.failed =>
                  \E i, j \in DOMAIN events : i < j /\ events[i].stage = s /\ events[j] = state[s]
  <2>1. events[at(s)] \in Range(events)
    BY <1>1, <1>3 DEF Range
  <2>2. /\ state[s].outcome = "success" => s \in status.completed
        /\ state[s].outcome = "failed" => s \in status.failed
    BY <1>3, <1>4, <2>1 DEF With
  <2>3. ASSUME s \in status.completed, s \in status.failed
        PROVE  \E i, j \in DOMAIN events : i < j /\ events[i].stage = s /\ events[j] = state[s]
    <3>1. PICK i \in 1..n : events[i].stage = s /\ events[i].outcome = "success"
      BY <1>1, <1>4, <2>3 DEF With, Range
    <3>2. PICK k \in 1..n : events[k].stage = s /\ events[k].outcome = "failed"
      BY <1>1, <1>4, <2>3 DEF With, Range
    <3>3. PICK x \in 1..n : events[x].stage = s /\ x # at(s)
      BY <3>1, <3>2
    <3>4. x < at(s)
      <4> DEFINE a == at(s)
      <4>1. a \in 1..n /\ \A j \in (a + 1)..n : events[j].stage # s
        BY <1>3
      <4> HIDE DEF a
      <4>2. a < x => x \in (a + 1)..n
        BY <1>1, <4>1
      <4>3. x # a => x < a
        BY <1>1, <3>3, <4>1, <4>2
      <4> QED BY <3>3, <4>3 DEF a
    <3> QED BY <1>1, <1>3, <3>3, <3>4
  <2> QED BY <2>2, <2>3
<1> QED BY <1>5, <1>6 DEF state, status
-----------------------------------------------------------------------------
(* What is lost. *)

\* At first there is nothing to lose.
LEMMA InitSurvives == Init => Survives
<1> SUFFICES ASSUME Init PROVE Survives
  OBVIOUS
<1>1. Written = {} /\ Range(Events) = {} /\ Busy = {}
  BY DEF Init, Written, Busy, Range, Events
<1>2. IsFiniteSet({}) /\ Cardinality({}) = 0
  BY FS_EmptySet
<1>3. Lost = {}
  BY <1>1 DEF Lost
<1> QED BY <1>1, <1>2, <1>3 DEF Init, Survives

\* Nothing more is lost than was: enough where nothing more is torn and the
\* number of the next event does not fall.
LEMMA SurvivesKept ==
    ASSUME TypeOK, TypeOK', Survives, kind' = kind, UNCHANGED <<log, cut, tears>>,
           log # NoFile \/ UNCHANGED <<recorded, rec>>,
           Written' = Written, Issued' = Issued
    PROVE  Survives'
<1>1. Events' = Events
  BY DEF Events
<1>2. Lost' = Lost
  BY <1>1 DEF Lost
<1>3. log = NoFile => Busy' = Busy
  BY DEF Busy, Survives
<1> QED BY <1>1, <1>2, <1>3 DEF Survives

\* The file is created without an event.
LEMMA CreateSurvives == ASSUME TypeOK, TypeOK', Survives, CreateLayout PROVE Survives'
<1>1. /\ log = NoFile /\ recorded = <<>> /\ Busy = {} /\ ~cut /\ log' = <<>>
      /\ UNCHANGED <<kind, cut, recorded, tears, rec>>
  BY DEF CreateLayout, Survives
<1>2. Written' = {} /\ Busy' = {}
  BY <1>1 DEF Written, Busy, Range
<1>3. Lost' = {} /\ IsFiniteSet({}) /\ Cardinality({}) = 0
  BY <1>2, FS_EmptySet DEF Lost
<1>4. Range(Events') = {}
  <2>1. log' # NoFile /\ log' \in Seq(Lines)
    <3>1. <<>> \in Seq(EventSet \cup {Garbage})
      OBVIOUS
    <3> QED BY <1>1, <3>1, MarkersAreApart DEF Lines
  <2>2. Range(Readable(log')) = {log'[i] : i \in {j \in DOMAIN log' : log'[j] # Garbage}}
    BY <2>1, ReadableLines
  <2>3. DOMAIN log' = {}
    BY <1>1
  <2> QED BY <2>1, <2>2, <2>3 DEF Events
<1> QED BY <1>1, <1>2, <1>3, <1>4 DEF Survives, TypeOK

\* What an append does to the events that can be read: after a cut it costs
\* the last line, otherwise it adds its own.
LEMMA AppendedEvents ==
    ASSUME TypeOK, TypeOK', Survives, NEW line \in Lines, log' = WithLine(line)
    PROVE  /\ log' # NoFile /\ log' # <<>>
           /\ log'[Len(log')] = IF cut THEN Garbage ELSE line
           /\ cut => /\ Range(Events') \subseteq Range(Events)
                     /\ Written \cap Range(Events) \subseteq Range(Events')
           /\ ~cut => Range(Events') = Range(Events) \cup ({line} \ {Garbage})
<1> DEFINE n == Len(OnFile)
           lines(l) == {l[i] : i \in {j \in DOMAIN l : l[j] # Garbage}}
<1>1. OnFile \in Seq(Lines) /\ n \in Nat /\ DOMAIN OnFile = 1..n
  <2>1. OnFile \in Seq(Lines)
    BY AppendTypes DEF Lines
  <2> QED BY <2>1
<1>2. log' \in Seq(Lines) /\ log' # NoFile
  <2>1. log' \in Seq(EventSet \cup {Garbage})
    BY AppendTypes
  <2> QED BY <2>1, MarkersAreApart DEF Lines
<1>3. Range(Events) = lines(OnFile)
  <2>1. CASE log = NoFile
    BY <2>1, EventsFacts DEF OnFile
  <2>2. CASE log # NoFile
    BY <2>2, EventsFacts DEF OnFile
  <2> QED BY <2>1, <2>2
<1>4. Range(Events') = lines(log')
  <2>1. Range(Readable(log')) = lines(log')
    BY <1>2, ReadableLines
  <2> HIDE DEF lines
  <2>2. Events' = Readable(log')
    BY <1>2 DEF Events
  <2> QED BY <2>1, <2>2
<1>5. CASE cut
  <2>1. n \in 1..n /\ OnFile[n] \notin Written
    <3>1. OnFile = log /\ log # <<>> /\ log[Len(log)] \notin Written
      BY <1>5 DEF Survives, OnFile
    <3> QED BY <1>1, <3>1
  <2> DEFINE new == [OnFile EXCEPT ![n] = Garbage]
  <2>2. /\ new \in Seq(Lines) /\ Len(new) = n /\ new[n] = Garbage
        /\ \A i \in (1..n) \ {n} : new[i] = OnFile[i]
    <3> DEFINE S == Lines
    <3>1. OnFile \in Seq(S) /\ Garbage \in S
      BY <1>1 DEF Lines
    <3> HIDE DEF S
    <3>2. /\ [OnFile EXCEPT ![n] = Garbage] \in Seq(S) /\ Len([OnFile EXCEPT ![n] = Garbage]) = Len(OnFile)
          /\ \A j \in 1..Len(OnFile) : [OnFile EXCEPT ![n] = Garbage][j] = IF j = n THEN Garbage ELSE OnFile[j]
      BY <2>1, <3>1, ExceptSeq
    <3> QED BY <2>1, <3>2 DEF S
  <2>3. /\ Len(log') = n /\ DOMAIN log' = 1..n /\ log'[n] = Garbage
        /\ \A i \in (1..n) \ {n} : log'[i] = OnFile[i]
    <3>1. log' = new
      BY <1>5 DEF WithLine
    <3> HIDE DEF new
    <3>2. DOMAIN new = 1..n
      BY <2>2
    <3> QED BY <2>2, <3>1, <3>2
  <2>4. lines(log') \subseteq lines(OnFile)
    BY <1>1, <2>3
  <2>5. Written \cap lines(OnFile) \subseteq lines(log')
    BY <1>1, <2>1, <2>3
  <2>6. log' # <<>>
    <3> HIDE DEF n
    <3>1. Len(log') # 0
      BY <1>1, <2>1, <2>3
    <3> QED BY <3>1
  <2> QED BY <1>2, <1>3, <1>4, <1>5, <2>3, <2>4, <2>5, <2>6
<1>6. CASE ~cut
  <2>1. log' = Append(OnFile, line)
    BY <1>6 DEF WithLine
  <2>2. /\ Len(log') = n + 1 /\ DOMAIN log' = 1..(n + 1) /\ log'[n + 1] = line
        /\ \A i \in 1..n : log'[i] = OnFile[i]
    <3> DEFINE new == Append(OnFile, line)
    <3>1. /\ new \in Seq(Lines) /\ Len(new) = n + 1 /\ new[n + 1] = line
          /\ \A i \in 1..n : new[i] = OnFile[i]
      BY <1>1, AppendProperties
    <3>2. log' = new
      BY <2>1
    <3> HIDE DEF new
    <3> QED BY <3>1, <3>2
  <2>3. lines(log') = lines(OnFile) \cup ({line} \ {Garbage})
    <3>1. ASSUME NEW x \in lines(log') PROVE x \in lines(OnFile) \cup ({line} \ {Garbage})
      <4>1. PICK i \in 1..(n + 1) : x = log'[i] /\ log'[i] # Garbage
        BY <2>2
      <4>2. CASE i = n + 1
        <5>1. x = line /\ x # Garbage
          BY <2>2, <4>1, <4>2
        <5> QED BY <5>1
      <4>3. CASE i # n + 1
        <5>1. i \in 1..n
          BY <1>1, <4>3
        <5> QED BY <1>1, <2>2, <4>1, <5>1
      <4> QED BY <4>2, <4>3
    <3>2. lines(OnFile) \subseteq lines(log')
      <4>1. \A i \in 1..n : i \in 1..(n + 1)
        BY <1>1
      <4> QED BY <1>1, <2>2, <4>1
    <3>3. {line} \ {Garbage} \subseteq lines(log')
      <4>1. n + 1 \in 1..(n + 1)
        BY <1>1
      <4> QED BY <2>2, <4>1
    <3> HIDE DEF lines
    <3> QED BY <3>1, <3>2, <3>3
  <2>4. log' # <<>>
    BY <1>1, <2>1, AppendProperties
  <2>5. log'[Len(log')] = line
    BY <2>2
  <2> HIDE DEF lines
  <2>6. Range(Events') = Range(Events) \cup ({line} \ {Garbage})
    BY <1>3, <1>4, <2>3
  <2>7. /\ log'[Len(log')] = IF cut THEN Garbage ELSE line
        /\ cut => Range(Events') \subseteq Range(Events) /\ Written \cap Range(Events) \subseteq Range(Events')
    BY <1>6, <2>5
  <2> QED BY <1>2, <2>4, <2>6, <2>7
<1> QED BY <1>5, <1>6

\* Every event of a recorder is one, and no more have been issued than counted.
LEMMA WrittenTypes ==
    ASSUME TypeOK
    PROVE  /\ Written \subseteq EventSet /\ Garbage \notin Written
           /\ IsFiniteSet(Busy) /\ Cardinality(Busy) \in Nat /\ Issued \in Nat
<1>1. Range(recorded) \subseteq EventSet
  BY DEF TypeOK, Range
<1>2. \A r \in Busy : rec[r] \in EventSet
  BY DEF Busy, TypeOK
<1>3. Written \subseteq EventSet
  BY <1>1, <1>2 DEF Written
<1>4. IsFiniteSet(Busy)
  BY FewRecorders, FS_Subset DEF Busy
<1>5. Cardinality(Busy) \in Nat /\ Len(recorded) \in Nat /\ tears \in Nat
  BY <1>4, FS_CardinalityType DEF TypeOK
<1> QED BY <1>3, <1>4, <1>5, MarkersAreApart DEF Issued

\* An event more, on disk and not yet reported: it runs into a cut line, or
\* it is there.
LEMMA RecordSurvives ==
    ASSUME TypeOK, TypeOK', Survives, NEW r \in Recorders, NEW stage \in Stages \cup {"run_lifecycle"}, NEW outcome \in Outcomes,
           RecordEvent(r, stage, outcome)
    PROVE  Survives'
<1> DEFINE e == NextEvent(stage, outcome)
<1>1. /\ kind = "planning" /\ kind' = kind /\ rec[r] = Nothing /\ cut' = FALSE
      /\ recorded' = recorded /\ tears' = tears /\ rec' = [rec EXCEPT ![r] = e]
      /\ log' = WithLine(e)
  BY DEF RecordEvent, Appended
<1>2. e \in EventSet /\ e.n = Issued /\ e # Nothing /\ e # Garbage /\ Issued \in Nat
  BY NextIsEvent, MarkersAreApart
<1> HIDE DEF e
<1>3. /\ log' # NoFile /\ log' # <<>>
      /\ cut => /\ Range(Events') \subseteq Range(Events)
                /\ Written \cap Range(Events) \subseteq Range(Events')
      /\ ~cut => Range(Events') = Range(Events) \cup {e}
  <2>1. e \in Lines
    BY <1>2 DEF Lines
  <2> QED BY <1>1, <1>2, <2>1, AppendedEvents
<1>4. Busy' = Busy \cup {r} /\ r \notin Busy
  BY <1>1, <1>2 DEF Busy, TypeOK
<1>5. Written' = Written \cup {e}
  BY <1>1, <1>4 DEF Written, Busy, TypeOK
<1>6. Issued' = Issued + 1
  <2>1. IsFiniteSet(Busy) /\ Cardinality(Busy) \in Nat
    BY WrittenTypes
  <2>2. Cardinality(Busy') = Cardinality(Busy) + 1
    BY <1>4, <2>1, FS_AddElement
  <2>3. Len(recorded) \in Nat /\ tears \in Nat
    BY DEF TypeOK
  <2> QED BY <1>1, <2>1, <2>2, <2>3 DEF Issued
<1>7. IsFiniteSet(Lost) /\ Cardinality(Lost) \in Nat /\ tears \in Nat
      /\ Cardinality(Lost) + (IF cut THEN 1 ELSE 0) <= tears
  BY FS_CardinalityType DEF Survives, TypeOK
<1>8. IsFiniteSet(Lost') /\ Cardinality(Lost') <= tears
  <2>1. CASE cut
    <3>1. Lost' \in SUBSET (Lost \cup {e})
      BY <1>3, <1>5, <2>1 DEF Lost
    <3>2. IsFiniteSet(Lost \cup {e}) /\ Cardinality(Lost \cup {e}) <= Cardinality(Lost) + 1
      <4>1. IsFiniteSet(Lost)
        BY <1>7
      <4>2. /\ IsFiniteSet(Lost \cup {e})
            /\ Cardinality(Lost \cup {e}) = IF e \in Lost THEN Cardinality(Lost) ELSE Cardinality(Lost) + 1
        BY <4>1, FS_AddElement
      <4> QED BY <1>7, <4>2
    <3>3. IsFiniteSet(Lost') /\ Cardinality(Lost') <= Cardinality(Lost \cup {e})
      BY <3>1, <3>2, FS_Subset
    <3>4. Cardinality(Lost') \in Nat /\ Cardinality(Lost \cup {e}) \in Nat
      BY <3>2, <3>3, FS_CardinalityType
    <3> QED BY <1>7, <2>1, <3>2, <3>3, <3>4
  <2>2. CASE ~cut
    <3>1. Lost' \in SUBSET Lost
      BY <1>3, <1>5, <2>2 DEF Lost
    <3>2. IsFiniteSet(Lost') /\ Cardinality(Lost') <= Cardinality(Lost)
      BY <1>7, <3>1, FS_Subset
    <3>3. Cardinality(Lost') \in Nat
      BY <3>2, FS_CardinalityType
    <3> QED BY <1>7, <2>2, <3>2, <3>3
  <2> QED BY <2>1, <2>2
<1>9. \A x \in Written' \cup Range(Events') : x.n < Issued'
  <2>1. Range(Events') \subseteq Range(Events) \cup {e}
    BY <1>3
  <2>2. \A x \in Written \cup Range(Events) : x.n < Issued /\ x.n \in Nat
    <3>1. Range(Events) \subseteq EventSet
      BY EventsFacts DEF Range
    <3>2. \A x \in Written \cup Range(Events) : x \in EventSet
      BY <3>1, WrittenTypes
    <3>3. \A x \in EventSet : x.n \in Nat
      BY DEF EventSet
    <3> QED BY <1>1, <3>2, <3>3 DEF Survives
  <2>3. \A x \in Written \cup Range(Events) \cup {e} : x.n < Issued + 1
    BY <1>2, <2>2
  <2> QED BY <1>5, <1>6, <2>1, <2>3
<1>10. Cardinality(Lost') \in Nat
  BY <1>8, FS_CardinalityType
<1> QED BY <1>1, <1>3, <1>8, <1>9, <1>10 DEF Survives

\* What has been told is on disk as it was.
LEMMA ConfirmSurvives ==
    ASSUME TypeOK, TypeOK', Survives, NEW r \in Recorders, Confirm(r)
    PROVE  Survives'
<1>1. /\ rec[r] \in EventSet /\ rec[r] # Nothing
      /\ recorded' = Append(recorded, rec[r]) /\ rec' = [rec EXCEPT ![r] = Nothing]
      /\ UNCHANGED <<kind, log, cut, tears>>
  BY DEF Confirm, TypeOK
<1>2. r \in Busy /\ Busy' = Busy \ {r} /\ log # NoFile
  BY <1>1 DEF Busy, TypeOK, Survives
<1>3. Range(recorded') = Range(recorded) \cup {rec[r]} /\ Len(recorded') = Len(recorded) + 1
  <2>1. /\ Len(recorded) \in Nat /\ DOMAIN recorded = 1..Len(recorded)
        /\ Len(recorded') = Len(recorded) + 1 /\ DOMAIN recorded' = 1..(Len(recorded) + 1)
        /\ \A i \in 1..Len(recorded) : recorded'[i] = recorded[i]
        /\ recorded'[Len(recorded) + 1] = rec[r]
    <3>1. recorded \in Seq(EventSet)
      BY DEF TypeOK
    <3> QED BY <1>1, <3>1
  <2>2. Range(recorded') \subseteq Range(recorded) \cup {rec[r]}
    <3> SUFFICES ASSUME NEW i \in 1..(Len(recorded) + 1)
                 PROVE  recorded'[i] \in Range(recorded) \cup {rec[r]}
      BY <2>1 DEF Range
    <3>1. CASE i = Len(recorded) + 1
      BY <2>1, <3>1
    <3>2. CASE i # Len(recorded) + 1
      <4>1. i \in 1..Len(recorded)
        BY <2>1, <3>2
      <4> QED BY <2>1, <4>1 DEF Range
    <3> QED BY <3>1, <3>2
  <2>3. Range(recorded) \cup {rec[r]} \subseteq Range(recorded')
    <3>1. \A i \in 1..Len(recorded) : i \in 1..(Len(recorded) + 1)
      BY <2>1
    <3>2. Len(recorded) + 1 \in 1..(Len(recorded) + 1)
      BY <2>1
    <3> QED BY <2>1, <3>1, <3>2 DEF Range
  <2> QED BY <2>1, <2>2, <2>3
<1>4. Written' = Written
  BY <1>1, <1>2, <1>3 DEF Written, Busy, TypeOK
<1>5. Issued' = Issued
  <2>1. IsFiniteSet(Busy) /\ Cardinality(Busy) \in Nat
    BY WrittenTypes
  <2>2. Cardinality(Busy') = Cardinality(Busy) - 1
    BY <1>2, <2>1, FS_RemoveElement
  <2>3. Len(recorded) \in Nat /\ tears \in Nat
    BY DEF TypeOK
  <2> QED BY <1>1, <1>3, <2>1, <2>2, <2>3 DEF Issued
<1> QED BY <1>1, <1>2, <1>4, <1>5, SurvivesKept

\* A tear is counted before it costs anything, and what it leaves behind is an
\* event that nobody will report.
LEMMA TornSurvives ==
    ASSUME TypeOK, TypeOK', Survives, NEW r \in Recorders, NEW stage \in Stages \cup {"run_lifecycle"}, NEW outcome \in Outcomes,
           TornEvent(r, stage, outcome)
    PROVE  Survives'
<1> DEFINE e == NextEvent(stage, outcome)
<1>1. PICK line \in {Garbage, e} : log' = WithLine(line)
  BY DEF TornEvent
<1>2. /\ kind = "planning" /\ kind' = kind /\ cut' = TRUE
      /\ recorded' = recorded /\ tears' = tears + 1 /\ rec' = rec
  BY DEF TornEvent
<1>3. e \in EventSet /\ e.n = Issued /\ Issued \in Nat /\ line \in Lines
  BY NextIsEvent DEF Lines
<1>4. /\ log' # NoFile /\ log' # <<>>
      /\ log'[Len(log')] = IF cut THEN Garbage ELSE line
      /\ cut => /\ Range(Events') \subseteq Range(Events)
                /\ Written \cap Range(Events) \subseteq Range(Events')
      /\ ~cut => Range(Events') = Range(Events) \cup ({line} \ {Garbage})
  BY <1>1, <1>2, <1>3, AppendedEvents
<1> HIDE DEF e
<1>5. Busy' = Busy /\ Written' = Written
  BY <1>2 DEF Busy, Written
<1>6. Issued' = Issued + 1
  <2>1. Cardinality(Busy) \in Nat /\ Len(recorded) \in Nat /\ tears \in Nat
    BY WrittenTypes DEF TypeOK
  <2> QED BY <1>2, <1>5, <2>1 DEF Issued
<1>7. \A x \in Written \cup Range(Events) : x.n < Issued /\ x.n \in Nat
  <2>1. Range(Events) \subseteq EventSet
    BY EventsFacts DEF Range
  <2>2. \A x \in Written \cup Range(Events) : x \in EventSet
    BY <2>1, WrittenTypes
  <2>3. \A x \in EventSet : x.n \in Nat
    BY DEF EventSet
  <2> QED BY <1>2, <2>2, <2>3 DEF Survives
<1>8. log'[Len(log')] \notin Written'
  <2>1. Garbage \notin Written
    BY WrittenTypes
  <2>2. e \notin Written
    BY <1>3, <1>7
  <2> QED BY <1>4, <1>5, <2>1, <2>2
<1>9. \A x \in Written' \cup Range(Events') : x.n < Issued'
  <2>1. Range(Events') \subseteq Range(Events) \cup {e}
    BY <1>4
  <2>2. \A x \in Written \cup Range(Events) \cup {e} : x.n < Issued + 1
    BY <1>3, <1>7
  <2> QED BY <1>5, <1>6, <2>1, <2>2
<1>10. Lost' \in SUBSET Lost
  BY <1>4, <1>5 DEF Lost
<1>11. IsFiniteSet(Lost') /\ Cardinality(Lost') + 1 <= tears'
  <2>1. /\ IsFiniteSet(Lost) /\ Cardinality(Lost) \in Nat /\ tears \in Nat
        /\ Cardinality(Lost) + (IF cut THEN 1 ELSE 0) <= tears
    BY FS_CardinalityType DEF Survives, TypeOK
  <2>2. IsFiniteSet(Lost') /\ Cardinality(Lost') <= Cardinality(Lost)
    BY <1>10, <2>1, FS_Subset
  <2>3. Cardinality(Lost') \in Nat
    BY <2>2, FS_CardinalityType
  <2> QED BY <1>2, <2>1, <2>2, <2>3
<1> QED BY <1>2, <1>4, <1>8, <1>9, <1>11 DEF Survives

\* A harness has nothing recorded that could be lost.
LEMMA HarnessSurvives ==
    ASSUME TypeOK, TypeOK', Survives, Apart, kind = "e2e",
           UNCHANGED <<kind, cut, recorded, tears, rec>>
    PROVE  Survives'
<1>1. recorded' = <<>> /\ tears' = 0 /\ ~cut' /\ Busy' = {} /\ kind' = "e2e"
  BY DEF Apart, Busy
<1>2. Written' = {}
  BY <1>1 DEF Written, Range
<1>3. Lost' = {}
  BY <1>2 DEF Lost
<1>4. IsFiniteSet(Lost') /\ Cardinality(Lost') = 0
  BY <1>3, FS_EmptySet
<1> QED BY <1>1, <1>4 DEF Survives

\* Who has a harness or a recorder at work says whose directory it is.
LEMMA WhoseDirectory ==
    ASSUME TypeOK, Apart
    PROVE  /\ \A r \in Recorders : rec[r] # Nothing => kind = "planning"
           /\ \A h \in Harnesses : har[h].pc # "idle" => kind = "e2e"
BY DEF TypeOK, Apart, Busy

\* Every step keeps what is lost within the tears.
LEMMA StepSurvives ==
    ASSUME TypeOK, TypeOK', Survives, Apart, [Next]_vars
    PROVE  Survives'
<1>1. CASE CreateLayout
  BY <1>1, CreateSurvives
<1>2. CASE Report \/ UNCHANGED vars
  <2>1. UNCHANGED <<kind, log, cut, recorded, tears, rec>>
    BY <1>2 DEF Report, vars
  <2>2. Written' = Written /\ Issued' = Issued
    BY <2>1 DEF Written, Busy, Issued
  <2> QED BY <2>1, <2>2, SurvivesKept
<1>3. ASSUME NEW r \in Recorders, NEW stage \in Stages \cup {"run_lifecycle"}, NEW outcome \in Outcomes,
             RecordEvent(r, stage, outcome) \/ TornEvent(r, stage, outcome)
      PROVE  Survives'
  BY <1>3, RecordSurvives, TornSurvives
<1>4. ASSUME NEW r \in Recorders, Confirm(r) PROVE Survives'
  BY <1>4, ConfirmSurvives
<1>5. ASSUME NEW h \in Harnesses,
             StartProfile(h) \/ EmptyLog(h) \/ WriteEvents(h) \/ RunCommand(h) \/ Summarise(h) \/ Abort(h)
      PROVE  Survives'
  <2>1. kind = "e2e"
    BY <1>5, WhoseDirectory
       DEF StartProfile, EmptyLog, WriteEvents, WritesOver, RunCommand, Summarise, Abort
  <2>2. UNCHANGED <<kind, cut, recorded, tears, rec>>
    BY <1>5 DEF StartProfile, EmptyLog, WriteEvents, WritesOver, RunCommand, Summarise, Abort
  <2> QED BY <2>1, <2>2, HarnessSurvives
<1> QED BY <1>1, <1>2, <1>3, <1>4, <1>5 DEF Next
-----------------------------------------------------------------------------
(* What a harness leaves behind. *)

\* Recorders and harnesses keep apart.
LEMMA StepApart == ASSUME TypeOK, TypeOK', Apart, [Next]_vars PROVE Apart'
<1>1. CASE kind = "planning"
  <2>1. \A h \in Harnesses : har[h].pc = "idle"
    BY <1>1 DEF Apart
  <2>2. UNCHANGED <<kind, har, summary>>
    BY <1>1, <2>1 DEF Next, vars, CreateLayout, Report, RecordEvent, TornEvent, Confirm,
       StartProfile, EmptyLog, WriteEvents, WritesOver, RunCommand, Summarise, Abort
  <2> QED BY <1>1, <2>2 DEF Apart
<1>2. CASE kind = "e2e"
  <2>1. \A r \in Recorders : rec[r] = Nothing
    BY <1>2 DEF Apart, Busy
  <2>2. UNCHANGED <<kind, cut, recorded, tears, rec>>
    BY <1>2, <2>1 DEF Next, vars, CreateLayout, Report, RecordEvent, TornEvent, Confirm,
       StartProfile, EmptyLog, WriteEvents, WritesOver, RunCommand, Summarise, Abort
  <2> QED BY <1>2, <2>2 DEF Apart, Busy
<1> QED BY <1>1, <1>2 DEF TypeOK

\* At first there is nothing to show for.
LEMMA InitBundled == Init => Apart /\ Bundled
<1> SUFFICES ASSUME Init PROVE Apart /\ Bundled
  OBVIOUS
<1>1. Busy = {}
  BY DEF Init, Busy
<1>2. Apart
  BY <1>1 DEF Init, Apart
<1>3. ASSUME NEW h \in Harnesses PROVE Owned(h)
  <2>1. Len(Tools) # 0
    BY MatrixIsList
  <2>2. har[h] = [pc |-> "idle", done |-> <<>>] /\ log = NoFile /\ report = NoFile /\ summary = NoFile
    BY DEF Init
  <2>3. ~Complete(h)
    BY <2>1, <2>2 DEF Complete
  <2> QED BY <2>2, <2>3 DEF Owned
<1> QED BY <1>2, <1>3 DEF Bundled

\* A command more makes the log one event longer, and what was listed stays.
LEMMA LogGrows ==
    ASSUME NEW done \in Seq(Commands), NEW c \in Commands, Len(done) < Len(Tools)
    PROVE  /\ IsPrefix(LogOf(done), LogOf(Append(done, c)))
           /\ \A o : With(LogOf(done), o) \subseteq With(LogOf(Append(done, c)), o)
<1> DEFINE n == Len(done)
           old == LogOf(done)
           new == LogOf(Append(done, c))
<1>1. /\ n \in Nat /\ Append(done, c) \in Seq(Commands) /\ Len(Append(done, c)) = n + 1
      /\ \A i \in 1..n : Append(done, c)[i] = done[i]
      /\ n <= Len(Tools) /\ n + 1 <= Len(Tools)
  BY AppendProperties, MatrixIsList
<1>2. /\ old \in Seq(EventSet) /\ Len(old) = n /\ DOMAIN old = 1..n
      /\ new \in Seq(EventSet) /\ Len(new) = n + 1 /\ DOMAIN new = 1..(n + 1)
      /\ \A i \in 1..n : i \in 1..(n + 1) /\ new[i] = old[i]
  <2>1. \A i \in 1..n : i \in 1..(n + 1)
    BY <1>1
  <2> HIDE DEF n
  <2> QED BY <1>1, <2>1, LogOfType DEF n
<1> HIDE DEF old, new
<1>3. IsPrefix(old, new)
  BY <1>1, <1>2 DEF IsPrefix
<1>4. \A o : With(old, o) \subseteq With(new, o)
  BY <1>2 DEF With, Range
<1> QED BY <1>3, <1>4 DEF old, new

\* A prefix, line by line.
LEMMA PrefixLines ==
    ASSUME NEW S, NEW s \in Seq(S), NEW t \in Seq(S)
    PROVE  IsPrefix(s, t) <=> Len(s) <= Len(t) /\ \A i \in 1..Len(s) : s[i] = t[i]
<1>1. Len(s) \in Nat /\ Len(t) \in Nat /\ DOMAIN s = 1..Len(s) /\ DOMAIN t = 1..Len(t)
  OBVIOUS
<1>2. ASSUME Len(s) <= Len(t)
      PROVE  /\ SubSeq(s, 1, Len(s)) = s
             /\ SubSeq(t, 1, Len(s)) \in Seq(S) /\ Len(SubSeq(t, 1, Len(s))) = Len(s)
             /\ \A i \in 1..Len(s) : SubSeq(t, 1, Len(s))[i] = t[i]
  BY <1>1, <1>2
<1>3. ASSUME Len(s) <= Len(t), \A i \in 1..Len(s) : s[i] = t[i]
      PROVE  SubSeq(t, 1, Len(s)) = s
  <2> DEFINE u == SubSeq(t, 1, Len(s))
  <2>1. u \in Seq(S) /\ Len(u) = Len(s) /\ \A i \in 1..Len(u) : u[i] = s[i]
    BY <1>2, <1>3
  <2> HIDE DEF u
  <2>2. u = s
    BY <2>1, SeqEqual
  <2> QED BY <2>2 DEF u
<1> QED BY <1>1, <1>2, <1>3 DEF IsPrefix

\* Who reads a prefix of the log sees no stage that is not in it.
LEMMA PrefixStages ==
    ASSUME TypeOK, log # NoFile, NEW whole \in Seq(EventSet), IsPrefix(log, whole)
    PROVE  \A o : With(Events, o) \subseteq With(whole, o)
<1>1. log \in Seq(Lines) /\ whole \in Seq(Lines)
  BY DEF TypeOK, Lines
<1>2. Len(log) <= Len(whole) /\ \A i \in 1..Len(log) : log[i] = whole[i]
  BY <1>1, PrefixLines
<1>3. Range(Events) \subseteq Range(whole)
  <2>1. Range(Events) \subseteq {log[i] : i \in 1..Len(log)}
    BY <1>1, EventsFacts
  <2>2. \A i \in 1..Len(log) : i \in 1..Len(whole)
    BY <1>1, <1>2
  <2> QED BY <1>1, <1>2, <2>1, <2>2 DEF Range
<1> QED BY <1>3 DEF With

\* The directory of a harness that is alone in it is changed by its own steps.
LEMMA OwnSteps ==
    ASSUME TypeOK, Apart, Next, NEW h \in Harnesses, kind' = "e2e",
           \A g \in Harnesses \ {h} : har'[g].pc = "idle"
    PROVE  /\ kind = "e2e" /\ \A g \in Harnesses \ {h} : har[g].pc = "idle"
           /\ \/ StartProfile(h) \/ EmptyLog(h) \/ WriteEvents(h)
              \/ RunCommand(h) \/ Summarise(h) \/ Abort(h)
<1>1. kind = "e2e"
  BY DEF Next, CreateLayout, Report, RecordEvent, TornEvent, Confirm,
     StartProfile, EmptyLog, WriteEvents, WritesOver, RunCommand, Summarise, Abort
<1>2. PICK g \in Harnesses :
         \/ StartProfile(g) \/ EmptyLog(g) \/ WriteEvents(g)
         \/ RunCommand(g) \/ Summarise(g) \/ Abort(g)
  BY <1>1 DEF Next, Apart, Busy, CreateLayout, Report, RecordEvent, TornEvent, Confirm
<1>3. har'[g].pc # "idle"
  <2>1. CASE StartProfile(g) \/ EmptyLog(g) \/ WriteEvents(g) \/ Summarise(g) \/ Abort(g)
    BY <2>1 DEF StartProfile, EmptyLog, WriteEvents, WritesOver, Summarise, Abort, HarnessGoes, TypeOK
  <2>2. CASE RunCommand(g)
    BY <2>2 DEF RunCommand, TypeOK
  <2> QED BY <1>2, <2>1, <2>2
<1>4. g = h
  BY <1>3
<1>5. \A k \in Harnesses \ {h} : har'[k] = har[k]
  BY <1>2, <1>4 DEF StartProfile, EmptyLog, WriteEvents, WritesOver, RunCommand, Summarise, Abort, HarnessGoes, TypeOK
<1> QED BY <1>1, <1>2, <1>4, <1>5

\* A command leaves the log as it is, and a report quotes it.
LEMMA CommandOwned ==
    ASSUME TypeOK, TypeOK', NEW h \in Harnesses, Owned(h), RunCommand(h)
    PROVE  Owned(h)'
<1> DEFINE done == har[h].done
<1>1. PICK result \in Results :
         /\ har' = [har EXCEPT ![h].done = Append(@, Ran(NextTool(h), result))]
         /\ NextTool(h) \in OpsTools => (result = "good" <=> OpsSucceed)
  BY DEF RunCommand, Results
<1>2. /\ har[h].pc = "run" /\ ~WantsLog(h) /\ log' = log /\ summary' = summary
      /\ report' = IF Len(har[h].done) + 1 = Len(Tools) /\ OpsSucceed THEN RunStatus(Events) ELSE report
  BY DEF RunCommand
<1> DEFINE c == Ran(NextTool(h), result)
<1>3. done \in Seq(Commands) /\ Len(done) \in Nat /\ Len(Tools) \in Nat /\ Len(done) < Len(Tools)
  <2>1. done \in Seq(Commands) /\ Len(done) <= Len(Tools)
    BY DEF TypeOK
  <2>2. Len(done) # Len(Tools)
    BY <1>2 DEF WantsLog
  <2>3. Len(done) \in Nat /\ Len(Tools) \in Nat
    BY <2>1, MatrixIsList
  <2> QED BY <2>1, <2>2, <2>3
<1>4. c \in Commands
  <2>1. NextTool(h) \in Range(Tools)
    <3>1. DOMAIN Tools = 1..Len(Tools)
      BY MatrixIsList
    <3> QED BY <1>3, <3>1 DEF NextTool, Range
  <2> QED BY <2>1 DEF Ran, Commands
<1>5. har'[h].pc = "run" /\ har'[h].done = Append(done, c)
  BY <1>1, <1>2 DEF TypeOK
<1> HIDE DEF done, c
<1>6. /\ LogOf(done) \in Seq(EventSet) /\ LogOf(Append(done, c)) \in Seq(EventSet)
      /\ IsPrefix(LogOf(done), LogOf(Append(done, c)))
      /\ \A o : With(LogOf(done), o) \subseteq With(LogOf(Append(done, c)), o)
      /\ Append(done, c) \in Seq(Commands)
      /\ Len(Append(done, c)) = Len(done) + 1 /\ Last(Append(done, c)) = c
  <2>1. /\ Append(done, c) \in Seq(Commands) /\ Len(Append(done, c)) = Len(done) + 1
        /\ Append(done, c)[Len(done) + 1] = c
    BY <1>3, <1>4, AppendProperties
  <2>2. Len(done) <= Len(Tools) /\ Len(Append(done, c)) <= Len(Tools)
    BY <1>3, <2>1
  <2> QED BY <1>3, <1>4, <2>1, <2>2, LogGrows, LogOfType DEF Last
<1>7. log = NoFile \/ IsPrefix(log, LogOf(done))
  BY DEF Owned, done
<1>8. log' = NoFile \/ IsPrefix(log', LogOf(har'[h].done))
  <2> SUFFICES ASSUME log # NoFile PROVE IsPrefix(log, LogOf(Append(done, c)))
    BY <1>2, <1>5
  <2>1. /\ log \in Seq(Lines) /\ LogOf(done) \in Seq(Lines) /\ LogOf(Append(done, c)) \in Seq(Lines)
    BY <1>6 DEF TypeOK, Lines
  <2>2. Len(log) <= Len(LogOf(done)) /\ \A i \in 1..Len(log) : log[i] = LogOf(done)[i]
    BY <1>7, <2>1, PrefixLines
  <2>3. /\ Len(LogOf(done)) <= Len(LogOf(Append(done, c)))
        /\ \A i \in 1..Len(LogOf(done)) : LogOf(done)[i] = LogOf(Append(done, c))[i]
    BY <1>6, <2>1, PrefixLines
  <2>4. /\ Len(log) \in Nat /\ Len(LogOf(done)) \in Nat /\ Len(LogOf(Append(done, c))) \in Nat
    BY <2>1
  <2>5. /\ Len(log) <= Len(LogOf(Append(done, c)))
        /\ \A i \in 1..Len(log) : log[i] = LogOf(Append(done, c))[i]
    BY <2>2, <2>3, <2>4
  <2> QED BY <2>1, <2>5, PrefixLines
<1>9. OpsSucceed => /\ RunStatus(Events) \in Statuses /\ RunStatus(Events) # NoFile
                    /\ RunStatus(Events).failed \subseteq With(LogOf(done), "failed")
                    /\ RunStatus(Events).completed \subseteq With(LogOf(done), "success")
  <2> SUFFICES ASSUME OpsSucceed
               PROVE  /\ RunStatus(Events) \in Statuses /\ RunStatus(Events) # NoFile
                      /\ RunStatus(Events).failed \subseteq With(LogOf(done), "failed")
                      /\ RunStatus(Events).completed \subseteq With(LogOf(done), "success")
    OBVIOUS
  <2>1. Events \in Seq(EventSet) /\ Events # <<>>
    BY EventsFacts, StatusType DEF OpsSucceed
  <2>2. log # NoFile
    BY <2>1 DEF Events
  <2>3. \A o : With(Events, o) \subseteq With(LogOf(done), o)
    BY <1>6, <1>7, <2>2, PrefixStages
  <2> QED BY <2>1, <2>3, StatusType
<1>10. report' # NoFile =>
          /\ report'.failed \subseteq With(LogOf(har'[h].done), "failed")
          /\ report'.completed \subseteq With(LogOf(har'[h].done), "success")
  <2>1. report # NoFile => /\ report.failed \subseteq With(LogOf(done), "failed")
                           /\ report.completed \subseteq With(LogOf(done), "success")
    BY DEF Owned, done
  <2> HIDE DEF With
  <2> QED BY <1>2, <1>5, <1>6, <1>9, <2>1
<1>11. Complete(h)' /\ Last(har'[h].done).result = "good" => report' # NoFile
  <2> SUFFICES ASSUME Complete(h)', Last(har'[h].done).result = "good" PROVE report' # NoFile
    OBVIOUS
  <2>1. Len(done) + 1 = Len(Tools)
    BY <1>5, <1>6 DEF Complete
  <2>2. Len(har[h].done) + 1 = Len(Tools) /\ NextTool(h) \in OpsTools
    BY <2>1, MatrixIsList DEF NextTool, Last, done
  <2>3. result = "good"
    BY <1>5, <1>6 DEF c, Ran
  <2> QED BY <1>1, <1>2, <1>9, <2>2, <2>3
<1>12. summary' = NoFile
  BY <1>2 DEF Owned
<1> QED BY <1>5, <1>8, <1>10, <1>11, <1>12 DEF Owned

\* Every step of a harness that is alone keeps what it has to show.
LEMMA StepBundled ==
    ASSUME TypeOK, TypeOK', Apart, Bundled, [Next]_vars
    PROVE  Bundled'
<1>1. CASE UNCHANGED vars
  BY <1>1 DEF vars, Bundled, Owned, Complete
<1>2. ASSUME Next, kind' = "e2e", NEW h \in Harnesses, \A g \in Harnesses \ {h} : har'[g].pc = "idle"
      PROVE  Owned(h)'
  <2>1. Owned(h)
    BY <1>2, OwnSteps DEF Bundled
  <2>2. har[h].done \in Seq(Commands)
    BY DEF TypeOK
  <2> DEFINE whole == LogOf(har[h].done)
  <2>3. whole \in Seq(EventSet) /\ Len(whole) = Len(har[h].done)
    BY <2>2, LogOfType DEF TypeOK
  <2> HIDE DEF whole
  <2>4. CASE StartProfile(h)
    BY <2>1, <2>4 DEF StartProfile, HarnessGoes, TypeOK, Owned, Complete
  <2>5. CASE EmptyLog(h)
    <3>1. IsPrefix(<<>>, whole)
      <4> DEFINE none == <<>>
      <4>1. none \in Seq(EventSet) /\ Len(none) = 0 /\ Len(whole) \in Nat
        BY <2>3
      <4> HIDE DEF none
      <4>2. Len(none) <= Len(whole) /\ 1..Len(none) = {}
        BY <4>1
      <4>3. IsPrefix(none, whole)
        BY <2>3, <4>1, <4>2, PrefixLines
      <4> QED BY <4>3 DEF none
    <3>2. /\ har[h].pc = "run" /\ har'[h].pc = "write_events" /\ har'[h].done = har[h].done
          /\ log' = <<>> /\ report' = report /\ summary' = summary
      BY <2>5 DEF EmptyLog, HarnessGoes, TypeOK
    <3> QED BY <2>1, <3>1, <3>2 DEF Owned, Complete, whole
  <2>6. CASE WriteEvents(h)
    <3>1. IsPrefix(whole, whole)
      BY <2>3, PrefixLines
    <3>2. /\ har[h].pc = "write_events" /\ har'[h].done = har[h].done
          /\ har'[h].pc = IF Complete(h) THEN "summarise" ELSE "run"
          /\ log' = whole /\ report' = report /\ summary' = summary
      <4>1. log = <<>> /\ log' = whole
        BY <2>1, <2>3, <2>6, OverNothing DEF WriteEvents, WritesOver, Owned, whole
      <4> QED BY <2>6, <4>1 DEF WriteEvents, WritesOver, HarnessGoes, TypeOK, Complete, whole
    <3> QED BY <2>1, <3>1, <3>2 DEF Owned, Complete, whole
  <2>7. CASE RunCommand(h)
    BY <2>1, <2>7, CommandOwned
  <2>8. CASE Summarise(h)
    <3>1. /\ har[h].pc = "summarise" /\ har'[h].pc = "ended" /\ har'[h].done = har[h].done
          /\ log' = log /\ report' = report
      BY <2>8 DEF Summarise, HarnessGoes, TypeOK
    <3>2. summary' \in Summaries /\ (summary'.status = "pass" => Failures(har[h].done) = {})
      BY <2>8 DEF Summarise, Summaries
    <3>3. summary' # NoFile
      BY <3>2, MarkersAreApart
    <3> QED BY <2>1, <3>1, <3>2, <3>3 DEF Owned, Complete
  <2>9. CASE Abort(h)
    <3>1. /\ har[h].pc \notin {"idle", "ended"} /\ har'[h].pc = "aborted" /\ har'[h].done = har[h].done
          /\ log' = log /\ report' = report /\ summary' = summary
      BY <2>9 DEF Abort, HarnessGoes, TypeOK
    <3> QED BY <2>1, <3>1 DEF Owned, Complete
  <2> QED BY <1>2, <2>4, <2>5, <2>6, <2>7, <2>8, <2>9, OwnSteps
<1> QED BY <1>1, <1>2 DEF Bundled
-----------------------------------------------------------------------------
(* The theorems. *)

\* What is known of the directory in every reachable state.
LEMMA LogInvariant == Spec => [](TypeOK /\ LogInv)
<1>1. Init => TypeOK /\ LogInv
  BY InitTypes, InitSurvives, InitBundled DEF LogInv
<1>2. TypeOK /\ LogInv /\ [Next]_vars => TypeOK' /\ LogInv'
  <2> SUFFICES ASSUME TypeOK, LogInv, [Next]_vars PROVE TypeOK' /\ LogInv'
    OBVIOUS
  <2>1. TypeOK'
    BY StepTypes
  <2> QED BY <2>1, StepSurvives, StepApart, StepBundled DEF LogInv
<1> QED BY <1>1, <1>2, PTL DEF Spec

\* The state of the directory and of the programs in it is well-typed.
THEOREM TypeCorrect == Spec => []TypeOK
<1>1. TypeOK /\ LogInv => TypeOK
  OBVIOUS
<1> QED BY <1>1, LogInvariant, PTL

\* However many recorders append to a log, and wherever their appends are cut
\* short, at most one event that was reported is lost for each cut.
THEOREM EachTearCostsOne == Spec => []RecordedSurvives
<1>1. TypeOK /\ LogInv => RecordedSurvives
  <2> SUFFICES ASSUME TypeOK, LogInv PROVE RecordedSurvives
    OBVIOUS
  <2> DEFINE gone == {e \in Range(recorded) : e \notin Range(Events)}
  <2>1. gone \in SUBSET Lost
    BY DEF Lost, Written
  <2>2. /\ IsFiniteSet(Lost) /\ Cardinality(Lost) \in Nat /\ tears \in Nat
        /\ Cardinality(Lost) + (IF cut THEN 1 ELSE 0) <= tears
    BY FS_CardinalityType DEF LogInv, Survives, TypeOK
  <2>3. Cardinality(gone) \in Nat /\ Cardinality(gone) <= Cardinality(Lost)
    BY <2>1, <2>2, FS_Subset, FS_CardinalityType
  <2>4. Cardinality(gone) <= tears
    BY <2>2, <2>3
  <2> QED BY <2>4 DEF RecordedSurvives
<1> QED BY <1>1, LogInvariant, PTL

\* The status of v18-run-ops.py and the state that run-state-machine.py
\* reconstructs never contradict each other, whatever the log went through.
THEOREM ReadersAgree == Spec => []StagesAgree
<1>1. TypeOK /\ LogInv => StagesAgree
  <2> SUFFICES ASSUME TypeOK, Events # <<>> PROVE StagesAgree
    BY DEF StagesAgree
  <2>1. Events \in Seq(EventSet)
    BY EventsFacts
  <2> QED BY <2>1, SameStory DEF StagesAgree
<1> QED BY <1>1, LogInvariant, PTL

\* A harness that has its directory to itself leaves a bundle that fits
\* together.
THEOREM AloneItFits == Spec => []BundleFits
<1>1. TypeOK /\ LogInv => BundleFits
  <2> SUFFICES ASSUME TypeOK, LogInv, kind = "e2e", NEW h \in Harnesses,
                      \A g \in Harnesses \ {h} : har[g].pc = "idle"
               PROVE  /\ log # NoFile => IsPrefix(log, LogOf(har[h].done))
                      /\ summary # NoFile => Len(log) = Len(Tools)
                      /\ summary # NoFile /\ summary.status = "pass" =>
                           /\ RunStatus(log).failed = {}
                           /\ report # NoFile /\ report.failed = {}
                           /\ report.completed \subseteq RunStatus(log).completed
    BY DEF BundleFits
  <2>1. Owned(h)
    BY DEF LogInv, Bundled
  <2> DEFINE done == har[h].done
  <2>2. done \in Seq(Commands) /\ Len(done) <= Len(Tools)
    BY DEF TypeOK
  <2>3. /\ LogOf(done) \in Seq(EventSet) /\ Len(LogOf(done)) = Len(done)
        /\ DOMAIN LogOf(done) = 1..Len(done)
        /\ \A i \in 1..Len(done) :
             LogOf(done)[i] = Event(i, StageOf(i, done[i]),
                                    IF Succeeded(done[i]) THEN "success" ELSE "failed")
    BY <2>2, LogOfType
  <2>4. log # NoFile => IsPrefix(log, LogOf(done))
    BY <2>1 DEF Owned
  <2>5. summary # NoFile => Len(done) = Len(Tools) /\ log = LogOf(done)
    BY <2>1 DEF Owned, Complete
  <2>6. ASSUME summary # NoFile, summary.status = "pass"
        PROVE  /\ RunStatus(log).failed = {}
               /\ report # NoFile /\ report.failed = {}
               /\ report.completed \subseteq RunStatus(log).completed
    <3>1. \A i \in 1..Len(done) : done[i].result = "good"
      <4>1. Failures(done) = {}
        BY <2>1, <2>6 DEF Owned
      <4>2. DOMAIN done = 1..Len(done)
        BY <2>2
      <4> QED BY <4>1, <4>2 DEF Failures
    <3>2. With(LogOf(done), "failed") = {}
      <4>1. \A i \in 1..Len(done) : LogOf(done)[i].outcome = "success"
        <5> SUFFICES ASSUME NEW i \in 1..Len(done) PROVE LogOf(done)[i].outcome = "success"
          OBVIOUS
        <5>1. Succeeded(done[i])
          BY <3>1 DEF Succeeded
        <5> HIDE DEF done
        <5>2. LogOf(done)[i] = Event(i, StageOf(i, done[i]), "success")
          BY <2>3, <5>1
        <5> QED BY <5>2 DEF Event
      <4> DEFINE whole == LogOf(done)
      <4>2. DOMAIN whole = 1..Len(done) /\ \A i \in 1..Len(done) : whole[i].outcome = "success"
        BY <2>3, <4>1
      <4> HIDE DEF whole
      <4>3. With(whole, "failed") = {}
        BY <4>2 DEF With, Range
      <4> QED BY <4>3 DEF whole
    <3>3. Len(done) \in Nat \ {0}
      BY <2>2, <2>5, <2>6, MatrixIsList
    <3>4. log \in Seq(EventSet) /\ log # <<>>
      BY <2>3, <2>5, <2>6, <3>3
    <3>5. /\ RunStatus(log).failed = With(LogOf(done), "failed")
          /\ RunStatus(log).completed = With(LogOf(done), "success")
      BY <2>5, <2>6, <3>4, StatusType
    <3>6. report # NoFile
      <4>1. Last(done).result = "good"
        BY <3>1, <3>3 DEF Last
      <4> QED BY <2>1, <2>5, <2>6, <4>1 DEF Owned, Complete
    <3>7. /\ report.failed \subseteq With(LogOf(done), "failed")
          /\ report.completed \subseteq With(LogOf(done), "success")
      BY <2>1, <3>6 DEF Owned
    <3> QED BY <3>2, <3>5, <3>6, <3>7
  <2> QED BY <2>3, <2>4, <2>5, <2>6
<1> QED BY <1>1, LogInvariant, PTL
=============================================================================
