--------------------------- MODULE RoundLockProofs ---------------------------
(***************************************************************************)
(* Proofs about module RoundLock, for every number of "apr run" processes, *)
(* inodes and faults, with flock and with the lock directory.              *)
(*                                                                         *)
(* With flock: a flock belongs to a descriptor that is open (Flocked), and *)
(* until a trap takes the lock from its owner, or an unlink hits a path    *)
(* that somebody else has open, every owner has a descriptor, and all lead *)
(* to the one inode at the path (OnePath).  With the directory: until a    *)
(* cleanup hits a fresh pid or directory, an owner, or its detached child, *)
(* is the pid in it, and there is at most one process that made it and has *)
(* yet to sign (Signed); a directory nobody signed is somebody's to remove *)
(* (Mended), who still has its name (Named).                               *)
(***************************************************************************)
EXTENDS RoundLock, TLAPS

FlockPCs == {"opened", "granted"}
DirPCs == {"made", "check", "read", "stale", "emptied", "retry", "named"}

\* Each branch of acquire_lock leaves the other's state alone.
Branches ==
    /\ useFlock => /\ ~dir /\ pid = NoProc
                   /\ \A p \in Procs : pc[p] \notin DirPCs /\ "dir" \notin named[p] /\ ~stray[p]
    /\ ~useFlock => \A p \in Procs : pc[p] \notin FlockPCs /\ fd[p] = NoInode /\ ~open[p]

\* Where a process may have a child, a descriptor, a trap.
Stages ==
    \A p \in Procs :
        /\ kid[p] => pc[p] \in {"fg", "forked", "done", "dead"}
        /\ pc[p] = "fg" => kid[p]
        /\ open[p] => pc[p] \in FlockPCs \cup Owning
        /\ trap[p] => /\ pc[p] \in FlockPCs \cup (Owning \ {"fg"}) /\ ~open[p]
                      /\ pc[p] # "opened" => breach

\* What a process in its place calls its own.  Only a trap takes it away.
Named ==
    \A p \in Procs :
        /\ named[p] # {} => pc[p] \in (Owning \ {"signed"}) \cup {"closing", "done", "dead"}
        /\ ~breach => /\ useFlock /\ pc[p] \in {"granted"} \cup Owning => open[p]
                      /\ pc[p] \in Owning \ {"signed"} => "file" \in named[p]
        /\ ~useFlock /\ pc[p] \in {"held", "fg", "post", "forked"} /\ "file" \in named[p] =>
               "dir" \in named[p] \/ stray[p]

\* A flock belongs to a descriptor that is open, in a process or in its child.
Flocked ==
    /\ \A i \in Inodes, p \in Procs : flocked[i] = p =>
           fd[p] = i /\ (open[p] \/ kid[p]) /\ pc[p] # "opened"
    /\ useFlock => \A p \in Procs :
           /\ open[p] => fd[p] # NoInode
           /\ fd[p] # NoInode => open[p] \/ kid[p]
           /\ fd[p] # NoInode /\ pc[p] # "opened" => flocked[fd[p]] = p

\* Whoever has the lock file open has the one at the path, and its owner signed it.
OnePath ==
    useFlock /\ ~breach => \A p \in Procs :
        /\ open[p] \/ kid[p] => path = fd[p] /\ fd[p] # NoInode
        /\ pc[p] \in Owning => stamp[fd[p]] = p

\* The lock directory holds its owner's pid, or the one who made it will write it.
Signed ==
    ~useFlock /\ ~breach =>
        /\ \A p \in Procs :
               /\ pc[p] \in Owning => dir /\ pid = p
               /\ kid[p] => pc[p] \in Owning \/ (dir /\ pid = KidOf(p))
               /\ pc[p] = "made" => dir /\ pid = NoProc
        /\ \A p, q \in Procs : pc[p] = "made" /\ pc[q] = "made" => p = q

\* An unsigned directory is still in somebody's hands, unless that process was
\* killed, or its trap left it with one of the two names.
Removes(p) ==
    \/ pc[p] \in {"made", "emptied", "dead"} \/ stray[p]
    \/ "dir" \in named[p] /\ (trap[p] \/ pc[p] = "closing")
    \/ trap[p] /\ pc[p] = "named"
Mended ==
    /\ dir \/ pid = NoProc
    /\ dir /\ pid = NoProc => \E p \in Procs : Removes(p)

LockInv == Branches /\ Stages /\ Named /\ Flocked /\ OnePath /\ Signed /\ Mended
-----------------------------------------------------------------------------
(* Type correctness. *)

\* At first the lock is free, or left over, and everybody is new.
LEMMA InitTypes == Init => TypeOK
<1> SUFFICES ASSUME Init PROVE TypeOK
  OBVIOUS
<1>1. useFlock \in BOOLEAN /\ dir \in BOOLEAN /\ breach \in BOOLEAN
  BY LockAssumption, Zenon DEF Init
<1>2. path \in Inodes \cup {NoInode} /\ inodes \in 0..MaxInodes
  BY LockAssumption DEF Init, Inodes, NoInode
<1>3. pid \in Pids \cup {NoProc}
  BY DEF Init, Pids
<1> QED BY <1>1, <1>2, <1>3 DEF Init, TypeOK, PCs, Over, NoInode

\* Whatever creates the file at the path stays within the inodes.
LEMMA PathTypes ==
    ASSUME TypeOK, path = NoInode => inodes < MaxInodes,
           inodes' = (IF path = NoInode THEN inodes + 1 ELSE inodes),
           path' = (IF path = NoInode THEN inodes + 1 ELSE path)
    PROVE  path' \in Inodes /\ inodes' \in 0..MaxInodes
BY LockAssumption DEF TypeOK, Inodes, NoInode

\* Closing p's descriptor leaves everybody else's.
LEMMA CloseTypes ==
    ASSUME TypeOK, NEW p \in Procs, CloseDescriptor(p)
    PROVE  /\ open' \in [Procs -> BOOLEAN]
           /\ fd' \in [Procs -> Inodes \cup {NoInode}]
           /\ flocked' \in [Inodes -> Procs \cup {NoProc}]
BY DEF CloseDescriptor, Unflock, TypeOK

\* Acquiring keeps the types.
LEMMA AcquireTypes == ASSUME TypeOK, NEW p \in Procs, AcquireStep(p) PROVE TypeOK'
<1> USE DEF flockVars, dirVars, trapVars, Goto, At, PCs, Over
<1>1. CASE Open(p)
  <2>1. path' \in Inodes /\ inodes' \in 0..MaxInodes
    BY <1>1, PathTypes DEF Open
  <2> QED BY <1>1, <2>1 DEF Open, TypeOK
<1>2. CASE Flock(p) \/ FlockRefused(p)
  <2>1. CASE Flock(p)
    BY <2>1 DEF Flock, TypeOK
  <2>2. CASE FlockRefused(p)
    BY <2>2 DEF FlockRefused, TypeOK, NoInode
  <2> QED BY <1>2, <2>1, <2>2
<1>3. CASE Stamp(p)
  <2>1. path' \in Inodes /\ inodes' \in 0..MaxInodes
    BY <1>3, PathTypes DEF Stamp
  <2>2. stamp' \in [Inodes -> Pids \cup {NoProc}]
    BY <1>3 DEF Stamp, TypeOK, Pids
  <2> QED BY <1>3, <2>1, <2>2 DEF Stamp, TypeOK
<1>4. CASE Mkdir(p)
  BY <1>4 DEF Mkdir, TypeOK
<1>5. CASE WritePid(p)
  BY <1>5 DEF WritePid, TypeOK, Pids
<1>6. CASE ReadPid(p) \/ CheckPid(p)
  BY <1>6 DEF ReadPid, CheckPid, TypeOK
<1>7. CASE RemoveStalePid(p)
  <2>1. breach' \in BOOLEAN
    BY <1>7 DEF RemoveStalePid
  <2> QED BY <1>7, <2>1 DEF RemoveStalePid, TypeOK
<1>8. CASE RemoveStaleDir(p)
  <2>1. breach' \in BOOLEAN /\ dir' \in BOOLEAN
    BY <1>8 DEF RemoveStaleDir
  <2> QED BY <1>8, <2>1 DEF RemoveStaleDir, TypeOK
<1>9. CASE NameFile(p) \/ NameDir(p)
  BY <1>9 DEF NameFile, NameDir, TypeOK
<1> QED BY <1>1, <1>2, <1>3, <1>4, <1>5, <1>6, <1>7, <1>8, <1>9 DEF AcquireStep

\* Running the round keeps the types.
LEMMA RoundTypes == ASSUME TypeOK, NEW p \in Procs, RoundStep(p) PROVE TypeOK'
<1> USE DEF flockVars, dirVars, trapVars, Goto, At, PCs, Over
<1>1. CASE StartForeground(p) \/ StartBackground(p)
  BY <1>1 DEF StartForeground, StartBackground, TypeOK
<1>2. CASE KidExit(p)
  BY <1>2 DEF KidExit, Unflock, TypeOK, NoInode
<1>3. CASE Detach(p)
  <2>1. pid' \in Pids \cup {NoProc} /\ stamp' \in [Inodes -> Pids \cup {NoProc}]
    BY <1>3 DEF Detach, TypeOK, Pids
  <2> QED BY <1>3, <2>1, CloseTypes DEF Detach, TypeOK
<1> QED BY <1>1, <1>2, <1>3 DEF RoundStep

\* The first half of a release keeps the types.
LEMMA CloseLockTypes ==
    ASSUME TypeOK, NEW p \in Procs, CloseLock(p), pc' \in [Procs -> PCs], trap' \in [Procs -> BOOLEAN],
           breach' \in BOOLEAN, faults' \in Nat
    PROVE  TypeOK'
<1>1. /\ pid' \in Pids \cup {NoProc} /\ named' \in [Procs -> SUBSET {"file", "dir"}]
      /\ CloseDescriptor(p)
  BY DEF CloseLock, TypeOK
<1> QED BY <1>1, CloseTypes DEF CloseLock, TypeOK

\* The second half of a release keeps the types.
LEMMA UnlinkTypes ==
    ASSUME TypeOK, NEW p \in Procs, Unlink(p), pc' \in [Procs -> PCs], trap' \in [Procs -> BOOLEAN],
           stray' \in [Procs -> BOOLEAN], faults' \in Nat
    PROVE  TypeOK'
<1>1. /\ breach' \in BOOLEAN /\ dir' \in BOOLEAN /\ path' \in Inodes \cup {NoInode}
      /\ named' \in [Procs -> SUBSET {"file", "dir"}]
  BY DEF Unlink, TypeOK
<1> QED BY <1>1 DEF Unlink, TypeOK

\* Releasing, of its own accord or interrupted, keeps the types.
LEMMA ReleaseTypes ==
    ASSUME TypeOK, NEW p \in Procs, ReleaseStep(p) \/ Interrupt(p)
    PROVE  TypeOK'
<1> USE DEF Goto, At, PCs, Over
<1>1. CASE Release(p)
  <2>1. breach' \in BOOLEAN /\ faults' \in Nat /\ pc' \in [Procs -> PCs] /\ trap' \in [Procs -> BOOLEAN]
    BY <1>1 DEF Release, TypeOK
  <2> QED BY <1>1, <2>1, CloseLockTypes DEF Release
<1>2. CASE ReleasePath(p)
  <2>1. /\ faults' \in Nat /\ pc' \in [Procs -> PCs] /\ trap' \in [Procs -> BOOLEAN]
        /\ stray' \in [Procs -> BOOLEAN]
    BY <1>2 DEF ReleasePath, TypeOK
  <2> QED BY <1>2, <2>1, UnlinkTypes DEF ReleasePath
<1>3. CASE ReleaseInterrupted(p)
  <2>1. /\ faults' \in Nat /\ pc' \in [Procs -> PCs] /\ trap' \in [Procs -> BOOLEAN]
        /\ stray' \in [Procs -> BOOLEAN]
    BY <1>3 DEF ReleaseInterrupted, TypeOK
  <2> QED BY <1>3, <2>1, UnlinkTypes DEF ReleaseInterrupted
<1>4. CASE ReleaseAgain(p)
  BY <1>4 DEF ReleaseAgain, TypeOK, trapVars, NoInode
<1>5. CASE Interrupt(p)
  <2>1. breach' \in BOOLEAN /\ faults' \in Nat /\ pc' \in [Procs -> PCs] /\ trap' \in [Procs -> BOOLEAN]
    BY <1>5 DEF Interrupt, TypeOK
  <2> QED BY <1>5, <2>1, CloseLockTypes DEF Interrupt
<1> QED BY <1>1, <1>2, <1>3, <1>4, <1>5 DEF ReleaseStep

\* So does a kill.
LEMMA KillTypes == ASSUME TypeOK, NEW p \in Procs, Kill(p) PROVE TypeOK'
<1>1. breach' \in BOOLEAN
  BY DEF Kill
<1> QED BY <1>1, CloseTypes DEF Kill, TypeOK, PCs, Over, dirVars, Goto

\* Every variable keeps its type, for every number of processes and inodes.
THEOREM TypeCorrect == Spec => []TypeOK
<1>1. TypeOK /\ [Next]_vars => TypeOK'
  <2> SUFFICES ASSUME TypeOK, [Next]_vars PROVE TypeOK'
    OBVIOUS
  <2>1. CASE UNCHANGED vars
    BY <2>1 DEF vars, TypeOK
  <2>2. CASE Next
    BY <2>2, AcquireTypes, RoundTypes, ReleaseTypes, KillTypes DEF Next
  <2> QED BY <2>1, <2>2
<1> QED BY <1>1, InitTypes, PTL DEF Spec
-----------------------------------------------------------------------------
(* The lock. *)

\* A descriptor is opened on the one file at the path, or on a new one when nobody has the path open.
LEMMA OpenLock == ASSUME TypeOK, LockInv, NEW p \in Procs, Open(p) PROVE LockInv'
<1> USE DEF flockVars, dirVars, trapVars, Goto, At, FlockPCs, DirPCs, Owning
<1>1. Branches'
  BY LockAssumption DEF Open, LockInv, Branches, TypeOK
<1>2. Stages'
  BY LockAssumption DEF Open, LockInv, Branches, Stages, TypeOK
<1>3. Named'
  BY LockAssumption DEF Open, LockInv, Branches, Stages, Named, TypeOK
<1>4. Flocked'
  <2>1. /\ useFlock /\ pc[p] = "new" /\ ~open[p] /\ ~kid[p] /\ path' \in Inodes
        /\ fd' = [fd EXCEPT ![p] = path'] /\ open' = [open EXCEPT ![p] = TRUE]
        /\ pc' = [pc EXCEPT ![p] = "opened"]
        /\ UNCHANGED <<useFlock, kid, flocked>>
    BY PathTypes DEF Open, LockInv, Stages
  <2>2. \A i \in Inodes : flocked[i] # p
    BY <2>1 DEF LockInv, Flocked
  <2>3. /\ pc'[p] = "opened" /\ open'[p] /\ fd'[p] \in Inodes
        /\ \A q \in Procs \ {p} : pc'[q] = pc[q] /\ open'[q] = open[q] /\ fd'[q] = fd[q]
    BY <2>1 DEF TypeOK
  <2>4. NoInode \notin Inodes
    BY LockAssumption DEF Inodes, NoInode
  <2> QED BY <2>1, <2>2, <2>3, <2>4 DEF LockInv, Flocked
<1>5. OnePath'
  <2> SUFFICES ASSUME useFlock, ~breach PROVE OnePath'
    BY DEF Open, OnePath
  <2>1. /\ pc[p] = "new" /\ path' \in Inodes
        /\ path # NoInode => path' = path
        /\ fd' = [fd EXCEPT ![p] = path'] /\ open' = [open EXCEPT ![p] = TRUE]
        /\ pc' = [pc EXCEPT ![p] = "opened"]
        /\ UNCHANGED <<kid, stamp>>
    BY PathTypes DEF Open
  <2>2. /\ pc'[p] = "opened" /\ fd'[p] = path'
        /\ \A q \in Procs \ {p} : pc'[q] = pc[q] /\ open'[q] = open[q] /\ fd'[q] = fd[q]
    BY <2>1 DEF TypeOK
  <2>3. \A q \in Procs : open[q] \/ kid[q] => path' = fd[q]
    BY <2>1 DEF LockInv, OnePath
  <2>4. \A q \in Procs : pc[q] \in Owning => stamp[fd[q]] = q
    BY DEF LockInv, OnePath
  <2>5. NoInode \notin Inodes
    BY LockAssumption DEF Inodes, NoInode
  <2> QED BY <2>1, <2>2, <2>3, <2>4, <2>5 DEF OnePath
<1>6. Signed'
  BY LockAssumption DEF Open, LockInv, Branches, Stages, Named, Signed, TypeOK
<1>7. Mended'
  BY LockAssumption DEF Open, LockInv, Branches, Named, Stages, Removes, Mended, TypeOK
<1> QED BY <1>1, <1>2, <1>3, <1>4, <1>5, <1>6, <1>7 DEF LockInv

\* A flock goes to a descriptor nobody has locked.
LEMMA FlockLock == ASSUME TypeOK, LockInv, NEW p \in Procs, Flock(p) PROVE LockInv'
<1> USE DEF flockVars, dirVars, trapVars, Goto, At, FlockPCs, DirPCs, Owning
<1>1. Branches'
  BY LockAssumption DEF Flock, LockInv, Branches, TypeOK
<1>2. Stages'
  BY LockAssumption DEF Flock, LockInv, Branches, Stages, TypeOK
<1>3. Named'
  BY LockAssumption DEF Flock, LockInv, Branches, Stages, Named, TypeOK
<1>4. Flocked'
  BY LockAssumption DEF Flock, LockInv, Branches, Stages, Flocked, TypeOK
<1>5. OnePath'
  BY LockAssumption DEF Flock, LockInv, Branches, Stages, Flocked, Named, OnePath, TypeOK
<1>6. Signed'
  BY LockAssumption DEF Flock, LockInv, Branches, Stages, Named, Signed, TypeOK
<1>7. Mended'
  BY LockAssumption DEF Flock, LockInv, Branches, Named, Stages, Removes, Mended, TypeOK
<1> QED BY <1>1, <1>2, <1>3, <1>4, <1>5, <1>6, <1>7 DEF LockInv

\* A refused process only loses its descriptor.
LEMMA FlockRefusedLock == ASSUME TypeOK, LockInv, NEW p \in Procs, FlockRefused(p) PROVE LockInv'
<1> USE DEF flockVars, dirVars, trapVars, Goto, At, FlockPCs, DirPCs, Owning
<1>1. Branches'
  BY LockAssumption DEF FlockRefused, LockInv, Branches, TypeOK
<1>2. Stages'
  BY LockAssumption DEF FlockRefused, LockInv, Branches, Stages, TypeOK
<1>3. Named'
  BY LockAssumption DEF FlockRefused, LockInv, Branches, Stages, Named, TypeOK
<1>4. Flocked'
  BY LockAssumption DEF FlockRefused, LockInv, Branches, Stages, Flocked, TypeOK
<1>5. OnePath'
  BY LockAssumption DEF FlockRefused, LockInv, Branches, Stages, Flocked, Named, OnePath, TypeOK
<1>6. Signed'
  BY LockAssumption DEF FlockRefused, LockInv, Branches, Stages, Named, Signed, TypeOK
<1>7. Mended'
  BY LockAssumption DEF FlockRefused, LockInv, Branches, Named, Stages, Removes, Mended, TypeOK
<1> QED BY <1>1, <1>2, <1>3, <1>4, <1>5, <1>6, <1>7 DEF LockInv

\* The truncation hits the owner's own inode, since the path leads there.
LEMMA StampLock == ASSUME TypeOK, LockInv, NEW p \in Procs, Stamp(p) PROVE LockInv'
<1> USE DEF flockVars, dirVars, trapVars, Goto, At, FlockPCs, DirPCs, Owning
<1>1. Branches'
  BY LockAssumption DEF Stamp, LockInv, Branches, TypeOK
<1>2. Stages'
  BY LockAssumption DEF Stamp, LockInv, Branches, Stages, TypeOK
<1>3. Named'
  BY LockAssumption DEF Stamp, LockInv, Branches, Stages, Named, TypeOK
<1>4. Flocked'
  BY LockAssumption DEF Stamp, LockInv, Branches, Stages, Flocked, TypeOK
<1>5. OnePath'
  BY LockAssumption DEF Stamp, LockInv, Branches, Stages, Flocked, Named, OnePath, TypeOK
<1>6. Signed'
  BY LockAssumption DEF Stamp, LockInv, Branches, Stages, Named, Signed, TypeOK
<1>7. Mended'
  BY LockAssumption DEF Stamp, LockInv, Branches, Named, Stages, Removes, Mended, TypeOK
<1> QED BY <1>1, <1>2, <1>3, <1>4, <1>5, <1>6, <1>7 DEF LockInv

\* Only one process can make the directory, and it is empty then.
LEMMA MkdirLock == ASSUME TypeOK, LockInv, NEW p \in Procs, Mkdir(p) PROVE LockInv'
<1> USE DEF flockVars, dirVars, trapVars, Goto, At, FlockPCs, DirPCs, Owning
<1>1. Branches'
  BY LockAssumption DEF Mkdir, LockInv, Branches, TypeOK
<1>2. Stages'
  BY LockAssumption DEF Mkdir, LockInv, Branches, Stages, TypeOK
<1>3. Named'
  BY LockAssumption DEF Mkdir, LockInv, Branches, Stages, Named, TypeOK
<1>4. Flocked'
  BY LockAssumption DEF Mkdir, LockInv, Branches, Stages, Flocked, TypeOK
<1>5. OnePath'
  BY LockAssumption DEF Mkdir, LockInv, Branches, Stages, Flocked, Named, OnePath, TypeOK
<1>6. Signed'
  <2> SUFFICES ASSUME ~useFlock, ~breach' PROVE Signed'
    BY DEF Mkdir, Signed
  <2>1. ~breach /\ dir' /\ UNCHANGED <<kid, pid>> /\ pc'[p] \in {"made", "check", "refused"}
        /\ \A q \in Procs \ {p} : pc'[q] = pc[q]
    BY DEF Mkdir, TypeOK
  <2>2. ~kid[p] /\ (pc'[p] = "made" => ~dir /\ pid = NoProc)
    BY DEF Mkdir, TypeOK, LockInv, Stages, Mended
  <2>3. \A q \in Procs : pc[q] = "made" => dir
    BY <2>1 DEF LockInv, Signed
  <2> QED BY <2>1, <2>2, <2>3 DEF LockInv, Signed
<1>7. Mended'
  BY LockAssumption DEF Mkdir, LockInv, Branches, Named, Stages, Removes, Mended, TypeOK
<1> QED BY <1>1, <1>2, <1>3, <1>4, <1>5, <1>6, <1>7 DEF LockInv

\* The directory is its maker's to sign, since nobody else is in it.
LEMMA WritePidLock == ASSUME TypeOK, LockInv, NEW p \in Procs, WritePid(p) PROVE LockInv'
<1> USE DEF flockVars, dirVars, trapVars, Goto, At, FlockPCs, DirPCs, Owning
<1>1. Branches'
  BY LockAssumption DEF WritePid, LockInv, Branches, TypeOK
<1>2. Stages'
  BY LockAssumption DEF WritePid, LockInv, Branches, Stages, TypeOK
<1>3. Named'
  BY LockAssumption DEF WritePid, LockInv, Branches, Stages, Named, TypeOK
<1>4. Flocked'
  BY LockAssumption DEF WritePid, LockInv, Branches, Stages, Flocked, TypeOK
<1>5. OnePath'
  BY LockAssumption DEF WritePid, LockInv, Branches, Stages, Flocked, Named, OnePath, TypeOK
<1>6. Signed'
  <2> SUFFICES ASSUME ~useFlock, ~breach' PROVE Signed'
    BY DEF WritePid, Signed
  <2>1. /\ ~breach /\ dir /\ pid = NoProc /\ pc[p] = "made" /\ ~kid[p]
        /\ \A q \in Procs : pc[q] = "made" => q = p
    BY DEF WritePid, LockInv, Stages, Signed
  <2>2. pid' = p /\ UNCHANGED <<dir, kid>> /\ pc' = [pc EXCEPT ![p] = "signed"]
    BY <2>1 DEF WritePid
  <2>3. pc'[p] = "signed" /\ \A q \in Procs \ {p} : pc'[q] = pc[q]
    BY <2>2 DEF TypeOK
  <2>4. \A q \in Procs \ {p} : pc[q] \notin Owning /\ ~kid[q]
    BY <2>1, LockAssumption, PidAssumption DEF LockInv, Signed
  <2> QED BY <2>1, <2>2, <2>3, <2>4 DEF Signed
<1>7. Mended'
  BY LockAssumption DEF WritePid, LockInv, Branches, Named, Stages, Removes, Mended, TypeOK
<1> QED BY <1>1, <1>2, <1>3, <1>4, <1>5, <1>6, <1>7 DEF LockInv

\* Looking at the pid changes nothing.
LEMMA LookAtPidLock == ASSUME TypeOK, LockInv, NEW p \in Procs, ReadPid(p) \/ CheckPid(p) PROVE LockInv'
<1> USE DEF flockVars, dirVars, trapVars, Goto, At, FlockPCs, DirPCs, Owning
<1>1. Branches'
  BY LockAssumption DEF ReadPid, CheckPid, LockInv, Branches, TypeOK
<1>2. Stages'
  BY LockAssumption DEF ReadPid, CheckPid, LockInv, Branches, Stages, TypeOK
<1>3. Named'
  BY LockAssumption DEF ReadPid, CheckPid, LockInv, Branches, Stages, Named, TypeOK
<1>4. Flocked'
  BY LockAssumption DEF ReadPid, CheckPid, LockInv, Branches, Stages, Flocked, TypeOK
<1>5. OnePath'
  BY LockAssumption DEF ReadPid, CheckPid, LockInv, Branches, Stages, Flocked, Named, OnePath, TypeOK
<1>6. Signed'
  BY LockAssumption DEF ReadPid, CheckPid, LockInv, Branches, Stages, Named, Signed, TypeOK
<1>7. Mended'
  BY LockAssumption DEF ReadPid, CheckPid, LockInv, Branches, Named, Stages, Removes, Mended, TypeOK
<1> QED BY <1>1, <1>2, <1>3, <1>4, <1>5, <1>6, <1>7 DEF LockInv

\* A pid that is removed without a breach is nobody's.
LEMMA RemoveStalePidLock == ASSUME TypeOK, LockInv, NEW p \in Procs, RemoveStalePid(p) PROVE LockInv'
<1> USE DEF flockVars, dirVars, trapVars, Goto, At, FlockPCs, DirPCs, Owning
<1>1. Branches'
  BY LockAssumption DEF RemoveStalePid, LockInv, Branches, TypeOK
<1>2. Stages'
  BY LockAssumption DEF RemoveStalePid, LockInv, Branches, Stages, TypeOK
<1>3. Named'
  BY LockAssumption DEF RemoveStalePid, LockInv, Branches, Stages, Named, TypeOK
<1>4. Flocked'
  BY LockAssumption DEF RemoveStalePid, LockInv, Branches, Stages, Flocked, TypeOK
<1>5. OnePath'
  BY LockAssumption DEF RemoveStalePid, LockInv, Branches, Stages, Flocked, Named, OnePath, TypeOK
<1>6. Signed'
  <2> SUFFICES ASSUME ~useFlock, ~breach' PROVE Signed'
    BY DEF RemoveStalePid, Signed
  <2>1. /\ ~breach /\ ~Alive(pid) /\ pid' = NoProc /\ UNCHANGED <<dir, kid>>
        /\ pc' = [pc EXCEPT ![p] = "emptied"] /\ pc[p] = "stale"
    BY DEF RemoveStalePid
  <2>2. pc'[p] = "emptied" /\ \A q \in Procs \ {p} : pc'[q] = pc[q]
    BY <2>1 DEF TypeOK
  <2>3. \A q \in Procs : pid # q \/ pc[q] \notin Owning
    BY <2>1 DEF Alive, Over
  <2>4. \A q \in Procs : pid # KidOf(q) \/ ~kid[q]
    BY <2>1 DEF Alive
  <2>5. \A q \in Procs : pc[q] \notin Owning /\ ~kid[q]
    BY <2>1, <2>3, <2>4 DEF LockInv, Signed
  <2> QED BY <2>1, <2>2, <2>5 DEF LockInv, Signed
<1>7. Mended'
  BY LockAssumption DEF RemoveStalePid, LockInv, Branches, Named, Stages, Removes, Mended, TypeOK
<1> QED BY <1>1, <1>2, <1>3, <1>4, <1>5, <1>6, <1>7 DEF LockInv

\* A directory that is removed without a breach is nobody's, signed or about to be.
LEMMA RemoveStaleDirLock == ASSUME TypeOK, LockInv, NEW p \in Procs, RemoveStaleDir(p) PROVE LockInv'
<1> USE DEF flockVars, dirVars, trapVars, Goto, At, FlockPCs, DirPCs, Owning
<1>1. Branches'
  BY LockAssumption DEF RemoveStaleDir, LockInv, Branches, TypeOK
<1>2. Stages'
  BY LockAssumption DEF RemoveStaleDir, LockInv, Branches, Stages, TypeOK
<1>3. Named'
  BY LockAssumption DEF RemoveStaleDir, LockInv, Branches, Stages, Named, TypeOK
<1>4. Flocked'
  BY LockAssumption DEF RemoveStaleDir, LockInv, Branches, Stages, Flocked, TypeOK
<1>5. OnePath'
  BY LockAssumption DEF RemoveStaleDir, LockInv, Branches, Stages, Flocked, Named, OnePath, TypeOK
<1>6. Signed'
  <2> SUFFICES ASSUME ~useFlock, ~breach' PROVE Signed'
    BY DEF RemoveStaleDir, Signed
  <2>1. /\ ~breach /\ ~(dir /\ pid = NoProc /\ \E q \in Procs : pc[q] = "made")
        /\ UNCHANGED <<pid, kid>> /\ pc[p] = "emptied"
        /\ pc' = [pc EXCEPT ![p] = "retry"] /\ dir' = (dir /\ pid # NoProc)
    BY DEF RemoveStaleDir
  <2>2. pc'[p] = "retry" /\ \A q \in Procs \ {p} : pc'[q] = pc[q]
    BY <2>1 DEF TypeOK
  <2>3. \A q \in Procs : pc[q] # "made"
    BY <2>1 DEF LockInv, Signed
  <2>4. \A q \in Procs : q # NoProc /\ KidOf(q) # NoProc
    BY LockAssumption, PidAssumption
  <2>5. \A q \in Procs : pc[q] \in Owning \/ kid[q] => dir /\ pid # NoProc
    BY <2>1, <2>4 DEF LockInv, Signed
  <2> QED BY <2>1, <2>2, <2>3, <2>5 DEF LockInv, Signed
<1>7. Mended'
  BY LockAssumption DEF RemoveStaleDir, LockInv, Branches, Named, Stages, Removes, Mended, TypeOK
<1> QED BY <1>1, <1>2, <1>3, <1>4, <1>5, <1>6, <1>7 DEF LockInv

\* What is to be released is named once it is held.
LEMMA NameFileLock == ASSUME TypeOK, LockInv, NEW p \in Procs, NameFile(p) PROVE LockInv'
<1> USE DEF flockVars, dirVars, trapVars, Goto, At, FlockPCs, DirPCs, Owning
<1>1. Branches'
  BY LockAssumption DEF NameFile, LockInv, Branches, TypeOK
<1>2. Stages'
  BY LockAssumption DEF NameFile, LockInv, Branches, Stages, TypeOK
<1>3. Named'
  BY LockAssumption DEF NameFile, LockInv, Branches, Stages, Named, TypeOK
<1>4. Flocked'
  BY LockAssumption DEF NameFile, LockInv, Branches, Stages, Flocked, TypeOK
<1>5. OnePath'
  BY LockAssumption DEF NameFile, LockInv, Branches, Stages, Flocked, Named, OnePath, TypeOK
<1>6. Signed'
  BY LockAssumption DEF NameFile, LockInv, Branches, Stages, Named, Signed, TypeOK
<1>7. Mended'
  BY LockAssumption DEF NameFile, LockInv, Branches, Named, Stages, Removes, Mended, TypeOK
<1> QED BY <1>1, <1>2, <1>3, <1>4, <1>5, <1>6, <1>7 DEF LockInv

\* So is the directory.
LEMMA NameDirLock == ASSUME TypeOK, LockInv, NEW p \in Procs, NameDir(p) PROVE LockInv'
<1> USE DEF flockVars, dirVars, trapVars, Goto, At, FlockPCs, DirPCs, Owning
<1>1. Branches'
  BY LockAssumption DEF NameDir, LockInv, Branches, TypeOK
<1>2. Stages'
  BY LockAssumption DEF NameDir, LockInv, Branches, Stages, TypeOK
<1>3. Named'
  BY LockAssumption DEF NameDir, LockInv, Branches, Stages, Named, TypeOK
<1>4. Flocked'
  BY LockAssumption DEF NameDir, LockInv, Branches, Stages, Flocked, TypeOK
<1>5. OnePath'
  BY LockAssumption DEF NameDir, LockInv, Branches, Stages, Flocked, Named, OnePath, TypeOK
<1>6. Signed'
  BY LockAssumption DEF NameDir, LockInv, Branches, Stages, Named, Signed, TypeOK
<1>7. Mended'
  BY LockAssumption DEF NameDir, LockInv, Branches, Named, Stages, Removes, Mended, TypeOK
<1> QED BY <1>1, <1>2, <1>3, <1>4, <1>5, <1>6, <1>7 DEF LockInv

\* The child shares its parent's lock.
LEMMA StartLock == ASSUME TypeOK, LockInv, NEW p \in Procs, StartForeground(p) \/ StartBackground(p) PROVE LockInv'
<1> USE DEF flockVars, dirVars, trapVars, Goto, At, FlockPCs, DirPCs, Owning
<1>1. Branches'
  BY LockAssumption DEF StartForeground, StartBackground, LockInv, Branches, TypeOK
<1>2. Stages'
  BY LockAssumption DEF StartForeground, StartBackground, LockInv, Branches, Stages, TypeOK
<1>3. Named'
  BY LockAssumption DEF StartForeground, StartBackground, LockInv, Branches, Stages, Named, TypeOK
<1>4. Flocked'
  BY LockAssumption DEF StartForeground, StartBackground, LockInv, Branches, Stages, Flocked, TypeOK
<1>5. OnePath'
  <2>0. UNCHANGED <<useFlock, breach>>
    BY DEF StartForeground, StartBackground
  <2> SUFFICES ASSUME useFlock, ~breach PROVE OnePath'
    BY <2>0 DEF OnePath
  <2>1. /\ pc[p] = "held" /\ UNCHANGED <<fd, open, path, stamp>>
        /\ kid' = [kid EXCEPT ![p] = TRUE]
        /\ \A q \in Procs \ {p} : pc'[q] = pc[q]
    BY DEF StartForeground, StartBackground, TypeOK
  <2>2. open[p] /\ \A q \in Procs \ {p} : kid'[q] = kid[q]
    BY <2>1 DEF LockInv, Named, TypeOK
  <2>3. \A q \in Procs : open[q] \/ kid[q] => path = fd[q] /\ fd[q] # NoInode
    BY DEF LockInv, OnePath
  <2>4. \A q \in Procs : pc'[q] \in Owning => stamp[fd[q]] = q
    BY <2>1 DEF LockInv, OnePath
  <2> QED BY <2>1, <2>2, <2>3, <2>4 DEF OnePath
<1>6. Signed'
  BY LockAssumption DEF StartForeground, StartBackground, LockInv, Branches, Stages, Named, Signed, TypeOK
<1>7. Mended'
  BY LockAssumption DEF StartForeground, StartBackground, LockInv, Branches, Named, Stages, Removes, Mended, TypeOK
<1> QED BY <1>1, <1>2, <1>3, <1>4, <1>5, <1>6, <1>7 DEF LockInv

\* The flock goes with its last descriptor.
LEMMA KidExitLock == ASSUME TypeOK, LockInv, NEW p \in Procs, KidExit(p) PROVE LockInv'
<1> USE DEF flockVars, dirVars, trapVars, Goto, At, FlockPCs, DirPCs, Owning
<1>1. Branches'
  BY LockAssumption DEF KidExit, Unflock, LockInv, Branches, TypeOK
<1>2. Stages'
  BY LockAssumption DEF KidExit, Unflock, LockInv, Branches, Stages, TypeOK
<1>3. Named'
  BY LockAssumption DEF KidExit, Unflock, LockInv, Branches, Stages, Named, TypeOK
<1>4. Flocked'
  BY LockAssumption DEF KidExit, Unflock, LockInv, Branches, Stages, Flocked, TypeOK
<1>5. OnePath'
  BY LockAssumption DEF KidExit, Unflock, LockInv, Branches, Stages, Flocked, Named, OnePath, TypeOK
<1>6. Signed'
  BY LockAssumption DEF KidExit, Unflock, LockInv, Branches, Stages, Named, Signed, TypeOK
<1>7. Mended'
  BY LockAssumption DEF KidExit, Unflock, LockInv, Branches, Named, Stages, Removes, Mended, TypeOK
<1> QED BY <1>1, <1>2, <1>3, <1>4, <1>5, <1>6, <1>7 DEF LockInv

\* The child keeps the flock; the directory is signed over to it.
LEMMA DetachLock == ASSUME TypeOK, LockInv, NEW p \in Procs, Detach(p) PROVE LockInv'
<1> USE DEF flockVars, dirVars, trapVars, Goto, At, FlockPCs, DirPCs, Owning
<1>1. Branches'
  BY LockAssumption DEF Detach, CloseDescriptor, Unflock, LockInv, Branches, TypeOK
<1>2. Stages'
  BY LockAssumption DEF Detach, CloseDescriptor, Unflock, LockInv, Branches, Stages, TypeOK
<1>3. Named'
  BY LockAssumption DEF Detach, CloseDescriptor, Unflock, LockInv, Branches, Stages, Named, TypeOK
<1>4. Flocked'
  BY LockAssumption DEF Detach, CloseDescriptor, Unflock, LockInv, Branches, Stages, Flocked, TypeOK
<1>5. OnePath'
  BY LockAssumption DEF Detach, CloseDescriptor, Unflock, LockInv, Branches, Stages, Flocked, Named, OnePath, TypeOK
<1>6. Signed'
  <2> SUFFICES ASSUME ~useFlock, ~breach' PROVE Signed'
    BY DEF Detach, Signed
  <2>1. /\ ~breach /\ dir /\ pid = p /\ pc[p] = "forked" /\ p # NoProc
    BY LockAssumption DEF Detach, At, LockInv, Signed
  <2>2. ~open[p] /\ "file" \in named[p]
    BY <2>1 DEF LockInv, Branches, Named
  <2>3. /\ pid' = KidOf(p) /\ UNCHANGED <<dir, kid>> /\ pc' = [pc EXCEPT ![p] = "done"]
    BY <2>1, <2>2 DEF Detach
  <2>4. pc'[p] = "done" /\ \A q \in Procs \ {p} : pc'[q] = pc[q]
    BY <2>3 DEF TypeOK
  <2>5. \A q \in Procs \ {p} : pc[q] \notin Owning /\ ~kid[q] /\ pc[q] # "made"
    BY <2>1, LockAssumption, PidAssumption DEF LockInv, Signed
  <2> QED BY <2>1, <2>3, <2>4, <2>5 DEF Signed
<1>7. Mended'
  <2>1. dir' = dir /\ (pid' = pid \/ (pid' = KidOf(p) /\ pid # NoProc)) /\ KidOf(p) # NoProc
    BY PidAssumption DEF Detach
  <2>2. \A q \in Procs \ {p} : pc'[q] = pc[q] /\ named'[q] = named[q]
    BY DEF Detach, TypeOK
  <2>3. pc[p] = "forked" /\ ~trap[p] /\ stray' = stray /\ trap' = trap
    BY DEF Detach
  <2>4. \A q \in Procs : Removes(q) => Removes(q)'
    BY <2>2, <2>3 DEF Removes
  <2> QED BY <2>1, <2>4 DEF LockInv, Mended
<1> QED BY <1>1, <1>2, <1>3, <1>4, <1>5, <1>6, <1>7 DEF LockInv

\* The owner gives up its own pid, or its own descriptor.
LEMMA ReleaseLock == ASSUME TypeOK, LockInv, NEW p \in Procs, Release(p) PROVE LockInv'
<1> USE DEF flockVars, dirVars, trapVars, Goto, At, FlockPCs, DirPCs, Owning
<1>1. Branches'
  BY LockAssumption DEF Release, CloseLock, CloseDescriptor, Unflock, LockInv, Branches, TypeOK
<1>2. Stages'
  BY LockAssumption DEF Release, CloseLock, CloseDescriptor, Unflock, LockInv, Branches, Stages, TypeOK
<1>3. Named'
  BY LockAssumption DEF Release, CloseLock, CloseDescriptor, Unflock, LockInv, Branches, Stages, Named, TypeOK
<1>4. Flocked'
  BY LockAssumption DEF Release, CloseLock, CloseDescriptor, Unflock, LockInv, Branches, Stages, Flocked, TypeOK
<1>5. OnePath'
  BY LockAssumption DEF Release, CloseLock, CloseDescriptor, Unflock, LockInv, Branches, Stages, Flocked, Named, OnePath, TypeOK
<1>6. Signed'
  <2> SUFFICES ASSUME ~useFlock, ~breach' PROVE Signed'
    BY DEF Release, CloseLock, Signed
  <2>1. ~breach /\ pid = p /\ pc[p] = "post" /\ ~kid[p]
    BY DEF Release, CloseLock, At, LockInv, Stages, Signed
  <2>2. UNCHANGED <<dir, kid>> /\ pc' = [pc EXCEPT ![p] = "closing"]
    BY DEF Release, CloseLock
  <2>3. pc'[p] = "closing" /\ \A q \in Procs \ {p} : pc'[q] = pc[q]
    BY <2>2 DEF TypeOK
  <2>4. \A q \in Procs \ {p} : pc[q] \notin Owning /\ ~kid[q] /\ pc[q] # "made"
    BY <2>1, LockAssumption, PidAssumption DEF LockInv, Signed
  <2> QED BY <2>1, <2>2, <2>3, <2>4 DEF Signed
<1>7. Mended'
  BY LockAssumption DEF Release, CloseLock, CloseDescriptor, Unflock, LockInv, Branches, Named, Stages, Removes, Mended, TypeOK
<1> QED BY <1>1, <1>2, <1>3, <1>4, <1>5, <1>6, <1>7 DEF LockInv

\* The path or the directory that goes was in nobody's hands, or that is a breach.
LEMMA ReleasePathLock == ASSUME TypeOK, LockInv, NEW p \in Procs, ReleasePath(p) PROVE LockInv'
<1> USE DEF flockVars, dirVars, trapVars, Goto, At, FlockPCs, DirPCs, Owning
<1>1. Branches'
  BY LockAssumption DEF ReleasePath, Unlink, Others, LockInv, Branches, TypeOK
<1>2. Stages'
  BY LockAssumption DEF ReleasePath, Unlink, Others, LockInv, Branches, Stages, TypeOK
<1>3. Named'
  BY LockAssumption DEF ReleasePath, Unlink, Others, LockInv, Branches, Stages, Named, TypeOK
<1>4. Flocked'
  BY LockAssumption DEF ReleasePath, Unlink, Others, LockInv, Branches, Stages, Flocked, TypeOK
<1>5. OnePath'
  BY LockAssumption DEF ReleasePath, Unlink, Others, LockInv, Branches, Stages, Flocked, Named, OnePath, TypeOK
<1>6. Signed'
  <2> SUFFICES ASSUME ~useFlock, ~breach' PROVE Signed'
    BY DEF ReleasePath, Unlink, Signed
  <2>1. /\ ~breach /\ UNCHANGED <<pid, kid>> /\ pc[p] = "closing"
        /\ pc' = [pc EXCEPT ![p] = "done"]
    BY DEF ReleasePath, Unlink
  <2>2. pc'[p] = "done" /\ \A q \in Procs \ {p} : pc'[q] = pc[q]
    BY <2>1 DEF TypeOK
  <2>3. \A q \in Procs : q # NoProc /\ KidOf(q) # NoProc
    BY LockAssumption, PidAssumption
  <2>4. CASE dir => dir'
    BY <2>1, <2>2, <2>4 DEF LockInv, Signed
  <2>5. CASE dir /\ ~dir'
    <3>0. pid = NoProc /\ ~\E q \in Procs : pc[q] = "made"
      BY <2>5 DEF ReleasePath, Unlink
    <3>1. \A q \in Procs : pc[q] \notin Owning /\ ~kid[q] /\ pc[q] # "made"
      BY <2>1, <2>3, <3>0 DEF LockInv, Signed
    <3> QED BY <2>1, <2>2, <3>1 DEF Signed
  <2> QED BY <2>4, <2>5
<1>7. Mended'
  BY LockAssumption DEF ReleasePath, Unlink, Others, LockInv, Branches, Named, Stages, Removes, Mended, TypeOK
<1> QED BY <1>1, <1>2, <1>3, <1>4, <1>5, <1>6, <1>7 DEF LockInv

\* After a trap that took the lock there is nothing left to break; the directory goes, or its process is a stray.
LEMMA ReleaseInterruptedLock == ASSUME TypeOK, LockInv, NEW p \in Procs, ReleaseInterrupted(p) PROVE LockInv'
<1> USE DEF flockVars, dirVars, trapVars, Goto, At, FlockPCs, DirPCs, Owning
<1>1. Branches'
  BY LockAssumption DEF ReleaseInterrupted, Unlink, Others, LockInv, Branches, TypeOK
<1>2. Stages'
  BY LockAssumption DEF ReleaseInterrupted, Unlink, Others, LockInv, Branches, Stages, TypeOK
<1>3. Named'
  BY LockAssumption DEF ReleaseInterrupted, Unlink, Others, LockInv, Branches, Stages, Named, TypeOK
<1>4. Flocked'
  BY LockAssumption DEF ReleaseInterrupted, Unlink, Others, LockInv, Branches, Stages, Flocked, TypeOK
<1>5. OnePath'
  BY LockAssumption DEF ReleaseInterrupted, Unlink, Others, LockInv, Branches, Stages, Flocked, Named, OnePath, TypeOK
<1>6. Signed'
  BY LockAssumption DEF ReleaseInterrupted, Unlink, Others, LockInv, Branches, Stages, Named, Signed, TypeOK
<1>7. Mended'
  BY LockAssumption DEF ReleaseInterrupted, Unlink, Others, LockInv, Branches, Named, Stages, Removes, Mended, TypeOK
<1> QED BY <1>1, <1>2, <1>3, <1>4, <1>5, <1>6, <1>7 DEF LockInv

\* A second removal is a breach, and leaves the names alone.
LEMMA ReleaseAgainLock == ASSUME TypeOK, LockInv, NEW p \in Procs, ReleaseAgain(p) PROVE LockInv'
<1> USE DEF flockVars, dirVars, trapVars, Goto, At, FlockPCs, DirPCs, Owning
<1>1. Branches'
  BY LockAssumption DEF ReleaseAgain, LockInv, Branches, TypeOK
<1>2. Stages'
  BY LockAssumption DEF ReleaseAgain, LockInv, Branches, Stages, TypeOK
<1>3. Named'
  BY LockAssumption DEF ReleaseAgain, LockInv, Branches, Stages, Named, TypeOK
<1>4. Flocked'
  BY LockAssumption DEF ReleaseAgain, LockInv, Branches, Stages, Flocked, TypeOK
<1>5. OnePath'
  BY LockAssumption DEF ReleaseAgain, LockInv, Branches, Stages, Flocked, Named, OnePath, TypeOK
<1>6. Signed'
  BY LockAssumption DEF ReleaseAgain, LockInv, Branches, Stages, Named, Signed, TypeOK
<1>7. Mended'
  BY LockAssumption DEF ReleaseAgain, LockInv, Branches, Named, Stages, Removes, Mended, TypeOK
<1> QED BY <1>1, <1>2, <1>3, <1>4, <1>5, <1>6, <1>7 DEF LockInv

\* A trap takes the lock from a process that goes on; a child's copy of the descriptor still has the flock.
LEMMA InterruptLock == ASSUME TypeOK, LockInv, NEW p \in Procs, Interrupt(p) PROVE LockInv'
<1> USE DEF flockVars, dirVars, trapVars, Goto, At, FlockPCs, DirPCs, Owning
<1>1. Branches'
  BY LockAssumption DEF Interrupt, CloseLock, CloseDescriptor, Unflock, LockInv, Branches, TypeOK
<1>2. Stages'
  BY LockAssumption DEF Interrupt, CloseLock, CloseDescriptor, Unflock, LockInv, Branches, Stages, TypeOK
<1>3. Named'
  BY LockAssumption DEF Interrupt, CloseLock, CloseDescriptor, Unflock, LockInv, Branches, Stages, Named, TypeOK
<1>4. Flocked'
  BY LockAssumption DEF Interrupt, CloseLock, CloseDescriptor, Unflock, LockInv, Branches, Stages, Flocked, TypeOK
<1>5. OnePath'
  BY LockAssumption DEF Interrupt, CloseLock, CloseDescriptor, Unflock, LockInv, Branches, Stages, Flocked, Named, OnePath, TypeOK
<1>6. Signed'
  BY LockAssumption DEF Interrupt, CloseLock, CloseDescriptor, Unflock, LockInv, Branches, Stages, Named, Signed, TypeOK
<1>7. Mended'
  <2>1. /\ dir' = dir /\ pc' = pc /\ stray' = stray
        /\ pid' = pid \/ (pid' = NoProc /\ ~useFlock /\ "file" \in named[p])
    BY DEF Interrupt, CloseLock
  <2>2. /\ trap'[p]
        /\ "dir" \in named[p] => "dir" \in named'[p]
        /\ \A q \in Procs \ {p} : trap'[q] = trap[q] /\ named'[q] = named[q]
    BY DEF Interrupt, CloseLock, TypeOK
  <2>3. \A q \in Procs : Removes(q) => Removes(q)'
    BY <2>1, <2>2 DEF Removes
  <2>4. ~useFlock /\ "file" \in named[p] => Removes(p)'
    <3>1. ~useFlock /\ "file" \in named[p] => pc[p] \in {"named", "held", "post", "forked"}
      BY DEF Interrupt, LockInv, Branches, Named
    <3>2. ~useFlock /\ "file" \in named[p] /\ pc[p] # "named" => "dir" \in named[p] \/ stray[p]
      BY <3>1 DEF LockInv, Named
    <3> QED BY <2>1, <2>2, <3>1, <3>2 DEF Removes
  <2> QED BY <2>1, <2>3, <2>4 DEF LockInv, Mended
<1> QED BY <1>1, <1>2, <1>3, <1>4, <1>5, <1>6, <1>7 DEF LockInv

\* A killed process leaves its flock to its child, or to nobody.
LEMMA KillLock == ASSUME TypeOK, LockInv, NEW p \in Procs, Kill(p) PROVE LockInv'
<1> USE DEF flockVars, dirVars, trapVars, Goto, At, FlockPCs, DirPCs, Owning
<1>1. Branches'
  BY LockAssumption DEF Kill, CloseDescriptor, Unflock, LockInv, Branches, TypeOK
<1>2. Stages'
  BY LockAssumption DEF Kill, CloseDescriptor, Unflock, LockInv, Branches, Stages, TypeOK
<1>3. Named'
  BY LockAssumption DEF Kill, CloseDescriptor, Unflock, LockInv, Branches, Stages, Named, TypeOK
<1>4. Flocked'
  BY LockAssumption DEF Kill, CloseDescriptor, Unflock, LockInv, Branches, Stages, Flocked, TypeOK
<1>5. OnePath'
  BY LockAssumption DEF Kill, CloseDescriptor, Unflock, LockInv, Branches, Stages, Flocked, Named, OnePath, TypeOK
<1>6. Signed'
  BY LockAssumption DEF Kill, CloseDescriptor, Unflock, LockInv, Branches, Stages, Named, Signed, TypeOK
<1>7. Mended'
  BY LockAssumption DEF Kill, CloseDescriptor, Unflock, LockInv, Branches, Named, Stages, Removes, Mended, TypeOK
<1> QED BY <1>1, <1>2, <1>3, <1>4, <1>5, <1>6, <1>7 DEF LockInv

-----------------------------------------------------------------------------
(* Theorems. *)

\* Nobody holds anything at first but a dead process its directory.
LEMMA InitLock == Init => LockInv
<1> SUFFICES ASSUME Init PROVE LockInv
  OBVIOUS
<1> USE DEF FlockPCs, DirPCs, Owning
<1>1. Branches
  BY DEF Init, Branches
<1>2. Stages /\ Named
  BY DEF Init, Stages, Named
<1>3. Flocked
  BY LockAssumption DEF Init, Flocked
<1>4. OnePath
  BY DEF Init, OnePath
<1>5. Signed
  BY DEF Init, Signed
<1>6. Mended
  BY LockAssumption DEF Init, Mended
<1> QED BY <1>1, <1>2, <1>3, <1>4, <1>5, <1>6 DEF LockInv

\* Every step of any process, and a stutter, keep the invariant.
LEMMA StepLock == TypeOK /\ LockInv /\ [Next]_vars => LockInv'
<1> SUFFICES ASSUME TypeOK, LockInv, [Next]_vars PROVE LockInv'
  OBVIOUS
<1>1. ASSUME NEW p \in Procs, AcquireStep(p) PROVE LockInv'
  BY <1>1, OpenLock, FlockLock, FlockRefusedLock, StampLock, MkdirLock, WritePidLock,
     LookAtPidLock, RemoveStalePidLock, RemoveStaleDirLock, NameFileLock, NameDirLock DEF AcquireStep
<1>2. ASSUME NEW p \in Procs, RoundStep(p) PROVE LockInv'
  BY <1>2, StartLock, KidExitLock, DetachLock DEF RoundStep
<1>3. ASSUME NEW p \in Procs, ReleaseStep(p) PROVE LockInv'
  BY <1>3, ReleaseLock, ReleasePathLock, ReleaseInterruptedLock, ReleaseAgainLock DEF ReleaseStep
<1>4. ASSUME NEW p \in Procs, Interrupt(p) \/ Kill(p) PROVE LockInv'
  BY <1>4, InterruptLock, KillLock
<1>5. CASE UNCHANGED vars
  BY <1>5 DEF vars, LockInv, Branches, Stages, Named, Flocked, OnePath, Signed, Mended, Removes
<1> QED BY <1>1, <1>2, <1>3, <1>4, <1>5 DEF Next

\* What the protocol of acquire_lock and release_lock keeps true of path,
\* inodes, descriptors, directory and pid in every reachable state.
THEOREM LockHolds == Spec => []LockInv
BY InitLock, StepLock, TypeCorrect, PTL DEF Spec

\* An owner by pid: without a breach the directory names it, or its child.
LEMMA HolderSigned ==
    ASSUME LockInv, ~breach, ~useFlock, NEW p \in Procs, Holder(p)
    PROVE  pid = p \/ pid = KidOf(p)
BY DEF LockInv, Branches, Stages, Signed, Holder, FlockPCs

\* An owner by flock: without a breach its descriptor leads to the path and is locked.
LEMMA HolderFlocked ==
    ASSUME LockInv, ~breach, useFlock, NEW p \in Procs, Holder(p)
    PROVE  path = fd[p] /\ flocked[fd[p]] = p
<1>1. pc[p] \in {"granted"} \cup Owning => open[p] /\ pc[p] # "opened"
  BY DEF LockInv, Named, Owning
<1>2. kid[p] => pc[p] # "opened"
  BY DEF LockInv, Stages
<1> QED BY <1>1, <1>2 DEF LockInv, Flocked, OnePath, Holder

\* At most one process owns the round until somebody's lock is taken away, for
\* any number of processes, kills and interrupts, with either kind of lock.
THEOREM OneOwner == Spec => []ExclusiveUntilBreach
<1>1. LockInv => ExclusiveUntilBreach
  <2> SUFFICES ASSUME LockInv, ~breach, NEW p \in Procs, NEW q \in Procs, Holder(p), Holder(q)
               PROVE  p = q
    BY DEF ExclusiveUntilBreach, Exclusive
  <2>1. CASE useFlock
    BY <2>1, HolderFlocked
  <2>2. CASE ~useFlock
    <3>1. pid = p \/ pid = KidOf(p)
      BY <2>2, HolderSigned
    <3>2. pid = q \/ pid = KidOf(q)
      BY <2>2, HolderSigned
    <3>3. KidOf(p) = KidOf(q) => p = q
      BY DEF KidOf
    <3> QED BY <3>1, <3>2, <3>3, PidAssumption
  <2> QED BY <2>1, <2>2
<1> QED BY <1>1, LockHolds, PTL

\* Until then the lock of an owned round leads to its owner and names it, or
\* names the detached child that goes on with the round.
THEOREM OwnerSigns == Spec => []SignedByOwner
<1>1. LockInv => SignedByOwner
  <2> SUFFICES ASSUME LockInv, ~breach, NEW p \in Procs
               PROVE  /\ pc[p] \in Owning =>
                            IF useFlock THEN path = fd[p] /\ stamp[fd[p]] = p ELSE dir /\ pid = p
                      /\ kid[p] =>
                            IF useFlock THEN path = fd[p] /\ flocked[fd[p]] = p ELSE dir /\ Alive(pid)
    BY DEF SignedByOwner
  <2>1. CASE useFlock
    <3>1. pc[p] \in Owning => path = fd[p] /\ stamp[fd[p]] = p
      BY <2>1, HolderFlocked DEF LockInv, OnePath, Holder
    <3>2. kid[p] => path = fd[p] /\ flocked[fd[p]] = p
      BY <2>1, HolderFlocked DEF Holder
    <3> QED BY <2>1, <3>1, <3>2
  <2>2. CASE ~useFlock
    <3>1. pc[p] \in Owning => dir /\ pid = p /\ Alive(p)
      BY <2>2 DEF LockInv, Signed, Alive, Owning, Over
    <3>2. kid[p] => pc[p] \in Owning \/ (dir /\ pid = KidOf(p) /\ Alive(KidOf(p)))
      BY <2>2 DEF LockInv, Signed, Alive
    <3> QED BY <2>2, <3>1, <3>2 DEF Owning
  <2> QED BY <2>1, <2>2
<1> QED BY <1>1, LockHolds, PTL

\* Breach or not, a round whose processes are all gone can be locked again,
\* unless one of them was killed with the directory unsigned, or its trap left it
\* with only one of the two names.
THEOREM LockRecovers == Spec => []NeverWedged
<1>1. TypeOK /\ LockInv => NeverWedged
  <2> SUFFICES ASSUME TypeOK, LockInv, \A p \in Procs : pc[p] \in Over \cup {"new"} /\ ~kid[p]
               PROVE  /\ \A i \in Inodes : flocked[i] = NoProc
                      /\ dir => ~Alive(pid) /\ (pid # NoProc \/ \E q \in Procs : pc[q] = "dead" \/ stray[q])
    BY DEF NeverWedged
  <2>1. \A p \in Procs : ~open[p] /\ ~kid[p] /\ ~trap[p] /\ pc[p] \notin {"made", "emptied", "closing"}
    BY DEF LockInv, Stages, FlockPCs, Owning, Over
  <2>2. \A i \in Inodes : flocked[i] = NoProc
    BY <2>1 DEF LockInv, Flocked, TypeOK
  <2>3. ~Alive(pid)
    BY DEF Alive
  <2>4. dir /\ pid = NoProc => \E q \in Procs : pc[q] = "dead" \/ stray[q]
    BY <2>1 DEF LockInv, Mended, Removes
  <2> QED BY <2>2, <2>3, <2>4
<1> QED BY <1>1, LockHolds, TypeCorrect, PTL
=============================================================================
