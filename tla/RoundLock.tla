------------------------------ MODULE RoundLock ------------------------------
(***************************************************************************)
(* The lock of one workflow round (acquire_lock, release_lock and          *)
(* background_lock_detach_parent in apr).                                  *)
(*                                                                         *)
(* With flock(1) the lock is on an INODE, while the protocol is about a    *)
(* PATH: a release closes the descriptor and then unlinks the path, and    *)
(* the pid is written by truncating the path.  Without flock the lock is a *)
(* directory holding the owner's pid, and a dead pid lets the next process *)
(* take it over.                                                           *)
(*                                                                         *)
(* A process is one "apr run": it acquires, starts oracle as a child (in   *)
(* the foreground, or in the background leaving the lock to the child),    *)
(* post-processes a foreground round and releases.  INT and TERM make it   *)
(* release the lock wherever it is, and go on.  Every process runs once,   *)
(* so its pid is never reused.                                             *)
(***************************************************************************)
EXTENDS Naturals, FiniteSets

CONSTANTS
    Procs,          \* invocations of "apr run" for the round
    MaxInodes,      \* bound on the inodes the path can have had
    MaxFaults,      \* bound on kill -9 and on INT/TERM
    Kinds,          \* {TRUE}: flock is installed, {FALSE}: it is not
    NoProc, OldPid  \* nobody; a process that died long ago

ASSUME LockAssumption ==
    /\ MaxInodes \in Nat \ {0} /\ MaxFaults \in Nat
    /\ Kinds \subseteq BOOLEAN
    /\ NoProc \notin Procs /\ OldPid \notin Procs /\ NoProc # OldPid

NoInode == 0
Inodes == 1..MaxInodes

\* What a pid file may name: a process, the child of one, or nobody.
KidOf(p) == [kid |-> p]
Pids == Procs \cup {KidOf(p) : p \in Procs} \cup {OldPid}

\* A child has a pid of its own.
ASSUME PidAssumption == \A p \in Procs : KidOf(p) \notin Procs \cup {NoProc, OldPid}

VARIABLES
    useFlock,   \* which branch of acquire_lock this host takes
    pc,         \* where each invocation is
    kid,        \* the oracle child of p is alive
    fd,         \* the inode that p's descriptor, or its child's copy, leads to
    open,       \* p itself has that descriptor open: APR_LOCK_FD is set
    flocked,    \* the process whose descriptor holds the flock of an inode
    path,       \* the inode the lock path leads to
    inodes,     \* inodes allocated so far
    stamp,      \* the pid written in each inode
    dir,        \* the lock directory exists
    pid,        \* the pid in it (NoProc: no pid file)
    seen,       \* the pid that a process has read there
    named,      \* which of APR_LOCK_FILE and APR_LOCK_DIR are set
    trap,       \* p is in its trap, between the two halves of release_lock
    stray,      \* history: p's trap left it with one of the two names
    breach,     \* the lock was taken from somebody entitled to it
    faults

flockVars == <<fd, open, flocked, path, inodes, stamp>>
dirVars   == <<dir, pid>>
trapVars  == <<named, trap, stray>>
vars == <<useFlock, pc, kid, fd, open, flocked, path, inodes, stamp, dir, pid,
          seen, named, trap, stray, breach, faults>>

Over == {"refused", "done", "dead"}
PCs == {"new", "opened", "granted", "made", "check", "read", "stale", "emptied", "retry",
        "signed", "named", "held", "fg", "post", "forked", "closing"} \cup Over

\* Where a process takes the lock to be its own.
Owning == {"signed", "named", "held", "fg", "post", "forked"}

TypeOK ==
    /\ useFlock \in BOOLEAN
    /\ pc \in [Procs -> PCs] /\ kid \in [Procs -> BOOLEAN]
    /\ fd \in [Procs -> Inodes \cup {NoInode}] /\ open \in [Procs -> BOOLEAN]
    /\ flocked \in [Inodes -> Procs \cup {NoProc}]
    /\ path \in Inodes \cup {NoInode} /\ inodes \in 0..MaxInodes
    /\ stamp \in [Inodes -> Pids \cup {NoProc}]
    /\ dir \in BOOLEAN /\ pid \in Pids \cup {NoProc}
    /\ seen \in [Procs -> Pids \cup {NoProc}]
    /\ named \in [Procs -> SUBSET {"file", "dir"}]
    /\ trap \in [Procs -> BOOLEAN] /\ stray \in [Procs -> BOOLEAN]
    /\ breach \in BOOLEAN /\ faults \in Nat

\* The path may be left over from a background round, and the directory from
\* a process that died holding it.
Init ==
    /\ useFlock \in Kinds
    /\ pc = [p \in Procs |-> "new"] /\ kid = [p \in Procs |-> FALSE]
    /\ fd = [p \in Procs |-> NoInode] /\ open = [p \in Procs |-> FALSE]
    /\ flocked = [i \in Inodes |-> NoProc]
    /\ path \in (IF useFlock THEN {NoInode, 1} ELSE {NoInode}) /\ inodes = path
    /\ stamp = [i \in Inodes |-> NoProc]
    /\ dir \in (IF useFlock THEN {FALSE} ELSE BOOLEAN)
    /\ pid = (IF dir THEN OldPid ELSE NoProc) /\ seen = [p \in Procs |-> NoProc]
    /\ named = [p \in Procs |-> {}]
    /\ trap = [p \in Procs |-> FALSE] /\ stray = [p \in Procs |-> FALSE]
    /\ breach = FALSE /\ faults = 0

\* While the trap runs, the script waits.
At(p, l) == pc[p] = l /\ ~trap[p]
Goto(p, l) == pc' = [pc EXCEPT ![p] = l]
-----------------------------------------------------------------------------
(* acquire_lock with flock. *)

\* What an early pid write would do: a refused process leaves its mark.
OpenStamping(p) ==
    /\ useFlock /\ pc[p] = "new"
    /\ path = NoInode => inodes < MaxInodes
    /\ inodes' = IF path = NoInode THEN inodes + 1 ELSE inodes
    /\ path' = IF path = NoInode THEN inodes + 1 ELSE path
    /\ stamp' = [stamp EXCEPT ![path'] = p]
    /\ fd' = [fd EXCEPT ![p] = path']
    /\ open' = [open EXCEPT ![p] = TRUE]
    /\ Goto(p, "opened")
    /\ UNCHANGED <<useFlock, kid, flocked, dirVars, seen, trapVars, breach, faults>>

\* exec {fd}<>path creates the file when it is missing.
Open(p) ==
    /\ useFlock /\ pc[p] = "new"
    /\ path = NoInode => inodes < MaxInodes
    /\ inodes' = IF path = NoInode THEN inodes + 1 ELSE inodes
    /\ path' = IF path = NoInode THEN inodes + 1 ELSE path
    /\ fd' = [fd EXCEPT ![p] = path']
    /\ open' = [open EXCEPT ![p] = TRUE]
    /\ Goto(p, "opened")
    /\ UNCHANGED <<useFlock, kid, flocked, stamp, dirVars, seen, trapVars, breach, faults>>

\* flock -n.
Flock(p) ==
    /\ At(p, "opened") /\ open[p] /\ flocked[fd[p]] = NoProc
    /\ flocked' = [flocked EXCEPT ![fd[p]] = p]
    /\ Goto(p, "granted")
    /\ UNCHANGED <<useFlock, kid, fd, open, path, inodes, stamp, dirVars, seen, trapVars,
                   breach, faults>>

\* Somebody else has it, or the trap has closed the descriptor.
FlockRefused(p) ==
    /\ At(p, "opened") /\ (open[p] => flocked[fd[p]] # NoProc)
    /\ open' = [open EXCEPT ![p] = FALSE] /\ fd' = [fd EXCEPT ![p] = NoInode]
    /\ Goto(p, "refused")
    /\ UNCHANGED <<useFlock, kid, flocked, path, inodes, stamp, dirVars, seen, trapVars,
                   breach, faults>>

\* ": > path" truncates whatever is at the path, creating it when it is gone;
\* the pid goes to the descriptor, if the trap has not closed it.
Stamp(p) ==
    /\ At(p, "granted")
    /\ path = NoInode => inodes < MaxInodes
    /\ inodes' = IF path = NoInode THEN inodes + 1 ELSE inodes
    /\ path' = IF path = NoInode THEN inodes + 1 ELSE path
    /\ stamp' = [i \in Inodes |-> IF open[p] /\ i = fd[p] THEN p
                                  ELSE IF i = path' THEN NoProc ELSE stamp[i]]
    /\ Goto(p, "signed")
    /\ UNCHANGED <<useFlock, kid, fd, open, flocked, dirVars, seen, trapVars, breach, faults>>

-----------------------------------------------------------------------------
(* acquire_lock without flock. *)

\* kill -0.
Alive(x) ==
    \E p \in Procs :
        \/ x = p /\ pc[p] \notin Over \cup {"new"}
        \/ x = KidOf(p) /\ kid[p]

Mkdir(p) ==
    /\ ~useFlock /\ pc[p] \in {"new", "retry"}
    /\ dir' = TRUE
    /\ Goto(p, IF ~dir THEN "made" ELSE IF pc[p] = "new" THEN "check" ELSE "refused")
    /\ UNCHANGED <<useFlock, kid, flockVars, pid, seen, trapVars, breach, faults>>

\* The write fails when the directory was removed meanwhile.
WritePid(p) ==
    /\ pc[p] = "made"
    /\ pid' = IF dir THEN p ELSE pid
    /\ Goto(p, IF dir THEN "signed" ELSE "refused")
    /\ UNCHANGED <<useFlock, kid, flockVars, dir, seen, trapVars, breach, faults>>

\* A missing pid counts as a live owner.
ReadPid(p) ==
    /\ pc[p] = "check"
    /\ seen' = [seen EXCEPT ![p] = pid]
    /\ Goto(p, IF pid = NoProc THEN "refused" ELSE "read")
    /\ UNCHANGED <<useFlock, kid, flockVars, dirVars, trapVars, breach, faults>>

\* kill -0 asks about the pid that was read.
CheckPid(p) ==
    /\ pc[p] = "read"
    /\ Goto(p, IF Alive(seen[p]) THEN "refused" ELSE "stale")
    /\ UNCHANGED <<useFlock, kid, flockVars, dirVars, seen, trapVars, breach, faults>>

\* rm -f pid: whoever's pid that is by now.
RemoveStalePid(p) ==
    /\ pc[p] = "stale"
    /\ pid' = NoProc
    /\ breach' = (breach \/ Alive(pid))
    /\ Goto(p, "emptied")
    /\ UNCHANGED <<useFlock, kid, flockVars, dir, seen, trapVars, faults>>

\* rmdir: fails on a directory that holds a pid, but not on one whose owner
\* has yet to write it.
RemoveStaleDir(p) ==
    /\ pc[p] = "emptied"
    /\ dir' = (dir /\ pid # NoProc)
    /\ breach' = (breach \/ (dir /\ pid = NoProc /\ \E q \in Procs : pc[q] = "made"))
    /\ Goto(p, "retry")
    /\ UNCHANGED <<useFlock, kid, flockVars, pid, seen, trapVars, faults>>

-----------------------------------------------------------------------------
(* The end of acquire_lock: what is to be released is named.               *)

NameFile(p) ==
    /\ At(p, "signed")
    /\ named' = [named EXCEPT ![p] = @ \cup {"file"}]
    /\ Goto(p, IF useFlock THEN "held" ELSE "named")
    /\ UNCHANGED <<useFlock, kid, flockVars, dirVars, seen, trap, stray, breach, faults>>

NameDir(p) ==
    /\ At(p, "named")
    /\ named' = [named EXCEPT ![p] = @ \cup {"dir"}]
    /\ Goto(p, "held")
    /\ UNCHANGED <<useFlock, kid, flockVars, dirVars, seen, trap, stray, breach, faults>>
-----------------------------------------------------------------------------
(* The round. *)

\* The child inherits the descriptor, if there still is one.
StartForeground(p) ==
    /\ At(p, "held")
    /\ kid' = [kid EXCEPT ![p] = TRUE]
    /\ Goto(p, "fg")
    /\ UNCHANGED <<useFlock, flockVars, dirVars, seen, trapVars, breach, faults>>

StartBackground(p) ==
    /\ At(p, "held")
    /\ kid' = [kid EXCEPT ![p] = TRUE]
    /\ Goto(p, "forked")
    /\ UNCHANGED <<useFlock, flockVars, dirVars, seen, trapVars, breach, faults>>

\* p closes its descriptor; the last copy takes the flock with it.
Unflock(p) == [i \in Inodes |-> IF flocked[i] = p THEN NoProc ELSE flocked[i]]
CloseDescriptor(p) ==
    /\ open' = [open EXCEPT ![p] = FALSE]
    /\ fd' = IF kid[p] THEN fd ELSE [fd EXCEPT ![p] = NoInode]
    /\ flocked' = IF kid[p] THEN flocked ELSE Unflock(p)

\* Oracle ends; a foreground parent goes on with validation and metrics.
KidExit(p) ==
    /\ kid[p]
    /\ kid' = [kid EXCEPT ![p] = FALSE]
    /\ flocked' = IF open[p] THEN flocked ELSE Unflock(p)
    /\ fd' = IF open[p] THEN fd ELSE [fd EXCEPT ![p] = NoInode]
    /\ pc' = IF pc[p] = "fg" THEN [pc EXCEPT ![p] = "post"] ELSE pc
    /\ UNCHANGED <<useFlock, open, path, inodes, stamp, dirVars, seen, trapVars, breach, faults>>

\* What a detach that forgets to hand the pid over would do.
DetachSilent(p) ==
    /\ At(p, "forked")
    /\ CloseDescriptor(p)
    /\ named' = [named EXCEPT ![p] = {}]
    /\ Goto(p, "done")
    /\ UNCHANGED <<useFlock, kid, path, inodes, stamp, dirVars, seen, trap, stray, breach, faults>>

\* The child goes on with the lock: it has its copy of the descriptor, and
\* where there is no descriptor the file, if it is named and there, gets its pid.
Detach(p) ==
    /\ At(p, "forked")
    /\ CloseDescriptor(p)
    /\ LET signs == ~open[p] /\ "file" \in named[p] IN
         /\ pid' = IF ~useFlock /\ signs /\ pid # NoProc THEN KidOf(p) ELSE pid
         /\ stamp' = [i \in Inodes |-> IF useFlock /\ signs /\ i = path THEN KidOf(p) ELSE stamp[i]]
    /\ named' = [named EXCEPT ![p] = {}]
    /\ Goto(p, "done")
    /\ UNCHANGED <<useFlock, kid, path, inodes, dir, seen, trap, stray, breach, faults>>

-----------------------------------------------------------------------------
(* release_lock: first the descriptor (or the pid file), then the path (or *)
(* the directory).  What is not there is not removed, and stays named.     *)

CloseLock(p) ==
    /\ CloseDescriptor(p)
    /\ LET removes == ~useFlock /\ "file" \in named[p] /\ pid # NoProc IN
         /\ pid' = IF removes THEN NoProc ELSE pid
         /\ named' = [named EXCEPT ![p] = IF removes THEN @ \ {"file"} ELSE @]
    /\ UNCHANGED <<useFlock, kid, path, inodes, stamp, dir, seen, stray>>

\* The processes other than p that have inode i open.
Others(p, i) == {q \in Procs \ {p} : fd[q] = i /\ (open[q] \/ kid[q])}

\* What a release that leaves the directory behind would do.
UnlinkFileOnly(p) ==
    LET file == useFlock /\ "file" \in named[p] /\ path # NoInode IN
    /\ path' = IF file THEN NoInode ELSE path
    /\ named' = [named EXCEPT ![p] = IF file THEN @ \ {"file"} ELSE @]
    /\ breach' = (breach \/ (file /\ (Others(p, path) # {} \/ kid[p])))
    /\ UNCHANGED <<useFlock, kid, fd, open, flocked, inodes, stamp, dirVars, seen>>

\* The unlink hits whatever the path leads to now.
Unlink(p) ==
    LET file == useFlock /\ "file" \in named[p] /\ path # NoInode
        directory == "dir" \in named[p] /\ dir
    IN /\ path' = IF file THEN NoInode ELSE path
       /\ dir' = (dir /\ ~(directory /\ pid = NoProc))
       /\ named' = [named EXCEPT ![p] = @ \ ((IF file THEN {"file"} ELSE {})
                                             \cup (IF directory THEN {"dir"} ELSE {}))]
       /\ breach' = (breach
            \/ (file /\ (Others(p, path) # {} \/ kid[p]))
            \/ (directory /\ pid = NoProc /\ \E q \in Procs : pc[q] = "made"))
       /\ UNCHANGED <<useFlock, kid, fd, open, flocked, inodes, stamp, pid, seen>>

Release(p) ==
    /\ At(p, "post")
    /\ CloseLock(p)
    /\ breach' = (breach \/ (pid' # pid /\ pid # p /\ Alive(pid)))
    /\ Goto(p, "closing")
    /\ UNCHANGED <<trap, faults>>

ReleasePath(p) ==
    /\ pc[p] = "closing" /\ Unlink(p)
    /\ Goto(p, "done")
    /\ UNCHANGED <<trap, stray, faults>>
-----------------------------------------------------------------------------
(* Faults. *)

\* INT or TERM: the trap releases the lock and does not exit, so the process
\* carries on without it, as owner of a round that others may start.  Before
\* the descriptor or the directory is its own there is nothing to release, and
\* while a foreground oracle runs, bash puts the trap off until it has ended.
Interrupt(p) ==
    /\ pc[p] \in {"opened", "granted"} \cup (Owning \ {"fg"}) /\ ~trap[p]
    /\ faults < MaxFaults /\ faults' = faults + 1
    /\ CloseLock(p)
    /\ trap' = [trap EXCEPT ![p] = TRUE]
    /\ breach' = (breach \/ pc[p] # "opened")
    /\ UNCHANGED pc

ReleaseInterrupted(p) ==
    /\ trap[p] /\ Unlink(p)
    /\ trap' = [trap EXCEPT ![p] = FALSE]
    /\ stray' = [stray EXCEPT ![p] = @ \/ (~useFlock /\ (pc[p] = "named" \/ named'[p] # {}))]
    /\ UNCHANGED <<pc, faults>>

\* A signal after the rm of a release (its own or the trap's) and before that
\* forgets the name: the trap removes again, whatever is there by then.
ReleaseAgain(p) ==
    /\ trap[p] \/ pc[p] = "closing"
    /\ faults < MaxFaults /\ faults' = faults + 1
    /\ path' = IF useFlock /\ "file" \in named[p] THEN NoInode ELSE path
    /\ dir' = (dir /\ ~("dir" \in named[p] /\ pid = NoProc))
    /\ breach' = TRUE
    /\ UNCHANGED <<useFlock, pc, kid, fd, open, flocked, inodes, stamp, pid, seen, trapVars>>

\* kill -9.  A child that is running lives on with the descriptor it
\* inherited, but the lock directory names a dead process.
Kill(p) ==
    /\ pc[p] \notin Over \cup {"new"}
    /\ faults < MaxFaults /\ faults' = faults + 1
    /\ CloseDescriptor(p)
    /\ breach' = (breach \/ (~useFlock /\ kid[p]))
    /\ trap' = [trap EXCEPT ![p] = FALSE]
    /\ Goto(p, "dead")
    /\ UNCHANGED <<useFlock, kid, path, inodes, stamp, dirVars, seen, named, stray>>
-----------------------------------------------------------------------------
AcquireStep(p) ==
    \/ Open(p) \/ Flock(p) \/ FlockRefused(p) \/ Stamp(p)
    \/ Mkdir(p) \/ WritePid(p) \/ ReadPid(p) \/ CheckPid(p) \/ RemoveStalePid(p) \/ RemoveStaleDir(p)
    \/ NameFile(p) \/ NameDir(p)

RoundStep(p) ==
    StartForeground(p) \/ StartBackground(p) \/ KidExit(p) \/ Detach(p)

ReleaseStep(p) ==
    Release(p) \/ ReleasePath(p) \/ ReleaseInterrupted(p) \/ ReleaseAgain(p)

Next == \E p \in Procs :
    AcquireStep(p) \/ RoundStep(p) \/ ReleaseStep(p) \/ Interrupt(p) \/ Kill(p)

Spec == Init /\ [][Next]_vars
-----------------------------------------------------------------------------
(* Properties. *)

\* p acts as the owner of the round, or its oracle is running the round.
Holder(p) ==
    \/ pc[p] \in {"granted"} \cup Owning
    \/ kid[p]

\* What the lock is for: "prevent concurrent runs" of a round (apr:591).  The
\* code does not keep it in general.
Exclusive == \A p, q \in Procs : Holder(p) /\ Holder(q) => p = q

\* At most one process owns the round, as long as nobody's lock was taken
\* away: no unlink hit a path another process had opened, no stale-lock
\* cleanup hit a directory or pid that was fresh, no trap released the lock of
\* a process that goes on, and (without flock) no parent was killed alone.
ExclusiveUntilBreach == ~breach => Exclusive

\* While a round is owned, its lock names an owner that is alive and leads
\* there: a refused attempt never clobbers the pid (apr:607-608), the path of
\* a held flock is not lost, and a detached background round is signed with
\* the child's pid (apr:695-702).
SignedByOwner ==
    ~breach => \A p \in Procs :
        /\ pc[p] \in Owning =>
               IF useFlock THEN path = fd[p] /\ stamp[fd[p]] = p ELSE dir /\ pid = p
        /\ kid[p] =>
               IF useFlock THEN path = fd[p] /\ flocked[fd[p]] = p ELSE dir /\ Alive(pid)

\* Once every process and every child is gone the round can be locked again,
\* whatever was interrupted: no inode is locked, and a directory that is left
\* names a dead process, so the next attempt takes it over.  Two things can
\* leave a directory that nobody ever takes over: a kill before the pid was
\* written or after it was removed, and a trap that came between the two
\* assignments at the end of acquire_lock, or found its pid removed by another.
NeverWedged ==
    (\A p \in Procs : pc[p] \in Over \cup {"new"} /\ ~kid[p]) =>
        /\ \A i \in Inodes : flocked[i] = NoProc
        /\ dir => ~Alive(pid) /\ (pid # NoProc \/ \E q \in Procs : pc[q] = "dead" \/ stray[q])
=============================================================================
