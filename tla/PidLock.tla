------------------------------ MODULE PidLock ------------------------------
(***************************************************************************)
(* The pid-file locks: the one of the C7 coordinator (lock.py) and the one *)
(* a C2 run takes on its worktree (worktree.py).  Both create the file     *)
(* with O_EXCL, judge a file that is there by whether the pid in it is     *)
(* alive, and overwrite it when it is not.  They differ in the release:    *)
(* the coordinator unlinks the file, a C2 run looks first whose it is.     *)
(*                                                                         *)
(* A file is an inode, because a process that has opened it keeps writing  *)
(* to it after somebody else has unlinked the name.  What a file holds is  *)
(* the process whose pid it records, or None where it cannot be parsed (it *)
(* is empty until its first write).  A process is one run of the program:  *)
(* pids are not used again.                                                *)
(***************************************************************************)
EXTENDS Naturals

CONSTANTS
    Procs,          \* the processes that want the lock
    None,
    MaxCrashes      \* bound: processes killed

Inode == Procs \X {"created", "rewritten"}

ASSUME PidLockAssumption ==
    /\ None \notin Procs
    /\ None \notin Inode
    /\ MaxCrashes \in Nat

VARIABLES
    kind,           \* whose lock it is: "coordinator" or "worktree"
    path,           \* the inode the lock's name refers to, or None
    content,        \* the pid in each inode, or None
    pc,
    fd,             \* the inode a process has open, or None
    seen,           \* holder_pid: the pid it has read in the lock file, or None
    crashes,
    overlap,        \* history: has a process begun to acquire while another was at it
    met             \* history: who has held the lock since a process found it there

vars == <<kind, path, content, pc, fd, seen, crashes, overlap, met>>

history == <<overlap, met>>

(* The lock file is there; what it holds has not been judged. *)
Looking == {"found", "read", "judge"}

(* Between the first system call of acquire_lock and its return. *)
Acquiring == Looking \cup {"open", "write"}

(* The process has the lock: acquire_lock has returned. *)
Holding == {"held", "check", "unlink"}

Ended == {"over", "refused", "dead"}

(* psutil.pid_exists: also of a process that has released and not exited. *)
Alive(p) == pc[p] \in Acquiring \cup Holding \cup {"leaving"}

Init ==
    /\ kind \in {"coordinator", "worktree"}
    /\ path = None
    /\ content = [i \in Inode |-> None]
    /\ pc = [p \in Procs |-> "new"]
    /\ fd = [p \in Procs |-> None]
    /\ seen = [p \in Procs |-> None]
    /\ crashes = 0
    /\ overlap = FALSE
    /\ met = [p \in Procs |-> {}]

-----------------------------------------------------------------------------
Goes(p, from, to) ==
    /\ pc[p] = from
    /\ pc' = [pc EXCEPT ![p] = to]
    /\ UNCHANGED kind

Enter(p, to) ==
    /\ Goes(p, "new", to)
    /\ overlap' = (overlap \/ \E q \in Procs \ {p} : pc[q] \in Acquiring)
    /\ UNCHANGED <<seen, crashes>>

(* open with O_TRUNC: the file of that name, or a new one, now empty. *)
OpenEmpty(p, inode) ==
    /\ path' = inode
    /\ content' = [content EXCEPT ![inode] = None]
    /\ fd' = [fd EXCEPT ![p] = inode]

(* Mutant: the lock is created without O_EXCL. *)
CreateShared(p) ==
    /\ Enter(p, "write")
    /\ OpenEmpty(p, IF path = None THEN <<p, "created">> ELSE path)
    /\ UNCHANGED met

(* os.open with O_CREAT and O_EXCL. *)
Create(p) ==
    /\ Enter(p, "write")
    /\ path = None
    /\ OpenEmpty(p, <<p, "created">>)
    /\ UNCHANGED met

FindExisting(p) ==
    /\ Enter(p, "found")
    /\ path # None
    /\ met' = [met EXCEPT ![p] = {q \in Procs : pc[q] \in Holding}]
    /\ UNCHANGED <<path, content, fd>>

(* read_text opens the file, which may be gone by now ... *)
OpenToRead(p) ==
    /\ Goes(p, "found", IF path = None THEN "judge" ELSE "read")
    /\ fd' = [fd EXCEPT ![p] = path]
    /\ UNCHANGED <<path, content, seen, crashes, history>>

(* ... and reads it, under that name or none.  What cannot be parsed names *)
(* no holder.                                                              *)
ReadPid(p) ==
    /\ Goes(p, "read", "judge")
    /\ seen' = [seen EXCEPT ![p] = content[fd[p]]]
    /\ fd' = [fd EXCEPT ![p] = None]
    /\ UNCHANGED <<path, content, crashes, history>>

(* Mutant: a recorded pid is taken for a live one. *)
HeldByAny(p) == seen[p] # None

(* The pid read before is looked up only now. *)
HeldByOther(p) == seen[p] \notin {None, p} /\ Alive(seen[p])

(* COORDINATOR_LOCKED, WORKTREE_LOCKED *)
Refuse(p) ==
    /\ Goes(p, "judge", "refused")
    /\ HeldByOther(p)
    /\ UNCHANGED <<path, content, fd, seen, crashes, history>>

JudgeStale(p) ==
    /\ Goes(p, "judge", "open")
    /\ ~ HeldByOther(p)
    /\ UNCHANGED <<path, content, fd, seen, crashes, history>>

(* Mutant: the file found is written in place, without being opened again. *)
TakeOverInPlace(p) ==
    /\ Goes(p, "open", "write")
    /\ UNCHANGED <<path, content, fd, seen, crashes, history>>

(* write_text: open, then write. *)
TakeOver(p) ==
    /\ Goes(p, "open", "write")
    /\ OpenEmpty(p, IF path = None THEN <<p, "rewritten">> ELSE path)
    /\ UNCHANGED <<seen, crashes, history>>

(* acquire_lock returns: those who are looking at the file may read this pid. *)
WritePid(p) ==
    /\ Goes(p, "write", "held")
    /\ content' = [content EXCEPT ![fd[p]] = p]
    /\ fd' = [fd EXCEPT ![p] = None]
    /\ met' = [q \in Procs |-> IF pc[q] \in Looking THEN met[q] \cup {p} ELSE met[q]]
    /\ UNCHANGED <<path, seen, crashes, overlap>>

(* release_lock of the coordinator *)
Release(p) ==
    /\ kind = "coordinator"
    /\ Goes(p, "held", "leaving")
    /\ path' = None
    /\ UNCHANGED <<content, fd, seen, crashes, history>>

(* release_worktree_lock opens the file, if it is still there ... *)
OpenToCheck(p) ==
    /\ kind = "worktree"
    /\ Goes(p, "held", IF path = None THEN "unlink" ELSE "check")
    /\ fd' = [fd EXCEPT ![p] = path]
    /\ UNCHANGED <<path, content, seen, crashes, history>>

(* ... reads it, and leaves that of another alone. *)
CheckOwner(p) ==
    /\ Goes(p, "check", IF content[fd[p]] \in {None, p} THEN "unlink" ELSE "leaving")
    /\ fd' = [fd EXCEPT ![p] = None]
    /\ UNCHANGED <<path, content, seen, crashes, history>>

Unlink(p) ==
    /\ Goes(p, "unlink", "leaving")
    /\ path' = None
    /\ UNCHANGED <<content, fd, seen, crashes, history>>

(* The process that has released prints its report and exits. *)
Exit(p) ==
    /\ Goes(p, "leaving", "over")
    /\ UNCHANGED <<path, content, fd, seen, crashes, history>>

(* kill -9, the machine going down *)
Crash(p) ==
    /\ Alive(p)
    /\ crashes < MaxCrashes
    /\ crashes' = crashes + 1
    /\ pc' = [pc EXCEPT ![p] = "dead"]
    /\ fd' = [fd EXCEPT ![p] = None]
    /\ UNCHANGED <<kind, path, content, seen, history>>

Acquire(p) ==
    \/ Create(p) \/ FindExisting(p) \/ OpenToRead(p) \/ ReadPid(p)
    \/ Refuse(p) \/ JudgeStale(p) \/ TakeOver(p) \/ WritePid(p)

Step(p) ==
    \/ Acquire(p)
    \/ Release(p) \/ OpenToCheck(p) \/ CheckOwner(p) \/ Unlink(p) \/ Exit(p)

Next == \E p \in Procs : Step(p) \/ Crash(p)

Spec == Init /\ [][Next]_vars

-----------------------------------------------------------------------------
TypeOK ==
    /\ kind \in {"coordinator", "worktree"}
    /\ path \in Inode \cup {None}
    /\ content \in [Inode -> Procs \cup {None}]
    /\ pc \in [Procs -> {"new", "leaving"} \cup Acquiring \cup Holding \cup Ended]
    /\ fd \in [Procs -> Inode \cup {None}]
    /\ \A p \in Procs : pc[p] \in {"read", "write", "check"} => fd[p] # None
    /\ seen \in [Procs -> Procs \cup {None}]
    /\ crashes \in Nat
    /\ overlap \in BOOLEAN
    /\ met \in [Procs -> SUBSET Procs]

(* I9 of c7-phase-coordinator.md, I8 of c2-task-executor.md: at most one   *)
(* process has the lock.                                                   *)
MutualExclusion ==
    \A p, q \in Procs : pc[p] \in Holding /\ pc[q] \in Holding => p = q

(* As long as no two processes were acquiring the lock at the same time,   *)
(* at most one has it, whatever crashes in between and however a stale     *)
(* lock was left (the O_EXCL and the liveness test of acquire_lock).       *)
ExclusiveUnlessOverlap == ~ overlap => MutualExclusion

(* A process is refused only for a process that still lives and has held   *)
(* the lock since the refused one found it there: a lock left by a killed  *)
(* process never stands in the way (AC-7, AC-7b), even when acquisitions   *)
(* overlap.  That the other still has the lock is not promised: it may     *)
(* have released it between the reading of its pid and the refusal.        *)
RefusedOnlyByHolder ==
    [][\A p \in Procs : pc[p] # "refused" /\ pc'[p] = "refused" =>
          \E q \in met[p] \ {p} : Alive(q)]_vars

(* What is unlinked is the lock of the process that leaves, as long as     *)
(* acquisitions did not overlap: nobody's lock vanishes under him.         *)
ReleasesOwnLock ==
    [][~ overlap /\ path # None /\ path' = None =>
          \E p \in Procs : /\ pc[p] \in Holding /\ pc'[p] = "leaving"
                           /\ content[path] = p]_vars

=============================================================================
