----------------------------- MODULE LaneLease -----------------------------
(***************************************************************************)
(* Lane isolation: lanes (allocator.py) and build slots (semaphore.py) are *)
(* leased by making a directory, which the file system does atomically.    *)
(* The holder writes its pid into a file of the directory; whoever finds   *)
(* the directory there reads the file, and removes both when the lease is  *)
(* stale.  None of the steps after the mkdir is atomic with another, and   *)
(* all of them go by name.                                                 *)
(*                                                                         *)
(* All processes run on one host.  A process acquires once.                *)
(***************************************************************************)
EXTENDS Naturals

CONSTANTS
    Procs,
    None,
    NumLanes,       \* max_lanes, or max_build_slots
    SlowWriters,    \* may a process take longer than initialization_grace from mkdir to write?
    Ageing,         \* may a lease be older than stale_after_seconds when it is judged?
    MaxCrashes      \* bound: processes killed

Lanes == 1..NumLanes

ASSUME LaneAssumption ==
    /\ None \notin Procs
    /\ NumLanes \in Nat
    /\ SlowWriters \in BOOLEAN
    /\ Ageing \in BOOLEAN
    /\ MaxCrashes \in Nat

VARIABLES
    kind,           \* what is leased: "lane" or "slot"
    dir,            \* of each lane: the process that made its directory, None if there is none
    file,           \* the pid in lease.json or holder.json, None if it is missing or unreadable
    tmp,            \* the process whose files are in the tmp directory of each lane
    pc,
    lane,           \* the lane a process is at
    seen,           \* the pid it has read there, None if it could read none
    reclaimed,      \* has its current scan reclaimed a lease
    then,           \* what follows the removal of the directory
    crashes,
    raced,          \* history: the lanes with a lease that was judged stale when it was
                    \* no dead process's any more, or another was already removing it
    found           \* history: whose lease a process found there, if he was dead by then

scan == <<reclaimed, then>>

vars == <<kind, dir, file, tmp, pc, lane, seen, scan, crashes, raced, found>>

(* _holder_state_for_scan: between the failing mkdir and the judgement. *)
Judging == {"read", "stat", "reread", "judge"}

Removing == {"unlink", "rmdir"}

Ended == {"over", "failed", "exhausted", "dead"}

(* psutil.pid_exists *)
Alive == {p \in Procs : pc[p] \notin Ended \cup {"new"}}

(* The process the lease belongs to, as far as anybody can know. *)
Owner(l) == IF file[l] # None THEN file[l] ELSE dir[l]

Init ==
    /\ kind \in {"lane", "slot"}
    /\ dir = [l \in Lanes |-> None]
    /\ file = [l \in Lanes |-> None]
    /\ tmp = [l \in Lanes |-> None]
    /\ pc = [p \in Procs |-> "new"]
    /\ lane = [p \in Procs |-> 1]
    /\ seen = [p \in Procs |-> None]
    /\ reclaimed = [p \in Procs |-> FALSE]
    /\ then = [p \in Procs |-> "over"]
    /\ crashes = 0
    /\ raced = {}
    /\ found = [p \in Procs |-> None]

-----------------------------------------------------------------------------
Goes(p, from, to) ==
    /\ pc[p] = from
    /\ pc' = [pc EXCEPT ![p] = to]
    /\ UNCHANGED <<kind, crashes>>

(* A scan, from the lowest lane up. *)
Scan(p, from) ==
    /\ Goes(p, from, "scan")
    /\ lane' = [lane EXCEPT ![p] = 1]
    /\ reclaimed' = [reclaimed EXCEPT ![p] = FALSE]
    /\ UNCHANGED <<dir, file, tmp, seen, then, raced, found>>

Begin(p) == Scan(p, "new")

AtLane(p) == pc[p] = "scan" /\ lane[p] \in Lanes

(* Mutant: mkdir with exist_ok. *)
MakeDirExistOk(p) ==
    /\ AtLane(p)
    /\ Goes(p, "scan", "write")
    /\ dir' = [dir EXCEPT ![lane[p]] = p]
    /\ UNCHANGED <<file, tmp, lane, seen, scan, raced, found>>

MakeDir(p) ==
    /\ AtLane(p)
    /\ dir[lane[p]] = None
    /\ Goes(p, "scan", "write")
    /\ dir' = [dir EXCEPT ![lane[p]] = p]
    /\ UNCHANGED <<file, tmp, lane, seen, scan, raced, found>>

FindDir(p) ==
    LET l == lane[p]
    IN  /\ AtLane(p)
        /\ dir[l] # None
        /\ Goes(p, "scan", "read")
        /\ found' = [found EXCEPT ![p] = IF Owner(l) \in Alive THEN None ELSE Owner(l)]
        /\ UNCHANGED <<dir, file, tmp, lane, seen, scan, raced>>

(* _holder_state reads the lease, which may be another by now, or none. *)
ReadLease(p, from, ifNone) ==
    /\ Goes(p, from, IF file[lane[p]] = None THEN ifNone ELSE "judge")
    /\ seen' = [seen EXCEPT ![p] = file[lane[p]]]
    /\ UNCHANGED <<dir, file, tmp, lane, scan, raced, found>>

ReadFirst(p) == ReadLease(p, "read", "stat")

(* A process writes its lease within initialization_grace of its mkdir,    *)
(* unless it is slow.                                                      *)
InGrace(l) ==
    /\ ~ SlowWriters
    /\ file[l] = None
    /\ \E q \in Procs : dir[l] = q /\ lane[q] = l /\ pc[q] = "write"

(* A directory without a readable lease: st_mtime tells whether it is to   *)
(* be read again, after what is left of initialization_grace ...           *)
StatYoung(p) ==
    /\ Goes(p, "stat", "reread")
    /\ dir[lane[p]] # None
    /\ UNCHANGED <<dir, file, tmp, lane, seen, scan, raced, found>>

(* ... or is old, or gone, and judged as it is. *)
StatOld(p) ==
    /\ Goes(p, "stat", "judge")
    /\ ~ InGrace(lane[p])
    /\ UNCHANGED <<dir, file, tmp, lane, seen, scan, raced, found>>

ReadAgain(p) == ~ InGrace(lane[p]) /\ ReadLease(p, "reread", "judge")

(* Mutant: a pid is not looked up, so that only age makes a lease stale. *)
NotLookedUp(p) == seen[p] # None

LooksAlive(p) == seen[p] \in Alive

(* The recorded pid is dead by now, or acquired_at too old, or there was no*)
(* lease to read: the lane is reclaimed, whatever is there by now.         *)
JudgeStale(p) ==
    LET l == lane[p]
    IN  /\ Goes(p, "judge", "unlink")
        /\ ~ LooksAlive(p) \/ Ageing
        /\ then' = [then EXCEPT ![p] = "reclaimed"]
        /\ raced' = IF \/ dir[l] = None
                       \/ Owner(l) \in Alive
                       \/ \E q \in Procs \ {p} : pc[q] \in Removing /\ lane[q] = l
                    THEN raced \cup {l}
                    ELSE raced
        /\ seen' = [seen EXCEPT ![p] = None]
        /\ UNCHANGED <<dir, file, tmp, lane, reclaimed, found>>

JudgeHeld(p) ==
    /\ Goes(p, "judge", "scan")
    /\ LooksAlive(p)
    /\ lane' = [lane EXCEPT ![p] = @ + 1]
    /\ seen' = [seen EXCEPT ![p] = None]
    /\ found' = [found EXCEPT ![p] = None]
    /\ UNCHANGED <<dir, file, tmp, scan, raced>>

WriteLease(p) ==
    /\ Goes(p, "write", IF kind = "lane" THEN "tmp" ELSE "held")
    /\ dir[lane[p]] # None
    /\ file' = [file EXCEPT ![lane[p]] = p]
    /\ UNCHANGED <<dir, tmp, lane, seen, scan, raced, found>>

(* FileNotFoundError: the directory was reclaimed, on to the next lane; or *)
(* another OSError, which is raised.  _reclaim comes first either way.     *)
SetupFails(p) ==
    /\ \/ /\ Goes(p, "write", "unlink")
          /\ IF dir[lane[p]] = None
             THEN then' = [then EXCEPT ![p] = "next"]
             ELSE then' = [then EXCEPT ![p] = "failed"]
       \/ /\ Goes(p, "tmp", "unlink")
          /\ then' \in {[then EXCEPT ![p] = t] : t \in {"next", "failed"}}
    /\ UNCHANGED <<dir, file, tmp, lane, seen, reclaimed, raced, found>>

ClearTmp(p) ==
    /\ Goes(p, "tmp", "held")
    /\ tmp' = [tmp EXCEPT ![lane[p]] = None]
    /\ UNCHANGED <<dir, file, lane, seen, scan, raced, found>>

(* external: what the holder does with its lane *)
UseTmp(p) ==
    /\ pc[p] = "held"
    /\ kind = "lane"
    /\ tmp' = [tmp EXCEPT ![lane[p]] = p]
    /\ UNCHANGED <<kind, dir, file, pc, lane, seen, scan, crashes, raced, found>>

(* release_lane, and the end of build_slot's context *)
Release(p) ==
    /\ Goes(p, "held", "unlink")
    /\ then' = [then EXCEPT ![p] = "over"]
    /\ UNCHANGED <<dir, file, tmp, lane, seen, reclaimed, raced, found>>

(* Mutant: after a lost lane the next one is written to without a mkdir. *)
RemoveDirThenWrite(p) ==
    LET l      == lane[p]
        empty  == dir[l] # None /\ file[l] = None
        goesOn == then[p] \in {"reclaimed", "next"}
    IN  /\ Goes(p, "rmdir", IF goesOn THEN "write" ELSE then[p])
        /\ dir' = IF empty THEN [dir EXCEPT ![l] = None] ELSE dir
        /\ lane' = [lane EXCEPT ![p] = IF goesOn THEN @ + 1 ELSE 1]
        /\ then' = [then EXCEPT ![p] = "over"]
        /\ UNCHANGED <<file, tmp, seen, reclaimed, raced, found>>

(* _reclaim: the file, then the directory, if it is empty. *)
Unlink(p) ==
    /\ Goes(p, "unlink", "rmdir")
    /\ file' = [file EXCEPT ![lane[p]] = None]
    /\ UNCHANGED <<dir, tmp, lane, seen, scan, raced, found>>

RemoveDir(p) ==
    LET l      == lane[p]
        empty  == dir[l] # None /\ file[l] = None
        goesOn == then[p] \in {"reclaimed", "next"}
    IN  /\ Goes(p, "rmdir", IF goesOn THEN "scan" ELSE then[p])
        /\ dir' = IF empty THEN [dir EXCEPT ![l] = None] ELSE dir
        /\ lane' = [lane EXCEPT ![p] = IF goesOn THEN @ + 1 ELSE 1]
        /\ reclaimed' = [reclaimed EXCEPT ![p] = goesOn /\ (@ \/ (empty /\ then[p] = "reclaimed"))]
        /\ then' = [then EXCEPT ![p] = "over"]
        /\ found' = [found EXCEPT ![p] = None]
        /\ UNCHANGED <<file, tmp, seen, raced>>

(* After something was reclaimed the lanes are scanned again at once, even *)
(* past the deadline; otherwise after a pause.                             *)
ScanAgain(p) ==
    /\ lane[p] \notin Lanes
    /\ Scan(p, "scan")

(* LANE_EXHAUSTED, SLOT_TIMEOUT *)
Exhausted(p) ==
    /\ Goes(p, "scan", "exhausted")
    /\ lane[p] \notin Lanes
    /\ ~ reclaimed[p]
    /\ lane' = [lane EXCEPT ![p] = 1]
    /\ UNCHANGED <<dir, file, tmp, seen, scan, raced, found>>

Crash(p) ==
    /\ p \in Alive
    /\ crashes < MaxCrashes
    /\ crashes' = crashes + 1
    /\ pc' = [pc EXCEPT ![p] = "dead"]
    /\ lane' = [lane EXCEPT ![p] = 1]
    /\ reclaimed' = [reclaimed EXCEPT ![p] = FALSE]
    /\ then' = [then EXCEPT ![p] = "over"]
    /\ seen' = [seen EXCEPT ![p] = None]
    /\ found' = [found EXCEPT ![p] = None]
    /\ UNCHANGED <<kind, dir, file, tmp, raced>>

Acquire(p) ==
    \/ MakeDir(p) \/ FindDir(p)
    \/ ReadFirst(p) \/ StatYoung(p) \/ StatOld(p) \/ ReadAgain(p)
    \/ JudgeStale(p) \/ JudgeHeld(p)
    \/ WriteLease(p) \/ SetupFails(p) \/ ClearTmp(p)
    \/ Unlink(p) \/ RemoveDir(p)
    \/ ScanAgain(p) \/ Exhausted(p)

Next ==
    \E p \in Procs : Begin(p) \/ Acquire(p) \/ UseTmp(p) \/ Release(p) \/ Crash(p)

Spec == Init /\ [][Next]_vars

-----------------------------------------------------------------------------
TypeOK ==
    /\ kind \in {"lane", "slot"}
    /\ dir \in [Lanes -> Procs \cup {None}]
    /\ file \in [Lanes -> Procs \cup {None}]
    /\ tmp \in [Lanes -> Procs \cup {None}]
    /\ pc \in [Procs -> {"new", "scan", "write", "tmp", "held"}
                          \cup Judging \cup Removing \cup Ended]
    /\ lane \in [Procs -> 1..(NumLanes + 1)]
    /\ \A p \in Procs : pc[p] \in {"write", "tmp", "held"} \cup Judging \cup Removing =>
                           lane[p] \in Lanes
    /\ seen \in [Procs -> Procs \cup {None}]
    /\ reclaimed \in [Procs -> BOOLEAN]
    /\ then \in [Procs -> {"reclaimed", "next", "over", "failed"}]
    /\ crashes \in Nat
    /\ raced \subseteq Lanes
    /\ found \in [Procs -> Procs \cup {None}]

(* I1 of lane-isolation.md: no lane, and no slot, has two holders.         *)
NoDoubleHold ==
    \A p, q \in Procs :
        pc[p] = "held" /\ pc[q] = "held" /\ lane[p] = lane[q] => p = q

(* A holder's lease is there, and it is his: at every lane where no lease  *)
(* was reclaimed that was not a dead process's by the time of the removal  *)
(* (its writer was slow, it was held for too long, or a new one had come   *)
(* in after the reading of the old), and none by two processes at once.    *)
IntactUnlessRaced ==
    \A p \in Procs : pc[p] = "held" /\ lane[p] \notin raced =>
        dir[lane[p]] = p /\ file[lane[p]] = p

(* I4: a lane is delivered with nothing of another process in its tmp      *)
(* directory, and nothing of another appears there while it is held; at    *)
(* the same lanes.                                                         *)
TmpIsOwn ==
    kind = "lane" =>
        \A p \in Procs : pc[p] = "held" /\ lane[p] \notin raced =>
            tmp[lane[p]] \in {None, p}

(* What a holder has been given stays its own until it gives it back: the  *)
(* lease, and the tmp directory of a lane (acquire_lane, build_slot).  A   *)
(* race at one lane does not reach the holders of the others, whatever the *)
(* racing processes do at those afterwards.                                *)
HoldersUndisturbed == IntactUnlessRaced /\ TmpIsOwn

(* I2: a process that looks for a lane does not leave the lease of a dead  *)
(* process behind: what it found of one, wherever the holder died, is gone *)
(* by the time it is at the next lane (no race at this one).               *)
DeadLeasesReclaimed ==
    [][\A p \in Procs, l \in Lanes :
          lane[p] = l /\ lane'[p] = l + 1 /\ found[p] # None /\ l \notin raced' =>
              dir'[l] = None \/ Owner(l)' # found[p]]_vars

=============================================================================
