-------------------------- MODULE LaneLeaseProofs --------------------------
(* Proofs about leases, for any number of processes, lanes and crashes.    *)
EXTENDS LaneLease, TLAPS

(* Only a process that has begun has made a directory or written a lease.  *)
Begun ==
    \A l \in Lanes :
        /\ dir[l] # None => pc[dir[l]] # "new"
        /\ file[l] # None => pc[file[l]] # "new"

(* Who was found dead stays dead. *)
FoundAreDead == \A p \in Procs : found[p] # None => pc[found[p]] \in Ended

(* A lease file is written by the process that made its directory.         *)
FileIsOwn(l) == file[l] # None => file[l] = dir[l]

(* A process between its mkdir and its release has its lease.              *)
LeasesAreOwn(l) ==
    \A p \in Procs : lane[p] = l =>
        /\ pc[p] = "write" => dir[l] = p /\ file[l] = None
        /\ pc[p] \in {"tmp", "held"} => dir[l] = p /\ file[l] = p

(* What a process is removing is there: its own lease, or a dead one's.    *)
RemovalsAreDue(l) ==
    \A p \in Procs : lane[p] = l /\ pc[p] \in Removing =>
        /\ dir[l] # None
        /\ then[p] # "reclaimed" => dir[l] = p
        /\ then[p] = "reclaimed" => dir[l] \notin Alive
        /\ pc[p] = "rmdir" => file[l] = None

OneRemoves(l) ==
    \A p, q \in Procs :
        /\ pc[p] \in Removing /\ pc[q] \in Removing
        /\ lane[p] = l /\ lane[q] = l
        => p = q

TmpHolds(l) ==
    kind = "lane" =>
        \A p \in Procs : pc[p] = "held" /\ lane[p] = l => tmp[l] \in {None, p}

(* While the directory of the dead process is there, no other's lease has  *)
(* been read in it.                                                        *)
SeenIsFound(l) ==
    \A p \in Procs :
        lane[p] = l /\ pc[p] \in {"stat", "judge"} /\ found[p] # None /\ dir[l] = found[p] =>
            seen[p] \in {None, found[p]}

Orderly(l) ==
    /\ FileIsOwn(l) /\ LeasesAreOwn(l) /\ RemovalsAreDue(l) /\ OneRemoves(l)
    /\ TmpHolds(l) /\ SeenIsFound(l)

IInv == TypeOK /\ Begun /\ FoundAreDead /\ \A l \in Lanes \ raced : Orderly(l)

-----------------------------------------------------------------------------
(* At the start no lane is leased.                                         *)
LEMMA InitIInv == Init => IInv
<1> SUFFICES ASSUME Init PROVE IInv
  OBVIOUS
<1> USE LaneAssumption
<1>1. TypeOK
  <2>1. 1 \in 1..(NumLanes + 1)
    OBVIOUS
  <2>2. lane \in [Procs -> 1..(NumLanes + 1)]
    BY <2>1 DEF Init
  <2>3. \A p \in Procs : pc[p] = "new"
    BY DEF Init
  <2>4. /\ pc \in [Procs -> {"new", "scan", "write", "tmp", "held"}
                              \cup Judging \cup Removing \cup Ended]
        /\ seen \in [Procs -> Procs \cup {None}]
        /\ reclaimed \in [Procs -> BOOLEAN]
        /\ then \in [Procs -> {"reclaimed", "next", "over", "failed"}]
        /\ crashes \in Nat
        /\ raced \subseteq Lanes
        /\ found \in [Procs -> Procs \cup {None}]
    BY DEF Init
  <2>5. /\ kind \in {"lane", "slot"}
        /\ dir \in [Lanes -> Procs \cup {None}]
        /\ file \in [Lanes -> Procs \cup {None}]
        /\ tmp \in [Lanes -> Procs \cup {None}]
    BY DEF Init
  <2> QED
    BY <2>2, <2>3, <2>4, <2>5 DEF TypeOK, Judging, Removing
<1>2. Begun /\ FoundAreDead
  BY DEF Init, Begun, FoundAreDead
<1>3. ASSUME NEW l \in Lanes PROVE Orderly(l)
  BY DEF Init, Judging, Removing, Orderly, FileIsOwn, LeasesAreOwn, RemovalsAreDue,
     OneRemoves, TmpHolds, SeenIsFound
<1> QED
  BY <1>1, <1>2, <1>3 DEF IInv

ProcStep(p) == Begin(p) \/ Acquire(p) \/ UseTmp(p) \/ Release(p) \/ Crash(p)

(* Every step keeps the types; in particular a process that has made a     *)
(* directory, or judges one, stays at its lane.                            *)
LEMMA NextType ==
    TypeOK /\ [Next]_vars => TypeOK'
<1> SUFFICES ASSUME TypeOK, [Next]_vars
             PROVE  TypeOK'
  OBVIOUS
<1> USE LaneAssumption DEF Lanes
<1>1. CASE UNCHANGED vars
  BY <1>1 DEF vars, scan, TypeOK, Judging, Removing, Ended
<1>2. ASSUME NEW p \in Procs, ProcStep(p) PROVE TypeOK'
  <2>1. CASE Begin(p)
    <3>1. 1 \in 1..(NumLanes + 1)
      OBVIOUS
    <3> QED
      BY <2>1, <3>1 DEF Begin, Scan, Goes, TypeOK, Judging, Removing, Ended
  <2>2. CASE ScanAgain(p)
    <3>1. 1 \in 1..(NumLanes + 1)
      OBVIOUS
    <3> QED
      BY <2>2, <3>1 DEF ScanAgain, Scan, Goes, TypeOK, Judging, Removing, Ended
  <2>3. CASE MakeDir(p)
    BY <2>3 DEF MakeDir, AtLane, Goes, scan, TypeOK, Judging, Removing, Ended
  <2>4. CASE FindDir(p)
    <3>1. Owner(lane[p]) \in Procs
      BY <2>4 DEF FindDir, AtLane, Owner, TypeOK
    <3> QED
      BY <2>4, <3>1 DEF FindDir, AtLane, Goes, scan, TypeOK, Judging, Removing, Ended
  <2>5. CASE ReadFirst(p)
    BY <2>5 DEF ReadFirst, ReadLease, Goes, scan, TypeOK, Judging, Removing, Ended
  <2>6. CASE StatYoung(p)
    BY <2>6 DEF StatYoung, Goes, scan, TypeOK, Judging, Removing, Ended
  <2>7. CASE StatOld(p)
    BY <2>7 DEF StatOld, Goes, scan, TypeOK, Judging, Removing, Ended
  <2>8. CASE ReadAgain(p)
    BY <2>8 DEF ReadAgain, ReadLease, Goes, scan, TypeOK, Judging, Removing, Ended
  <2>9. CASE JudgeStale(p)
    <3>1. raced' \subseteq Lanes
      BY <2>9 DEF JudgeStale, Goes, TypeOK, Judging
    <3> QED
      BY <2>9, <3>1 DEF JudgeStale, Goes, TypeOK, Judging, Removing, Ended
  <2>10. CASE JudgeHeld(p)
    BY <2>10 DEF JudgeHeld, Goes, scan, TypeOK, Judging, Removing, Ended
  <2>11. CASE WriteLease(p)
    BY <2>11 DEF WriteLease, Goes, scan, TypeOK, Judging, Removing, Ended
  <2>12. CASE SetupFails(p)
    BY <2>12 DEF SetupFails, Goes, TypeOK, Judging, Removing, Ended
  <2>13. CASE ClearTmp(p)
    BY <2>13 DEF ClearTmp, Goes, scan, TypeOK, Judging, Removing, Ended
  <2>14. CASE UseTmp(p)
    BY <2>14 DEF UseTmp, scan, TypeOK, Judging, Removing, Ended
  <2>15. CASE Release(p)
    BY <2>15 DEF Release, Goes, TypeOK, Judging, Removing, Ended
  <2>16. CASE Unlink(p)
    BY <2>16 DEF Unlink, Goes, scan, TypeOK, Judging, Removing, Ended
  <2>17. CASE RemoveDir(p)
    BY <2>17 DEF RemoveDir, Goes, TypeOK, Judging, Removing, Ended
  <2>18. CASE Exhausted(p)
    BY <2>18 DEF Exhausted, Goes, scan, TypeOK, Judging, Removing, Ended
  <2>19. CASE Crash(p)
    BY <2>19 DEF Crash, TypeOK, Judging, Removing, Ended
  <2> QED
    BY <1>2, <2>1, <2>2, <2>3, <2>4, <2>5, <2>6, <2>7, <2>8,
       <2>9, <2>10, <2>11, <2>12, <2>13, <2>14, <2>15, <2>16,
       <2>17, <2>18, <2>19 DEF ProcStep, Acquire
<1> QED
  BY <1>1, <1>2 DEF Next, ProcStep

(* A process makes a directory, and writes a lease, after it has begun;    *)
(* none becomes new again.                                                 *)
LEMMA NextBegun ==
    TypeOK /\ Begun /\ [Next]_vars => Begun'
<1> SUFFICES ASSUME TypeOK, Begun, [Next]_vars
             PROVE  Begun'
  OBVIOUS
<1> USE LaneAssumption
<1>1. CASE UNCHANGED vars
  BY <1>1 DEF vars, scan, TypeOK, Begun, Alive, Judging, Removing, Ended
<1>2. ASSUME NEW p \in Procs, ProcStep(p) PROVE Begun'
  <2>1. CASE Begin(p)
    BY <2>1 DEF Begin, Scan, Goes, TypeOK, Begun, Alive, Judging, Removing, Ended
  <2>2. CASE ScanAgain(p)
    BY <2>2 DEF ScanAgain, Scan, Goes, scan, TypeOK, Begun, Alive, Judging, Removing, Ended
  <2>3. CASE MakeDir(p)
    BY <2>3 DEF MakeDir, AtLane, Goes, scan, TypeOK, Begun, Alive, Judging, Removing, Ended
  <2>4. CASE FindDir(p)
    BY <2>4 DEF FindDir, AtLane, Goes, scan, TypeOK, Begun, Alive, Judging, Removing, Ended
  <2>5. CASE ReadFirst(p)
    BY <2>5 DEF ReadFirst, ReadLease, Goes, scan, TypeOK, Begun, Alive, Judging, Removing,
       Ended
  <2>6. CASE StatYoung(p)
    BY <2>6 DEF StatYoung, Goes, scan, TypeOK, Begun, Alive, Judging, Removing, Ended
  <2>7. CASE StatOld(p)
    BY <2>7 DEF StatOld, Goes, scan, TypeOK, Begun, Alive, Judging, Removing, Ended
  <2>8. CASE ReadAgain(p)
    BY <2>8 DEF ReadAgain, ReadLease, Goes, scan, TypeOK, Begun, Alive, Judging, Removing,
       Ended
  <2>9. CASE JudgeStale(p)
    BY <2>9 DEF JudgeStale, Goes, TypeOK, Begun, Alive, Judging, Removing, Ended
  <2>10. CASE JudgeHeld(p)
    BY <2>10 DEF JudgeHeld, Goes, scan, TypeOK, Begun, Alive, Judging, Removing, Ended
  <2>11. CASE WriteLease(p)
    BY <2>11 DEF WriteLease, Goes, scan, TypeOK, Begun, Alive, Judging, Removing, Ended
  <2>12. CASE SetupFails(p)
    BY <2>12 DEF SetupFails, Goes, TypeOK, Begun, Alive, Judging, Removing, Ended
  <2>13. CASE ClearTmp(p)
    BY <2>13 DEF ClearTmp, Goes, scan, TypeOK, Begun, Alive, Judging, Removing, Ended
  <2>14. CASE UseTmp(p)
    BY <2>14 DEF UseTmp, scan, TypeOK, Begun, Alive, Judging, Removing, Ended
  <2>15. CASE Release(p)
    BY <2>15 DEF Release, Goes, TypeOK, Begun, Alive, Judging, Removing, Ended
  <2>16. CASE Unlink(p)
    BY <2>16 DEF Unlink, Goes, scan, TypeOK, Begun, Alive, Judging, Removing, Ended
  <2>17. CASE RemoveDir(p)
    BY <2>17 DEF RemoveDir, Goes, TypeOK, Begun, Alive, Judging, Removing, Ended
  <2>18. CASE Exhausted(p)
    BY <2>18 DEF Exhausted, Goes, scan, TypeOK, Begun, Alive, Judging, Removing, Ended
  <2>19. CASE Crash(p)
    BY <2>19 DEF Crash, TypeOK, Begun, Alive, Judging, Removing, Ended
  <2> QED
    BY <1>2, <2>1, <2>2, <2>3, <2>4, <2>5, <2>6, <2>7, <2>8,
       <2>9, <2>10, <2>11, <2>12, <2>13, <2>14, <2>15, <2>16,
       <2>17, <2>18, <2>19 DEF ProcStep, Acquire
<1> QED
  BY <1>1, <1>2 DEF Next, ProcStep

(* What is found dead has begun, and has ended; that is for ever.          *)
LEMMA NextFoundAreDead ==
    TypeOK /\ Begun /\ FoundAreDead /\ [Next]_vars => FoundAreDead'
<1> SUFFICES ASSUME TypeOK, Begun, FoundAreDead, [Next]_vars
             PROVE  FoundAreDead'
  OBVIOUS
<1> USE LaneAssumption
<1>1. CASE UNCHANGED vars
  BY <1>1 DEF vars, scan, TypeOK, Begun, FoundAreDead, Alive, Judging, Removing, Ended
<1>2. ASSUME NEW p \in Procs, ProcStep(p) PROVE FoundAreDead'
  <2>1. CASE Begin(p)
    BY <2>1 DEF Begin, Scan, Goes, TypeOK, Begun, FoundAreDead, Alive, Judging, Removing,
       Ended
  <2>2. CASE ScanAgain(p)
    BY <2>2 DEF ScanAgain, Scan, Goes, scan, TypeOK, Begun, FoundAreDead, Alive, Judging,
       Removing, Ended
  <2>3. CASE MakeDir(p)
    BY <2>3 DEF MakeDir, AtLane, Goes, scan, TypeOK, Begun, FoundAreDead, Alive, Judging,
       Removing, Ended
  <2>4. CASE FindDir(p)
    <3>1. Owner(lane[p]) \in Procs /\ pc[Owner(lane[p])] # "new"
      BY <2>4 DEF FindDir, AtLane, Owner, TypeOK, Begun
    <3> QED
      BY <2>4, <3>1 DEF FindDir, AtLane, Goes, scan, TypeOK, Begun, FoundAreDead, Alive,
         Judging, Removing, Ended
  <2>5. CASE ReadFirst(p)
    BY <2>5 DEF ReadFirst, ReadLease, Goes, scan, TypeOK, Begun, FoundAreDead, Alive,
       Judging, Removing, Ended
  <2>6. CASE StatYoung(p)
    BY <2>6 DEF StatYoung, Goes, scan, TypeOK, Begun, FoundAreDead, Alive, Judging,
       Removing, Ended
  <2>7. CASE StatOld(p)
    BY <2>7 DEF StatOld, Goes, scan, TypeOK, Begun, FoundAreDead, Alive, Judging,
       Removing, Ended
  <2>8. CASE ReadAgain(p)
    BY <2>8 DEF ReadAgain, ReadLease, Goes, scan, TypeOK, Begun, FoundAreDead, Alive,
       Judging, Removing, Ended
  <2>9. CASE JudgeStale(p)
    BY <2>9 DEF JudgeStale, Goes, TypeOK, Begun, FoundAreDead, Alive, Judging, Removing,
       Ended
  <2>10. CASE JudgeHeld(p)
    BY <2>10 DEF JudgeHeld, Goes, scan, TypeOK, Begun, FoundAreDead, Alive, Judging,
       Removing, Ended
  <2>11. CASE WriteLease(p)
    BY <2>11 DEF WriteLease, Goes, scan, TypeOK, Begun, FoundAreDead, Alive, Judging,
       Removing, Ended
  <2>12. CASE SetupFails(p)
    BY <2>12 DEF SetupFails, Goes, TypeOK, Begun, FoundAreDead, Alive, Judging, Removing,
       Ended
  <2>13. CASE ClearTmp(p)
    BY <2>13 DEF ClearTmp, Goes, scan, TypeOK, Begun, FoundAreDead, Alive, Judging,
       Removing, Ended
  <2>14. CASE UseTmp(p)
    BY <2>14 DEF UseTmp, scan, TypeOK, Begun, FoundAreDead, Alive, Judging, Removing, Ended
  <2>15. CASE Release(p)
    BY <2>15 DEF Release, Goes, TypeOK, Begun, FoundAreDead, Alive, Judging, Removing, Ended
  <2>16. CASE Unlink(p)
    BY <2>16 DEF Unlink, Goes, scan, TypeOK, Begun, FoundAreDead, Alive, Judging,
       Removing, Ended
  <2>17. CASE RemoveDir(p)
    BY <2>17 DEF RemoveDir, Goes, TypeOK, Begun, FoundAreDead, Alive, Judging, Removing,
       Ended
  <2>18. CASE Exhausted(p)
    BY <2>18 DEF Exhausted, Goes, scan, TypeOK, Begun, FoundAreDead, Alive, Judging,
       Removing, Ended
  <2>19. CASE Crash(p)
    BY <2>19 DEF Crash, TypeOK, Begun, FoundAreDead, Alive, Judging, Removing, Ended
  <2> QED
    BY <1>2, <2>1, <2>2, <2>3, <2>4, <2>5, <2>6, <2>7, <2>8,
       <2>9, <2>10, <2>11, <2>12, <2>13, <2>14, <2>15, <2>16,
       <2>17, <2>18, <2>19 DEF ProcStep, Acquire
<1> QED
  BY <1>1, <1>2 DEF Next, ProcStep

(* A race once found stays on record. *)
LEMMA RacedGrows == TypeOK /\ [Next]_vars => raced \subseteq raced'
BY DEF TypeOK, vars, Next, Begin, Acquire, MakeDir, FindDir, ReadFirst, ReadLease,
   StatYoung,
   StatOld, ReadAgain, JudgeStale, JudgeHeld, WriteLease, SetupFails, ClearTmp, Unlink,
   RemoveDir, ScanAgain, Exhausted, UseTmp, Release, Crash, Scan

(* A lane that is not leased has nobody at work on it, and a lane whose    *)
(* holder lives has nobody removing it; so the steps of different          *)
(* processes at one lane do not meet.                                      *)
LEMMA NextOrderly ==
    ASSUME TypeOK, Begun, FoundAreDead, [Next]_vars,
           NEW l \in Lanes, Orderly(l), l \notin raced'
    PROVE  Orderly(l)'
<1> USE LaneAssumption
<1>1. CASE UNCHANGED vars
  BY <1>1 DEF vars, scan, Orderly, FileIsOwn, LeasesAreOwn, RemovalsAreDue, OneRemoves,
     TmpHolds, SeenIsFound, TypeOK, Alive, Judging, Removing, Ended
<1>2. ASSUME NEW p \in Procs, ProcStep(p) PROVE Orderly(l)'
  <2>1. CASE Begin(p)
    <3>1. dir[l] # p
      BY <2>1 DEF Begin, Scan, Goes, Begun, TypeOK
    <3> QED
      BY <2>1, <3>1 DEF Begin, Scan, Goes, Orderly, FileIsOwn, LeasesAreOwn,
         RemovalsAreDue, OneRemoves, TmpHolds, SeenIsFound, TypeOK, Alive, Judging,
         Removing, Ended
  <2>2. CASE ScanAgain(p)
    BY <2>2 DEF ScanAgain, Scan, Goes, scan, Orderly, FileIsOwn, LeasesAreOwn,
       RemovalsAreDue, OneRemoves, TmpHolds, SeenIsFound, TypeOK, Alive, Judging,
       Removing, Ended
  <2>3. CASE MakeDir(p)
    <3>1. lane[p] \in Lanes /\ dir[lane[p]] = None
      BY <2>3 DEF MakeDir, AtLane
    <3>2. lane[p] = l => file[l] = None /\ \A q \in Procs :
              pc[q] \in {"write", "tmp", "held"} \cup Removing => lane[q] # l
      BY <2>3, <3>1 DEF TypeOK, Orderly, FileIsOwn, LeasesAreOwn, RemovalsAreDue,
         OneRemoves, TmpHolds, SeenIsFound, TypeOK, Alive, Judging, Removing, Ended
    <3>3. \A q \in Procs : found[q] # p
      BY <2>3 DEF MakeDir, Goes, FoundAreDead, Ended
    <3> QED
      BY <2>3, <3>1, <3>2, <3>3 DEF MakeDir, Goes, scan, TypeOK, Orderly, FileIsOwn,
         LeasesAreOwn, RemovalsAreDue, OneRemoves, TmpHolds, SeenIsFound, TypeOK, Alive,
         Judging, Removing, Ended
  <2>4. CASE FindDir(p)
    BY <2>4 DEF FindDir, AtLane, Goes, scan, Orderly, FileIsOwn, LeasesAreOwn,
       RemovalsAreDue, OneRemoves, TmpHolds, SeenIsFound, TypeOK, Alive, Judging,
       Removing, Ended
  <2>5. CASE ReadFirst(p)
    BY <2>5 DEF ReadFirst, ReadLease, Goes, scan, Orderly, FileIsOwn, LeasesAreOwn,
       RemovalsAreDue, OneRemoves, TmpHolds, SeenIsFound, TypeOK, Alive, Judging,
       Removing, Ended
  <2>6. CASE StatYoung(p)
    BY <2>6 DEF StatYoung, Goes, scan, Orderly, FileIsOwn, LeasesAreOwn, RemovalsAreDue,
       OneRemoves, TmpHolds, SeenIsFound, TypeOK, Alive, Judging, Removing, Ended
  <2>7. CASE StatOld(p)
    BY <2>7 DEF StatOld, Goes, scan, Orderly, FileIsOwn, LeasesAreOwn, RemovalsAreDue,
       OneRemoves, TmpHolds, SeenIsFound, TypeOK, Alive, Judging, Removing, Ended
  <2>8. CASE ReadAgain(p)
    BY <2>8 DEF ReadAgain, ReadLease, Goes, scan, Orderly, FileIsOwn, LeasesAreOwn,
       RemovalsAreDue, OneRemoves, TmpHolds, SeenIsFound, TypeOK, Alive, Judging,
       Removing, Ended
  <2>9. CASE JudgeStale(p)
    <3>1. lane[p] \in Lanes
      BY <2>9 DEF JudgeStale, Goes, TypeOK, Judging
    <3>2. lane[p] = l => /\ dir[l] # None /\ Owner(l) \notin Alive
                         /\ \A q \in Procs \ {p} : pc[q] \in Removing => lane[q] # l
      BY <2>9, <3>1 DEF JudgeStale
    <3>3. lane[p] = l => dir[l] \notin Alive
      BY <3>2 DEF Owner, Orderly, FileIsOwn
    <3> QED
      BY <2>9, <3>1, <3>2, <3>3 DEF JudgeStale, Goes, TypeOK, Orderly, FileIsOwn,
         LeasesAreOwn, RemovalsAreDue, OneRemoves, TmpHolds, SeenIsFound, TypeOK, Alive,
         Judging, Removing, Ended
  <2>10. CASE JudgeHeld(p)
    BY <2>10 DEF JudgeHeld, Goes, scan, Orderly, FileIsOwn, LeasesAreOwn, RemovalsAreDue,
       OneRemoves, TmpHolds, SeenIsFound, TypeOK, Alive, Judging, Removing, Ended
  <2>11. CASE WriteLease(p)
    <3>1. lane[p] \in Lanes
      BY <2>11 DEF WriteLease, Goes, TypeOK, Judging, Removing
    <3>2. lane[p] = l => \A q \in Procs \ {p} :
              pc[q] \in {"write", "tmp", "held"} \cup Removing => lane[q] # l
      BY <2>11, <3>1 DEF WriteLease, Goes, TypeOK, Orderly, FileIsOwn, LeasesAreOwn,
         RemovalsAreDue, OneRemoves, TmpHolds, SeenIsFound, TypeOK, Alive, Judging,
         Removing, Ended
    <3> QED
      BY <2>11, <3>1, <3>2 DEF WriteLease, Goes, scan, TypeOK, Orderly, FileIsOwn,
         LeasesAreOwn, RemovalsAreDue, OneRemoves, TmpHolds, SeenIsFound, TypeOK, Alive,
         Judging, Removing, Ended
  <2>12. CASE SetupFails(p)
    <3>1. lane[p] \in Lanes
      BY <2>12 DEF SetupFails, Goes, TypeOK, Judging, Removing
    <3>2. lane[p] = l => \A q \in Procs \ {p} :
              pc[q] \in {"write", "tmp", "held"} \cup Removing => lane[q] # l
      BY <2>12, <3>1 DEF SetupFails, Goes, TypeOK, Orderly, FileIsOwn, LeasesAreOwn,
         RemovalsAreDue, OneRemoves, TmpHolds, SeenIsFound, TypeOK, Alive, Judging,
         Removing, Ended
    <3> QED
      BY <2>12, <3>1, <3>2 DEF SetupFails, Goes, scan, TypeOK, Orderly, FileIsOwn,
         LeasesAreOwn, RemovalsAreDue, OneRemoves, TmpHolds, SeenIsFound, TypeOK, Alive,
         Judging, Removing, Ended
  <2>13. CASE ClearTmp(p)
    <3>1. lane[p] \in Lanes
      BY <2>13 DEF ClearTmp, Goes, TypeOK, Judging, Removing
    <3>2. lane[p] = l => \A q \in Procs \ {p} :
              pc[q] \in {"write", "tmp", "held"} \cup Removing => lane[q] # l
      BY <2>13, <3>1 DEF ClearTmp, Goes, TypeOK, Orderly, FileIsOwn, LeasesAreOwn,
         RemovalsAreDue, OneRemoves, TmpHolds, SeenIsFound, TypeOK, Alive, Judging,
         Removing, Ended
    <3> QED
      BY <2>13, <3>1, <3>2 DEF ClearTmp, Goes, scan, TypeOK, Orderly, FileIsOwn,
         LeasesAreOwn, RemovalsAreDue, OneRemoves, TmpHolds, SeenIsFound, TypeOK, Alive,
         Judging, Removing, Ended
  <2>14. CASE UseTmp(p)
    <3>1. lane[p] \in Lanes
      BY <2>14 DEF UseTmp, TypeOK, Judging, Removing
    <3>2. lane[p] = l => \A q \in Procs \ {p} :
              pc[q] \in {"write", "tmp", "held"} \cup Removing => lane[q] # l
      BY <2>14, <3>1 DEF UseTmp, TypeOK, Orderly, FileIsOwn, LeasesAreOwn, RemovalsAreDue,
         OneRemoves, TmpHolds, SeenIsFound, TypeOK, Alive, Judging, Removing, Ended
    <3> QED
      BY <2>14, <3>1, <3>2 DEF UseTmp, scan, TypeOK, Orderly, FileIsOwn, LeasesAreOwn,
         RemovalsAreDue, OneRemoves, TmpHolds, SeenIsFound, TypeOK, Alive, Judging,
         Removing, Ended
  <2>15. CASE Release(p)
    <3>1. lane[p] \in Lanes
      BY <2>15 DEF Release, Goes, TypeOK, Judging, Removing
    <3>2. lane[p] = l => \A q \in Procs \ {p} :
              pc[q] \in {"write", "tmp", "held"} \cup Removing => lane[q] # l
      BY <2>15, <3>1 DEF Release, Goes, TypeOK, Orderly, FileIsOwn, LeasesAreOwn,
         RemovalsAreDue, OneRemoves, TmpHolds, SeenIsFound, TypeOK, Alive, Judging,
         Removing, Ended
    <3> QED
      BY <2>15, <3>1, <3>2 DEF Release, Goes, scan, TypeOK, Orderly, FileIsOwn,
         LeasesAreOwn, RemovalsAreDue, OneRemoves, TmpHolds, SeenIsFound, TypeOK, Alive,
         Judging, Removing, Ended
  <2>16. CASE Unlink(p)
    <3>1. lane[p] \in Lanes
      BY <2>16 DEF Unlink, Goes, TypeOK, Judging, Removing
    <3>2. lane[p] = l => \A q \in Procs \ {p} :
              pc[q] \in {"write", "tmp", "held"} \cup Removing => lane[q] # l
      BY <2>16, <3>1 DEF Unlink, Goes, TypeOK, Orderly, FileIsOwn, LeasesAreOwn,
         RemovalsAreDue, OneRemoves, TmpHolds, SeenIsFound, TypeOK, Alive, Judging,
         Removing, Ended
    <3> QED
      BY <2>16, <3>1, <3>2 DEF Unlink, Goes, scan, TypeOK, Orderly, FileIsOwn,
         LeasesAreOwn, RemovalsAreDue, OneRemoves, TmpHolds, SeenIsFound, TypeOK, Alive,
         Judging, Removing, Ended
  <2>17. CASE RemoveDir(p)
    <3>1. lane[p] \in Lanes
      BY <2>17 DEF RemoveDir, Goes, TypeOK, Judging, Removing
    <3>2. lane[p] = l => \A q \in Procs \ {p} :
              pc[q] \in {"write", "tmp", "held"} \cup Removing => lane[q] # l
      BY <2>17, <3>1 DEF RemoveDir, Goes, TypeOK, Orderly, FileIsOwn, LeasesAreOwn,
         RemovalsAreDue, OneRemoves, TmpHolds, SeenIsFound, TypeOK, Alive, Judging,
         Removing, Ended
    <3> QED
      BY <2>17, <3>1, <3>2 DEF RemoveDir, Goes, scan, TypeOK, Orderly, FileIsOwn,
         LeasesAreOwn, RemovalsAreDue, OneRemoves, TmpHolds, SeenIsFound, TypeOK, Alive,
         Judging, Removing, Ended
  <2>18. CASE Exhausted(p)
    BY <2>18 DEF Exhausted, Goes, scan, Orderly, FileIsOwn, LeasesAreOwn, RemovalsAreDue,
       OneRemoves, TmpHolds, SeenIsFound, TypeOK, Alive, Judging, Removing, Ended
  <2>19. CASE Crash(p)
    BY <2>19 DEF Crash, Orderly, FileIsOwn, LeasesAreOwn, RemovalsAreDue, OneRemoves,
       TmpHolds, SeenIsFound, TypeOK, Alive, Judging, Removing, Ended
  <2> QED
    BY <1>2, <2>1, <2>2, <2>3, <2>4, <2>5, <2>6, <2>7, <2>8,
       <2>9, <2>10, <2>11, <2>12, <2>13, <2>14, <2>15, <2>16,
       <2>17, <2>18, <2>19 DEF ProcStep, Acquire
<1> QED
  BY <1>1, <1>2 DEF Next, ProcStep

(* The inductive invariant. *)
LEMMA Invariance == Spec => []IInv
<1>1. IInv /\ [Next]_vars => IInv'
  <2> SUFFICES ASSUME IInv, [Next]_vars PROVE IInv'
    OBVIOUS
  <2>1. TypeOK /\ Begun /\ FoundAreDead
    BY DEF IInv
  <2>2. TypeOK' /\ Begun' /\ FoundAreDead' /\ raced \subseteq raced'
    BY <2>1, NextType, NextBegun, NextFoundAreDead, RacedGrows
  <2>3. ASSUME NEW l \in Lanes, l \notin raced' PROVE Orderly(l)'
    <3>1. Orderly(l)
      BY <2>2, <2>3 DEF IInv
    <3> QED
      BY <2>1, <2>3, <3>1, NextOrderly
  <2> QED
    BY <2>2, <2>3 DEF IInv
<1> QED
  BY InitIInv, <1>1, PTL DEF Spec

(* The variables keep their types, races or not. *)
THEOREM TypeCorrectness == Spec => []TypeOK
<1>1. IInv => TypeOK
  BY DEF IInv
<1> QED
  BY Invariance, <1>1, PTL

-----------------------------------------------------------------------------
(* A holder's lease stays his, for any number of lanes, processes and      *)
(* crashes, at every lane where no lease is reclaimed that is not a dead   *)
(* process's, and none by two at once (I1).                                *)
THEOREM LeasesIntact == Spec => []IntactUnlessRaced
<1>1. IInv => IntactUnlessRaced
  BY DEF IInv, TypeOK, Orderly, LeasesAreOwn, IntactUnlessRaced
<1> QED
  BY Invariance, <1>1, PTL

(* At the same lanes the tmp directory is delivered empty, and stays its   *)
(* holder's own (I4).                                                      *)
THEOREM TmpStaysOwn == Spec => []TmpIsOwn
<1>1. IInv => TmpIsOwn
  BY DEF IInv, TypeOK, Orderly, TmpHolds, TmpIsOwn
<1> QED
  BY Invariance, <1>1, PTL

(* What a holder has been given, lease and tmp directory, stays its own,   *)
(* at every lane without a race and whatever races there are at others.    *)
THEOREM HoldersStayUndisturbed == Spec => []HoldersUndisturbed
BY LeasesIntact, TmpStaysOwn, PTL DEF HoldersUndisturbed

(* No process looking for a lane leaves the lease behind that it found and *)
(* that was a dead process's by then (I2), at a lane without a race.       *)
THEOREM DeadLeasesGo == Spec => DeadLeasesReclaimed
<1>1. IInv /\ IInv' /\ [Next]_vars =>
        [\A p \in Procs, l \in Lanes :
            lane[p] = l /\ lane'[p] = l + 1 /\ found[p] # None /\ l \notin raced' =>
                dir'[l] = None \/ Owner(l)' # found[p]]_vars
  <2> SUFFICES ASSUME IInv, IInv', Next, NEW p \in Procs, NEW l \in Lanes,
                      lane[p] = l, lane'[p] = l + 1, found[p] # None, l \notin raced'
               PROVE  dir'[l] = None \/ Owner(l)' # found[p]
    OBVIOUS
  <2> USE LaneAssumption
  <2>1. TypeOK /\ FoundAreDead /\ Orderly(l) /\ l \in Nat \ {0}
    BY RacedGrows DEF IInv, Lanes
  <2>2. JudgeHeld(p) \/ RemoveDir(p)
    <3>1. lane' # lane
      BY <2>1
    <3>2. PICK q \in Procs : Scan(q, "new") \/ Scan(q, "scan") \/ JudgeHeld(q)
                              \/ RemoveDir(q) \/ Exhausted(q) \/ Crash(q)
      BY <3>1 DEF Next, Begin, Acquire, MakeDir, FindDir, ReadFirst, ReadLease, StatYoung,
         StatOld, ReadAgain, JudgeStale, WriteLease, SetupFails, ClearTmp, Unlink, ScanAgain,
         UseTmp, Release
    <3>3. q = p
      BY <2>1, <3>2 DEF Scan, JudgeHeld, RemoveDir, Exhausted, Crash, TypeOK
    <3>4. ~ (Scan(p, "new") \/ Scan(p, "scan") \/ Exhausted(p) \/ Crash(p))
      BY <2>1 DEF Scan, Exhausted, Crash, TypeOK
    <3> QED
      BY <3>2, <3>3, <3>4
  <2>3. CASE JudgeHeld(p)
    <3>1. seen[p] \in Alive /\ found[p] \notin Alive
      BY <2>1, <2>3 DEF JudgeHeld, LooksAlive, FoundAreDead, Alive
    <3>2. dir[l] # found[p]
      BY <2>1, <2>3, <3>1 DEF JudgeHeld, Goes, Orderly, SeenIsFound, Alive
    <3> QED
      BY <2>1, <2>3, <3>2 DEF JudgeHeld, Owner, Orderly, FileIsOwn
  <2>4. CASE RemoveDir(p)
    <3>1. dir[l] # None /\ file[l] = None
      BY <2>1, <2>4 DEF RemoveDir, Goes, Orderly, RemovalsAreDue, Removing
    <3> QED
      BY <2>1, <2>4, <3>1 DEF RemoveDir, TypeOK
  <2> QED
    BY <2>2, <2>3, <2>4
<1> QED
  BY Invariance, <1>1, PTL DEF Spec, DeadLeasesReclaimed

=============================================================================
