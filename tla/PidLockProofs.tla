--------------------------- MODULE PidLockProofs ---------------------------
(* Proofs about the pid-file locks, for any number of processes and of     *)
(* crashes.                                                                *)
EXTENDS PidLock, TLAPS

Inside == {"open", "write"} \cup Holding

(* The pid in the lock file is that of a process that has the lock or was  *)
(* killed, and one that was refused, or has not come so far, is in no file.*)
RecordedPids ==
    /\ \A i \in Inode : content[i] # None =>
           pc[content[i]] \in Holding \cup {"leaving", "over", "dead"}
    /\ path # None /\ content[path] # None =>
           pc[content[path]] \in Holding \cup {"dead"}

(* A process that is about to look whose lock it is has the lock file open,*)
(* unless the name stands for another file by now, and then not for its.   *)
CheckerSees ==
    \A p \in Procs : pc[p] = "check" =>
        path = fd[p] \/ path = None \/ content[path] # p

(* A process that has not looked has read nothing. *)
Fresh == \A p \in Procs : pc[p] \in {"new", "found", "read"} => seen[p] = None

(* While p looks at the file it has met every holder, and the pid it has   *)
(* read, or can still read in the file it has opened, is of one it has met *)
(* or of a process that was killed.                                        *)
Met(p, q) == q = None \/ q \in met[p] \/ pc[q] = "dead"

Meets ==
    \A p \in Procs :
        /\ pc[p] \in Looking => \A q \in Procs : pc[q] \in Holding => q \in met[p]
        /\ pc[p] = "read" => Met(p, content[fd[p]])
        /\ pc[p] = "judge" => Met(p, seen[p])

AtMostOneAcquires ==
    \A p, q \in Procs : pc[p] \in Acquiring /\ pc[q] \in Acquiring => p = q

AtMostOneInside ==
    \A p, q \in Procs : pc[p] \in Inside /\ pc[q] \in Inside => p = q

HolderIsRecorded ==
    \A p \in Procs : pc[p] \in Holding => path # None /\ content[path] = p

OpenFileIsTheLock == \A p \in Procs : pc[p] \in {"write", "check"} => fd[p] = path

(* A process that looks at the lock of a holder sees him. *)
HolderIsSeen ==
    \A p, q \in Procs : pc[q] \in Holding =>
        /\ pc[p] = "read" => fd[p] = path
        /\ pc[p] = "judge" => seen[p] = q

Exclusive ==
    /\ AtMostOneAcquires
    /\ AtMostOneInside
    /\ HolderIsRecorded
    /\ OpenFileIsTheLock
    /\ HolderIsSeen

IInv == TypeOK /\ RecordedPids /\ CheckerSees /\ Fresh /\ Meets /\ (~ overlap => Exclusive)

-----------------------------------------------------------------------------
(* The invariant holds when the processes have not begun: nobody holds or  *)
(* acquires anything.                                                      *)
LEMMA InitIInv == Init => IInv
<1> SUFFICES ASSUME Init PROVE IInv
  OBVIOUS
<1> USE PidLockAssumption
<1>1. TypeOK
  BY DEF Init, TypeOK
<1>2. RecordedPids
  BY DEF Init, RecordedPids
<1>5. CheckerSees
  BY DEF Init, CheckerSees
<1>6. Fresh
  BY DEF Init, Fresh
<1>3. Meets
  BY DEF Init, Meets, Looking, Holding
<1>4. Exclusive
  BY DEF Init, Exclusive, AtMostOneAcquires, AtMostOneInside, HolderIsRecorded,
     OpenFileIsTheLock, HolderIsSeen, Inside, Acquiring, Looking, Holding
<1> QED
  BY <1>1, <1>2, <1>3, <1>4, <1>5, <1>6 DEF IInv

(* Every step keeps the types: an opened file is one of the inodes.        *)
LEMMA NextType ==
    TypeOK /\ [Next]_vars => TypeOK'
<1> SUFFICES ASSUME TypeOK, [Next]_vars
             PROVE  TypeOK'
  OBVIOUS
<1> USE PidLockAssumption
<1>1. CASE UNCHANGED vars
  BY <1>1 DEF vars, TypeOK, Acquiring, Looking, Holding, Ended
<1>2. ASSUME NEW p \in Procs, Step(p) PROVE TypeOK'
  <2>1. <<p, "created">> \in Inode /\ <<p, "rewritten">> \in Inode
    BY DEF Inode
  <2>2. CASE Create(p)
    BY <2>1, <2>2 DEF Create, Enter, Goes, OpenEmpty, TypeOK, Acquiring, Looking, Holding,
       Ended
  <2>3. CASE FindExisting(p)
    BY <2>3 DEF FindExisting, Enter, Goes, TypeOK, Acquiring, Looking, Holding, Ended
  <2>4. CASE OpenToRead(p)
    BY <2>4 DEF OpenToRead, Goes, history, TypeOK, Acquiring, Looking, Holding, Ended
  <2>5. CASE ReadPid(p)
    BY <2>5 DEF ReadPid, Goes, history, TypeOK, Acquiring, Looking, Holding, Ended
  <2>6. CASE Refuse(p)
    BY <2>6 DEF Refuse, Goes, history, TypeOK, Acquiring, Looking, Holding, Ended
  <2>7. CASE JudgeStale(p)
    BY <2>7 DEF JudgeStale, Goes, history, TypeOK, Acquiring, Looking, Holding, Ended
  <2>8. CASE TakeOver(p)
    <3>1. PICK i \in Inode : OpenEmpty(p, i)
      BY <2>1, <2>8 DEF TakeOver, TypeOK
    <3> QED
      BY <2>8, <3>1 DEF TakeOver, Goes, OpenEmpty, history, TypeOK, Acquiring, Looking,
         Holding, Ended
  <2>9. CASE WritePid(p)
    BY <2>9 DEF WritePid, Goes, TypeOK, Acquiring, Looking, Holding, Ended
  <2>10. CASE Release(p)
    BY <2>10 DEF Release, Goes, history, TypeOK, Acquiring, Looking, Holding, Ended
  <2>11. CASE OpenToCheck(p)
    BY <2>11 DEF OpenToCheck, Goes, history, TypeOK, Acquiring, Looking, Holding, Ended
  <2>12. CASE CheckOwner(p)
    BY <2>12 DEF CheckOwner, Goes, history, TypeOK, Acquiring, Looking, Holding, Ended
  <2>13. CASE Unlink(p)
    BY <2>13 DEF Unlink, Goes, history, TypeOK, Acquiring, Looking, Holding, Ended
  <2>14. CASE Exit(p)
    BY <2>14 DEF Exit, Goes, history, TypeOK, Acquiring, Looking, Holding, Ended
  <2> QED
    BY <1>2, <2>2, <2>3, <2>4, <2>5, <2>6, <2>7, <2>8, <2>9,
       <2>10, <2>11, <2>12, <2>13, <2>14 DEF Step, Acquire
<1>3. ASSUME NEW p \in Procs, Crash(p) PROVE TypeOK'
  BY <1>3 DEF Crash, history, TypeOK, Acquiring, Looking, Holding, Ended
<1> QED
  BY <1>1, <1>2, <1>3 DEF Next

(* A file is emptied when it is opened for writing, a pid is written only  *)
(* as its process gets the lock, and goes with the name at the release.    *)
LEMMA NextRecordedPids ==
    TypeOK /\ RecordedPids /\ CheckerSees /\ [Next]_vars => RecordedPids'
<1> SUFFICES ASSUME TypeOK, RecordedPids, CheckerSees, [Next]_vars
             PROVE  RecordedPids'
  OBVIOUS
<1> USE PidLockAssumption
<1>1. CASE UNCHANGED vars
  BY <1>1 DEF vars, TypeOK, RecordedPids, CheckerSees, Acquiring, Looking, Holding, Ended
<1>2. ASSUME NEW p \in Procs, Step(p) PROVE RecordedPids'
  <2>1. <<p, "created">> \in Inode /\ <<p, "rewritten">> \in Inode
    BY DEF Inode
  <2>2. CASE Create(p)
    BY <2>1, <2>2 DEF Create, Enter, Goes, OpenEmpty, TypeOK, RecordedPids, CheckerSees,
       Acquiring, Looking, Holding, Ended
  <2>3. CASE FindExisting(p)
    BY <2>3 DEF FindExisting, Enter, Goes, TypeOK, RecordedPids, CheckerSees, Acquiring,
       Looking, Holding, Ended
  <2>4. CASE OpenToRead(p)
    BY <2>4 DEF OpenToRead, Goes, history, TypeOK, RecordedPids, CheckerSees, Acquiring,
       Looking, Holding, Ended
  <2>5. CASE ReadPid(p)
    BY <2>5 DEF ReadPid, Goes, history, TypeOK, RecordedPids, CheckerSees, Acquiring,
       Looking, Holding, Ended
  <2>6. CASE Refuse(p)
    BY <2>6 DEF Refuse, Goes, history, TypeOK, RecordedPids, CheckerSees, Acquiring,
       Looking, Holding, Ended
  <2>7. CASE JudgeStale(p)
    BY <2>7 DEF JudgeStale, Goes, history, TypeOK, RecordedPids, CheckerSees, Acquiring,
       Looking, Holding, Ended
  <2>8. CASE TakeOver(p)
    <3>1. PICK i \in Inode : OpenEmpty(p, i)
      BY <2>1, <2>8 DEF TakeOver, TypeOK
    <3> QED
      BY <2>8, <3>1 DEF TakeOver, Goes, OpenEmpty, history, TypeOK, RecordedPids,
         CheckerSees, Acquiring, Looking, Holding, Ended
  <2>9. CASE WritePid(p)
    BY <2>9 DEF WritePid, Goes, TypeOK, RecordedPids, CheckerSees, Acquiring, Looking,
       Holding, Ended
  <2>10. CASE Release(p)
    BY <2>10 DEF Release, Goes, history, TypeOK, RecordedPids, CheckerSees, Acquiring,
       Looking, Holding, Ended
  <2>11. CASE OpenToCheck(p)
    BY <2>11 DEF OpenToCheck, Goes, history, TypeOK, RecordedPids, CheckerSees, Acquiring,
       Looking, Holding, Ended
  <2>12. CASE CheckOwner(p)
    BY <2>12 DEF CheckOwner, Goes, history, TypeOK, RecordedPids, CheckerSees, Acquiring,
       Looking, Holding, Ended
  <2>13. CASE Unlink(p)
    BY <2>13 DEF Unlink, Goes, history, TypeOK, RecordedPids, CheckerSees, Acquiring,
       Looking, Holding, Ended
  <2>14. CASE Exit(p)
    BY <2>14 DEF Exit, Goes, history, TypeOK, RecordedPids, CheckerSees, Acquiring,
       Looking, Holding, Ended
  <2> QED
    BY <1>2, <2>2, <2>3, <2>4, <2>5, <2>6, <2>7, <2>8, <2>9,
       <2>10, <2>11, <2>12, <2>13, <2>14 DEF Step, Acquire
<1>3. ASSUME NEW p \in Procs, Crash(p) PROVE RecordedPids'
  BY <1>3 DEF Crash, history, TypeOK, RecordedPids, CheckerSees, Acquiring, Looking,
     Holding, Ended
<1> QED
  BY <1>1, <1>2, <1>3 DEF Next

(* The name of the lock never returns to a file it has been taken from.    *)
LEMMA NextCheckerSees ==
    TypeOK /\ CheckerSees /\ [Next]_vars => CheckerSees'
<1> SUFFICES ASSUME TypeOK, CheckerSees, [Next]_vars
             PROVE  CheckerSees'
  OBVIOUS
<1> USE PidLockAssumption
<1>1. CASE UNCHANGED vars
  BY <1>1 DEF vars, TypeOK, CheckerSees, Acquiring, Looking, Holding, Ended
<1>2. ASSUME NEW p \in Procs, Step(p) PROVE CheckerSees'
  <2>1. <<p, "created">> \in Inode /\ <<p, "rewritten">> \in Inode
    BY DEF Inode
  <2>2. CASE Create(p)
    BY <2>1, <2>2 DEF Create, Enter, Goes, OpenEmpty, TypeOK, CheckerSees, Acquiring,
       Looking, Holding, Ended
  <2>3. CASE FindExisting(p)
    BY <2>3 DEF FindExisting, Enter, Goes, TypeOK, CheckerSees, Acquiring, Looking,
       Holding, Ended
  <2>4. CASE OpenToRead(p)
    BY <2>4 DEF OpenToRead, Goes, history, TypeOK, CheckerSees, Acquiring, Looking,
       Holding, Ended
  <2>5. CASE ReadPid(p)
    BY <2>5 DEF ReadPid, Goes, history, TypeOK, CheckerSees, Acquiring, Looking, Holding,
       Ended
  <2>6. CASE Refuse(p)
    BY <2>6 DEF Refuse, Goes, history, TypeOK, CheckerSees, Acquiring, Looking, Holding,
       Ended
  <2>7. CASE JudgeStale(p)
    BY <2>7 DEF JudgeStale, Goes, history, TypeOK, CheckerSees, Acquiring, Looking,
       Holding, Ended
  <2>8. CASE TakeOver(p)
    <3>1. PICK i \in Inode : OpenEmpty(p, i)
      BY <2>1, <2>8 DEF TakeOver, TypeOK
    <3> QED
      BY <2>8, <3>1 DEF TakeOver, Goes, OpenEmpty, history, TypeOK, CheckerSees,
         Acquiring, Looking, Holding, Ended
  <2>9. CASE WritePid(p)
    BY <2>9 DEF WritePid, Goes, TypeOK, CheckerSees, Acquiring, Looking, Holding, Ended
  <2>10. CASE Release(p)
    BY <2>10 DEF Release, Goes, history, TypeOK, CheckerSees, Acquiring, Looking, Holding,
       Ended
  <2>11. CASE OpenToCheck(p)
    BY <2>11 DEF OpenToCheck, Goes, history, TypeOK, CheckerSees, Acquiring, Looking,
       Holding, Ended
  <2>12. CASE CheckOwner(p)
    BY <2>12 DEF CheckOwner, Goes, history, TypeOK, CheckerSees, Acquiring, Looking,
       Holding, Ended
  <2>13. CASE Unlink(p)
    BY <2>13 DEF Unlink, Goes, history, TypeOK, CheckerSees, Acquiring, Looking, Holding,
       Ended
  <2>14. CASE Exit(p)
    BY <2>14 DEF Exit, Goes, history, TypeOK, CheckerSees, Acquiring, Looking, Holding,
       Ended
  <2> QED
    BY <1>2, <2>2, <2>3, <2>4, <2>5, <2>6, <2>7, <2>8, <2>9,
       <2>10, <2>11, <2>12, <2>13, <2>14 DEF Step, Acquire
<1>3. ASSUME NEW p \in Procs, Crash(p) PROVE CheckerSees'
  BY <1>3 DEF Crash, history, TypeOK, CheckerSees, Acquiring, Looking, Holding, Ended
<1> QED
  BY <1>1, <1>2, <1>3 DEF Next

(* The pid is read once.                                                   *)
LEMMA NextFresh ==
    TypeOK /\ Fresh /\ [Next]_vars => Fresh'
<1> SUFFICES ASSUME TypeOK, Fresh, [Next]_vars
             PROVE  Fresh'
  OBVIOUS
<1> USE PidLockAssumption
<1>1. CASE UNCHANGED vars
  BY <1>1 DEF vars, TypeOK, Fresh, Acquiring, Looking, Holding, Ended
<1>2. ASSUME NEW p \in Procs, Step(p) PROVE Fresh'
  <2>1. <<p, "created">> \in Inode /\ <<p, "rewritten">> \in Inode
    BY DEF Inode
  <2>2. CASE Create(p)
    BY <2>1, <2>2 DEF Create, Enter, Goes, OpenEmpty, TypeOK, Fresh, Acquiring, Looking,
       Holding, Ended
  <2>3. CASE FindExisting(p)
    BY <2>3 DEF FindExisting, Enter, Goes, TypeOK, Fresh, Acquiring, Looking, Holding, Ended
  <2>4. CASE OpenToRead(p)
    BY <2>4 DEF OpenToRead, Goes, history, TypeOK, Fresh, Acquiring, Looking, Holding, Ended
  <2>5. CASE ReadPid(p)
    BY <2>5 DEF ReadPid, Goes, history, TypeOK, Fresh, Acquiring, Looking, Holding, Ended
  <2>6. CASE Refuse(p)
    BY <2>6 DEF Refuse, Goes, history, TypeOK, Fresh, Acquiring, Looking, Holding, Ended
  <2>7. CASE JudgeStale(p)
    BY <2>7 DEF JudgeStale, Goes, history, TypeOK, Fresh, Acquiring, Looking, Holding, Ended
  <2>8. CASE TakeOver(p)
    <3>1. PICK i \in Inode : OpenEmpty(p, i)
      BY <2>1, <2>8 DEF TakeOver, TypeOK
    <3> QED
      BY <2>8, <3>1 DEF TakeOver, Goes, OpenEmpty, history, TypeOK, Fresh, Acquiring,
         Looking, Holding, Ended
  <2>9. CASE WritePid(p)
    BY <2>9 DEF WritePid, Goes, TypeOK, Fresh, Acquiring, Looking, Holding, Ended
  <2>10. CASE Release(p)
    BY <2>10 DEF Release, Goes, history, TypeOK, Fresh, Acquiring, Looking, Holding, Ended
  <2>11. CASE OpenToCheck(p)
    BY <2>11 DEF OpenToCheck, Goes, history, TypeOK, Fresh, Acquiring, Looking, Holding,
       Ended
  <2>12. CASE CheckOwner(p)
    BY <2>12 DEF CheckOwner, Goes, history, TypeOK, Fresh, Acquiring, Looking, Holding,
       Ended
  <2>13. CASE Unlink(p)
    BY <2>13 DEF Unlink, Goes, history, TypeOK, Fresh, Acquiring, Looking, Holding, Ended
  <2>14. CASE Exit(p)
    BY <2>14 DEF Exit, Goes, history, TypeOK, Fresh, Acquiring, Looking, Holding, Ended
  <2> QED
    BY <1>2, <2>2, <2>3, <2>4, <2>5, <2>6, <2>7, <2>8, <2>9,
       <2>10, <2>11, <2>12, <2>13, <2>14 DEF Step, Acquire
<1>3. ASSUME NEW p \in Procs, Crash(p) PROVE Fresh'
  BY <1>3 DEF Crash, history, TypeOK, Fresh, Acquiring, Looking, Holding, Ended
<1> QED
  BY <1>1, <1>2, <1>3 DEF Next

(* Who gets the lock is met by those who look at it; who is found to have  *)
(* it has been met already.                                                *)
LEMMA NextMeets ==
    TypeOK /\ RecordedPids /\ Fresh /\ Meets /\ [Next]_vars => Meets'
<1> SUFFICES ASSUME TypeOK, RecordedPids, Fresh, Meets, [Next]_vars
             PROVE  Meets'
  OBVIOUS
<1> USE PidLockAssumption
<1>1. CASE UNCHANGED vars
  BY <1>1 DEF vars, TypeOK, RecordedPids, Meets, Met, Acquiring, Looking, Holding, Ended
<1>2. ASSUME NEW p \in Procs, Step(p) PROVE Meets'
  <2>1. <<p, "created">> \in Inode /\ <<p, "rewritten">> \in Inode
    BY DEF Inode
  <2>2. CASE Create(p)
    BY <2>1, <2>2 DEF Create, Enter, Goes, OpenEmpty, TypeOK, RecordedPids, Meets, Met,
       Acquiring, Looking, Holding, Ended
  <2>3. CASE FindExisting(p)
    BY <2>3 DEF FindExisting, Enter, Goes, TypeOK, RecordedPids, Meets, Met, Acquiring,
       Looking, Holding, Ended
  <2>4. CASE OpenToRead(p)
    <3>1. CASE path = None
      <4>1. seen[p] = None
        BY <2>4 DEF OpenToRead, Goes, Fresh
      <4> QED
        BY <2>4, <3>1, <4>1 DEF OpenToRead, Goes, history, TypeOK, RecordedPids, Meets,
           Met, Acquiring, Looking, Holding, Ended
    <3>2. CASE path # None
      BY <2>4, <3>2 DEF OpenToRead, Goes, history, TypeOK, RecordedPids, Meets, Met,
         Acquiring, Looking, Holding, Ended
    <3> QED
      BY <3>1, <3>2
  <2>5. CASE ReadPid(p)
    BY <2>5 DEF ReadPid, Goes, history, TypeOK, RecordedPids, Meets, Met, Acquiring,
       Looking, Holding, Ended
  <2>6. CASE Refuse(p)
    BY <2>6 DEF Refuse, Goes, history, TypeOK, RecordedPids, Meets, Met, Acquiring,
       Looking, Holding, Ended
  <2>7. CASE JudgeStale(p)
    BY <2>7 DEF JudgeStale, Goes, history, TypeOK, RecordedPids, Meets, Met, Acquiring,
       Looking, Holding, Ended
  <2>8. CASE TakeOver(p)
    <3>1. PICK i \in Inode : OpenEmpty(p, i)
      BY <2>1, <2>8 DEF TakeOver, TypeOK
    <3> QED
      BY <2>8, <3>1 DEF TakeOver, Goes, OpenEmpty, history, TypeOK, RecordedPids, Meets,
         Met, Acquiring, Looking, Holding, Ended
  <2>9. CASE WritePid(p)
    BY <2>9 DEF WritePid, Goes, TypeOK, RecordedPids, Meets, Met, Acquiring, Looking,
       Holding, Ended
  <2>10. CASE Release(p)
    BY <2>10 DEF Release, Goes, history, TypeOK, RecordedPids, Meets, Met, Acquiring,
       Looking, Holding, Ended
  <2>11. CASE OpenToCheck(p)
    BY <2>11 DEF OpenToCheck, Goes, history, TypeOK, RecordedPids, Meets, Met, Acquiring,
       Looking, Holding, Ended
  <2>12. CASE CheckOwner(p)
    BY <2>12 DEF CheckOwner, Goes, history, TypeOK, RecordedPids, Meets, Met, Acquiring,
       Looking, Holding, Ended
  <2>13. CASE Unlink(p)
    BY <2>13 DEF Unlink, Goes, history, TypeOK, RecordedPids, Meets, Met, Acquiring,
       Looking, Holding, Ended
  <2>14. CASE Exit(p)
    BY <2>14 DEF Exit, Goes, history, TypeOK, RecordedPids, Meets, Met, Acquiring,
       Looking, Holding, Ended
  <2> QED
    BY <1>2, <2>2, <2>3, <2>4, <2>5, <2>6, <2>7, <2>8, <2>9,
       <2>10, <2>11, <2>12, <2>13, <2>14 DEF Step, Acquire
<1>3. ASSUME NEW p \in Procs, Crash(p) PROVE Meets'
  BY <1>3 DEF Crash, history, TypeOK, RecordedPids, Meets, Met, Acquiring, Looking,
     Holding, Ended
<1> QED
  BY <1>1, <1>2, <1>3 DEF Next

-----------------------------------------------------------------------------
(* A process that looks for the lock while nobody else is acquiring it     *)
(* finds either no file, or one whose pid decides whether it is held.      *)
LEMMA NextExclusive ==
    TypeOK /\ RecordedPids /\ Exclusive /\ [Next]_vars /\ ~ overlap' => Exclusive'
<1> SUFFICES ASSUME TypeOK, RecordedPids, Exclusive, [Next]_vars, ~ overlap'
             PROVE  Exclusive'
  OBVIOUS
<1> USE PidLockAssumption DEF Exclusive
<1>1. CASE UNCHANGED vars
  BY <1>1 DEF vars, AtMostOneAcquires, AtMostOneInside,
       HolderIsRecorded, OpenFileIsTheLock, HolderIsSeen, Inside, TypeOK, Acquiring,
       Looking, Holding, Ended
<1>2. ASSUME NEW p \in Procs, Step(p) PROVE Exclusive'
  <2>1. <<p, "created">> \in Inode /\ <<p, "rewritten">> \in Inode
    BY DEF Inode
  <2>2. CASE Create(p)
    <3>1. \A q \in Procs \ {p} : pc[q] \notin Acquiring \cup Holding
      BY <2>2 DEF Create, Enter, HolderIsRecorded
    <3> QED
      BY <2>1, <2>2, <3>1 DEF Create, Enter, Goes, OpenEmpty, AtMostOneAcquires,
         AtMostOneInside,
       HolderIsRecorded, OpenFileIsTheLock, HolderIsSeen, Inside, TypeOK, Acquiring,
       Looking, Holding, Ended
  <2>3. CASE FindExisting(p)
    BY <2>3 DEF FindExisting, Enter, Goes, AtMostOneAcquires, AtMostOneInside,
       HolderIsRecorded, OpenFileIsTheLock, HolderIsSeen, Inside, TypeOK, Acquiring,
       Looking, Holding, Ended
  <2>4. CASE OpenToRead(p)
    BY <2>4 DEF OpenToRead, Goes, history, AtMostOneAcquires, AtMostOneInside,
       HolderIsRecorded, OpenFileIsTheLock, HolderIsSeen, Inside, TypeOK, Acquiring,
       Looking, Holding, Ended
  <2>5. CASE ReadPid(p)
    BY <2>5 DEF ReadPid, Goes, history, AtMostOneAcquires, AtMostOneInside,
       HolderIsRecorded, OpenFileIsTheLock, HolderIsSeen, Inside, TypeOK, Acquiring,
       Looking, Holding, Ended
  <2>6. CASE Refuse(p)
    BY <2>6 DEF Refuse, Goes, history, AtMostOneAcquires, AtMostOneInside,
       HolderIsRecorded, OpenFileIsTheLock, HolderIsSeen, Inside, TypeOK, Acquiring,
       Looking, Holding, Ended
  <2>7. CASE JudgeStale(p)
    <3>1. \A q \in Procs \ {p} : pc[q] \notin Acquiring \cup Holding
      BY <2>7 DEF JudgeStale, Goes, HeldByOther, Alive, AtMostOneAcquires,
         HolderIsSeen, Acquiring, Looking
    <3> QED
      BY <2>7, <3>1 DEF JudgeStale, Goes, history, AtMostOneAcquires, AtMostOneInside,
       HolderIsRecorded, OpenFileIsTheLock, HolderIsSeen, Inside, TypeOK, Acquiring,
       Looking, Holding, Ended
  <2>8. CASE TakeOver(p)
    <3>1. PICK i \in Inode : OpenEmpty(p, i)
      BY <2>1, <2>8 DEF TakeOver, TypeOK
    <3> QED
      BY <2>8, <3>1 DEF TakeOver, Goes, OpenEmpty, history, AtMostOneAcquires,
         AtMostOneInside,
       HolderIsRecorded, OpenFileIsTheLock, HolderIsSeen, Inside, TypeOK, Acquiring,
       Looking, Holding, Ended
  <2>9. CASE WritePid(p)
    BY <2>9 DEF WritePid, Goes, AtMostOneAcquires, AtMostOneInside,
       HolderIsRecorded, OpenFileIsTheLock, HolderIsSeen, Inside, TypeOK, Acquiring,
       Looking, Holding, Ended
  <2>10. CASE Release(p)
    BY <2>10 DEF Release, Goes, history, AtMostOneAcquires, AtMostOneInside,
       HolderIsRecorded, OpenFileIsTheLock, HolderIsSeen, Inside, TypeOK, Acquiring,
       Looking, Holding, Ended
  <2>11. CASE OpenToCheck(p)
    BY <2>11 DEF OpenToCheck, Goes, history, AtMostOneAcquires, AtMostOneInside,
       HolderIsRecorded, OpenFileIsTheLock, HolderIsSeen, Inside, TypeOK, Acquiring,
       Looking, Holding, Ended
  <2>12. CASE CheckOwner(p)
    BY <2>12 DEF CheckOwner, Goes, history, AtMostOneAcquires, AtMostOneInside,
       HolderIsRecorded, OpenFileIsTheLock, HolderIsSeen, Inside, TypeOK, Acquiring,
       Looking, Holding, Ended
  <2>13. CASE Unlink(p)
    BY <2>13 DEF Unlink, Goes, history, AtMostOneAcquires, AtMostOneInside,
       HolderIsRecorded, OpenFileIsTheLock, HolderIsSeen, Inside, TypeOK, Acquiring,
       Looking, Holding, Ended
  <2>14. CASE Exit(p)
    BY <2>14 DEF Exit, Goes, history, AtMostOneAcquires, AtMostOneInside,
       HolderIsRecorded, OpenFileIsTheLock, HolderIsSeen, Inside, TypeOK, Acquiring,
       Looking, Holding, Ended
  <2> QED
    BY <1>2, <2>2, <2>3, <2>4, <2>5, <2>6, <2>7, <2>8, <2>9,
       <2>10, <2>11, <2>12, <2>13, <2>14 DEF Step, Acquire
<1>3. ASSUME NEW p \in Procs, Crash(p) PROVE Exclusive'
  BY <1>3 DEF Crash, history, AtMostOneAcquires, AtMostOneInside,
       HolderIsRecorded, OpenFileIsTheLock, HolderIsSeen, Inside, TypeOK, Acquiring,
       Looking, Holding, Ended
<1> QED
  BY <1>1, <1>2, <1>3 DEF Next

(* The history variable never goes back to FALSE.                          *)
LEMMA OverlapStays == TypeOK /\ [Next]_vars /\ overlap => overlap'
BY DEF TypeOK, vars, history, Next, Step, Acquire, Create, FindExisting, Enter, OpenToRead,
   ReadPid, Refuse, JudgeStale, TakeOver, WritePid, Release, OpenToCheck, CheckOwner, Unlink,
   Exit, Crash

(* The inductive invariant. *)
LEMMA Invariance == Spec => []IInv
<1>1. IInv /\ [Next]_vars => IInv'
  BY NextType, NextRecordedPids, NextCheckerSees, NextFresh, NextMeets, NextExclusive,
     OverlapStays
     DEF IInv, TypeOK
<1> QED
  BY InitIInv, <1>1, PTL DEF Spec

-----------------------------------------------------------------------------
(* The state of the locks is well formed throughout.                       *)
THEOREM TypeCorrectness == Spec => []TypeOK
<1>1. IInv => TypeOK
  BY DEF IInv
<1> QED
  BY Invariance, <1>1, PTL

(* Without overlapping acquisitions the lock of acquire_lock excludes, for *)
(* any number of processes, of crashes and of takeovers (I9).              *)
THEOREM LockExcludes == Spec => []ExclusiveUnlessOverlap
<1>1. IInv => ExclusiveUnlessOverlap
  BY DEF IInv, Exclusive, AtMostOneInside, ExclusiveUnlessOverlap, MutualExclusion, Inside
<1> QED
  BY Invariance, <1>1, PTL

(* COORDINATOR_LOCKED and WORKTREE_LOCKED come only with a process that is *)
(* still there and has held the lock since the refused one found it (AC-7, *)
(* AC-7b), with any number of processes reading, judging, taking over and  *)
(* releasing the same file at once.                                        *)
THEOREM RefusalsAreJustified == Spec => RefusedOnlyByHolder
<1>1. IInv /\ [Next]_vars =>
        [\A p \in Procs : pc[p] # "refused" /\ pc'[p] = "refused" =>
            \E q \in met[p] \ {p} : Alive(q)]_vars
  <2> SUFFICES ASSUME IInv, Next, NEW p \in Procs,
                      pc[p] # "refused", pc'[p] = "refused"
               PROVE  \E q \in met[p] \ {p} : Alive(q)
    OBVIOUS
  <2>1. Refuse(p)
    BY DEF IInv, TypeOK, Next, Step, Acquire, Create, FindExisting, Enter, OpenToRead,
       ReadPid,
       Refuse, JudgeStale, TakeOver, WritePid, Release, OpenToCheck, CheckOwner, Unlink, Exit,
       Crash, Goes
  <2>2. seen[p] \in Procs \ {p} /\ Alive(seen[p]) /\ pc[p] = "judge"
    BY <2>1 DEF Refuse, Goes, HeldByOther, IInv, TypeOK
  <2>3. seen[p] \in met[p]
    BY <2>2, PidLockAssumption DEF IInv, Meets, Met, Alive, Acquiring, Looking, Holding
  <2> QED
    BY <2>2, <2>3
<1> QED
  BY Invariance, <1>1, PTL DEF Spec, RefusedOnlyByHolder

(* Releasing removes only the lock of the process that leaves, as long as  *)
(* acquisitions did not overlap (worktree.py, release_worktree_lock).      *)
THEOREM ReleasesAreOwn == Spec => ReleasesOwnLock
<1>1. IInv /\ [Next]_vars =>
        [~ overlap /\ path # None /\ path' = None =>
            \E p \in Procs : /\ pc[p] \in Holding /\ pc'[p] = "leaving"
                             /\ content[path] = p]_vars
  <2> SUFFICES ASSUME IInv, Next, ~ overlap, path # None, path' = None
               PROVE  \E p \in Procs : /\ pc[p] \in Holding /\ pc'[p] = "leaving"
                                       /\ content[path] = p
    OBVIOUS
  <2>1. PICK p \in Procs : Step(p) \/ Crash(p)
    BY DEF Next
  <2>2. Release(p) \/ Unlink(p)
    BY <2>1, PidLockAssumption DEF Step, Acquire, Create, FindExisting, Enter, OpenToRead,
       ReadPid, Refuse, JudgeStale, TakeOver, WritePid, OpenToCheck, CheckOwner, Exit, Crash,
       OpenEmpty, Inode
  <2>3. pc[p] \in Holding /\ pc'[p] = "leaving"
    BY <2>2 DEF Release, Unlink, Goes, IInv, TypeOK, Holding
  <2> QED
    BY <2>3 DEF IInv, Exclusive, HolderIsRecorded
<1> QED
  BY Invariance, <1>1, PTL DEF Spec, ReleasesOwnLock

=============================================================================
