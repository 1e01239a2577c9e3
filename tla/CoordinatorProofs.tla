------------------------- MODULE CoordinatorProofs -------------------------
(***************************************************************************)
(* Proofs about Coordinator, in three inductive invariants, each on top of *)
(* the one before:                                                         *)
(*                                                                         *)
(*   IInv   types, and what the program counter says of the task and of    *)
(*          the commits _integrate is at: merges are durable, and the base *)
(*          branch only advances;                                          *)
(*   OInv   the order of a run: the phases, what the loops over their      *)
(*          tasks have behind them, and the merge queue.  From it follow   *)
(*          the barrier between phases, the stop at a parked task, what    *)
(*          all_merged means, what a worktree starts from, and that the    *)
(*          coordinator implements PhasedMerge;                            *)
(*   WInv   the commits and edits of each task: no work is lost, and what  *)
(*          is rebased is verified.                                        *)
(***************************************************************************)
EXTENDS Coordinator, SequenceTheorems, TLAPS

(* The states of pc in which Task is the task being integrated, and those  *)
(* in which it has not been marked as merged yet.                          *)
Deciding == {"refs", "cas", "rebase", "verify", "mark"}

Integrating == Deciding \cup {"clean_worktree", "clean_branch"}

(* What relates the program counter to the rest.                           *)
Control ==
    /\ mem # None <=> pc \in Running
    /\ pc \in Running => disk # None
    /\ pc \in Integrating => todo # <<>>
    /\ pc \in Running \ {"phase"} => phase \in Phases
    /\ sessions # {} => pc = "sessions"
    /\ \A t \in sessions : mem.st[t] = "executing"
    /\ mode = "serial" => \A t, u \in sessions : t = u
    /\ \A t \in wt : branch[t] # None
    /\ pc \in {"rebase", "verify"} => Task \in wt
    /\ pc \in Deciding => mem.st[Task] = "integrating"

(* The merges recorded are in the base branch, and every update of that    *)
(* branch that _integrate is about to make is a fast-forward.              *)
Durable ==
    /\ mem # None => MergesIntact(mem, base)
    /\ DurableMerge
    /\ pc = "cas" => baseSha \subseteq taskSha
    /\ pc = "mark" => taskSha \subseteq base

IInv == TypeOK /\ Control /\ Durable

-----------------------------------------------------------------------------
(* The helpers on sequences.                                               *)

(* The task visited next is a task of the plan. *)
LEMMA TaskType ==
    ASSUME todo \in Seq(Tasks), todo # <<>>
    PROVE  Task \in Tasks /\ Tail(todo) \in Seq(Tasks)
BY HeadTailProperties DEF Task

(* Removing a task from a queue leaves a queue. *)
LEMMA WithoutType ==
    ASSUME NEW s \in Seq(Tasks), NEW t
    PROVE  Without(s, t) \in Seq(Tasks)
<1>1. CASE t \notin Elements(s)
  BY <1>1 DEF Without
<1>2. CASE t \in Elements(s)
  <2> DEFINE k == CHOOSE i \in 1..Len(s) : s[i] = t
  <2>1. k \in 1..Len(s)
    BY <1>2 DEF Elements
  <2> HIDE DEF k
  <2>2. SubSeq(s, 1, k - 1) \in Seq(Tasks)
    <3>1. k - 1 \in Int /\ \A i \in 1..(k - 1) : s[i] \in Tasks
      BY <2>1
    <3> QED
      BY <3>1, SubSeqProperties
  <2>3. SubSeq(s, k + 1, Len(s)) \in Seq(Tasks)
    <3>1. Len(s) \in Int /\ k + 1 \in Int /\ \A i \in (k + 1)..Len(s) : s[i] \in Tasks
      BY <2>1
    <3> QED
      BY <3>1, SubSeqProperties
  <2>4. Without(s, t) = SubSeq(s, 1, k - 1) \o SubSeq(s, k + 1, Len(s))
    BY <1>2 DEF Without, k
  <2> QED
    BY <2>2, <2>3, <2>4
<1> QED
  BY <1>1, <1>2

-----------------------------------------------------------------------------
(* The updates of the state record.  Each keeps the record well typed and, *)
(* except that of _mark_merged, says of every task what the old one said   *)
(* of its merge.                                                           *)

SameMerges(s, r) ==
    /\ \A t \in Tasks : s.st[t] = "merged" <=> r.st[t] = "merged"
    /\ r.merged = s.merged

(* The fields of a well typed state record. *)
LEMMA FieldTypes ==
    ASSUME NEW s \in CoordinatorState
    PROVE  /\ s.st \in [Tasks -> TaskState]
           /\ s.reason \in [Tasks -> ParkReason \cup {None}]
           /\ s.merged \in [Tasks -> Commit \cup {None}]
           /\ s.requeue \in [Tasks -> Nat]
           /\ s.queue \in Seq(Tasks)
           /\ s.phase \in [Phases -> PhaseState]
           /\ s.status \in RunStatus
           /\ s.stoppedAt \in Nat
BY DEF CoordinatorState, Record

(* A change of phase states and of the run's status. *)
LEMMA PhaseUpdate ==
    ASSUME NEW s \in CoordinatorState, NEW p \in Phases, NEW x \in PhaseState,
           NEW y \in RunStatus, NEW n \in Nat
    PROVE  LET r1 == [s EXCEPT !.phase[p] = x]
               r2 == [s EXCEPT !.phase[p] = x, !.status = y, !.stoppedAt = n]
           IN  /\ r1 \in CoordinatorState /\ SameMerges(s, r1)
               /\ r2 \in CoordinatorState /\ SameMerges(s, r2)
BY DEF CoordinatorState, Record, SameMerges

(* Any change of task states that neither parks, merges nor frees a task.  *)
LEMMA StatesUpdate ==
    ASSUME NEW s \in CoordinatorState, NEW f \in [Tasks -> TaskState],
           \A t \in Tasks : f[t] = s.st[t]
               \/ {f[t], s.st[t]} \cap {"parked", "merged"} = {}
    PROVE  LET r == [s EXCEPT !.st = f]
           IN  r \in CoordinatorState /\ SameMerges(s, r)
BY DEF CoordinatorState, Record, SameMerges

(* One task changes to a state that is neither parked nor merged. *)
LEMMA StateUpdate ==
    ASSUME NEW s \in CoordinatorState, NEW t \in Tasks,
           NEW x \in TaskState \ {"parked", "merged"},
           s.st[t] \notin {"parked", "merged"}, NEW q \in Seq(Tasks)
    PROVE  LET r1 == [s EXCEPT !.st[t] = x]
               r2 == [s EXCEPT !.st[t] = x, !.queue = q]
           IN  /\ r1 \in CoordinatorState /\ SameMerges(s, r1)
               /\ r2 \in CoordinatorState /\ SameMerges(s, r2)
BY DEF CoordinatorState, Record, SameMerges

(* A task is parked with a reason. *)
LEMMA ParkUpdate ==
    ASSUME NEW s \in CoordinatorState, NEW t \in Tasks, NEW why \in ParkReason,
           s.st[t] # "merged", NEW q \in Seq(Tasks)
    PROVE  LET r1 == [s EXCEPT !.st[t] = "parked", !.reason[t] = why]
               r2 == [s EXCEPT !.st[t] = "parked", !.reason[t] = why, !.queue = q]
           IN  /\ r1 \in CoordinatorState /\ SameMerges(s, r1)
               /\ r2 \in CoordinatorState /\ SameMerges(s, r2)
BY NoneAssumption DEF CoordinatorState, Record, SameMerges, TaskState

(* The requeue counter of a task is set. *)
LEMMA RequeueUpdate ==
    ASSUME NEW s \in CoordinatorState, NEW t \in Tasks, NEW n \in Nat
    PROVE  LET r == [s EXCEPT !.requeue[t] = n]
           IN  r \in CoordinatorState /\ SameMerges(s, r) /\ r.st = s.st
BY DEF CoordinatorState, Record, SameMerges

(* A task is marked as merged at a commit. *)
LEMMA MergeUpdate ==
    ASSUME NEW s \in CoordinatorState, NEW t \in Tasks, NEW c \in Commit,
           s.st[t] # "parked", NEW q \in Seq(Tasks)
    PROVE  [s EXCEPT !.st[t] = "merged", !.merged[t] = c, !.queue = q]
              \in CoordinatorState
BY NoneAssumption DEF CoordinatorState, Record, TaskState

(* The run is reported as all_merged. *)
LEMMA FinishUpdate ==
    ASSUME NEW s \in CoordinatorState, NEW y \in RunStatus
    PROVE  LET r == [s EXCEPT !.status = y]
           IN  r \in CoordinatorState /\ SameMerges(s, r)
BY DEF CoordinatorState, Record, SameMerges

(* A fresh state is well typed and claims no merge. *)
LEMMA FreshType ==
    /\ FreshState \in CoordinatorState
    /\ \A t \in Tasks : FreshState.st[t] # "merged"
<1>1. <<>> \in Seq(Tasks)
  OBVIOUS
<1> QED
  BY <1>1 DEF FreshState, CoordinatorState, Record, TaskState, PhaseState, RunStatus

(* _maybe_resume keeps the record well typed and the merges it claims. *)
LEMMA ResumedType ==
    ASSUME NEW s \in CoordinatorState, NEW retry
    PROVE  Resumed(s, retry) \in CoordinatorState /\ SameMerges(s, Resumed(s, retry))
<1> DEFINE retried(t) == s.st[t] = "parked" /\ t \in retry
           st == Resumed(s, retry).st
           reason == Resumed(s, retry).reason
<1>1. \A t \in Tasks :
         /\ st[t] \in TaskState
         /\ retried(t) => st[t] \notin {"parked", "merged"} /\ reason[t] = None
         /\ ~ retried(t) => /\ reason[t] = s.reason[t]
                            /\ st[t] = "parked" <=> s.st[t] = "parked"
                            /\ st[t] = "merged" <=> s.st[t] = "merged"
  BY DEF Resumed, TaskState, CoordinatorState, Record
<1>2. Resumed(s, retry) \in Record /\ Resumed(s, retry).merged = s.merged
  BY <1>1 DEF Resumed, CoordinatorState, Record, TaskState, PhaseState, RunStatus
<1> QED
  BY <1>1, <1>2 DEF CoordinatorState, SameMerges

(* What a change that keeps the merges, and a base branch that grows, do   *)
(* to the fact that the merges are in the base branch.                     *)
LEMMA MergesStay ==
    ASSUME NEW s, NEW r, SameMerges(s, r), NEW x, NEW y, x \subseteq y,
           MergesIntact(s, x)
    PROVE  MergesIntact(r, y)
BY DEF SameMerges, MergesIntact

-----------------------------------------------------------------------------
(* The invariant holds before the first run. *)
LEMMA InitIInv == Init => IInv
<1> SUFFICES ASSUME Init PROVE IInv
  OBVIOUS
<1> USE DEF Init
<1>1. TypeOK
  <2>1. 1 \in 1..(Len(Plan) + 1)
    BY PlanAssumption
  <2>2. <<>> \in Seq(Tasks)
    OBVIOUS
  <2> QED
    BY <2>1, <2>2 DEF TypeOK, Commit, Idle
<1>2. Control
  BY DEF Control, Running, Deciding, Integrating
<1>3. Durable
  BY DEF Durable, DurableMerge
<1> QED
  BY <1>1, <1>2, <1>3 DEF IInv

-----------------------------------------------------------------------------
(* One lemma for each action of the specification.                         *)

(* What the invariant says of a running coordinator. *)
LEMMA RunningFacts ==
    ASSUME IInv, pc \in Running
    PROVE  /\ mem \in CoordinatorState /\ mem # None
           /\ disk \in CoordinatorState /\ disk # None
           /\ MergesIntact(mem, base) /\ MergesIntact(disk, base)
BY DEF IInv, TypeOK, Control, Durable, DurableMerge

(* A run that ends, or is killed, leaves a state file whose merges are in  *)
(* the base branch.                                                        *)
LEMMA ExitStep ==
    ASSUME IInv, NEW where \in Idle, Exit(where),
           UNCHANGED <<base, branch, wt, edits, verified, made, interventions>>,
           midRebase' \subseteq Tasks, starts' \in Nat, crashes' \in Nat,
           disk' \in CoordinatorState \cup {None},
           DurableMerge'
    PROVE  IInv'
<1> USE DEF Exit
<1>1. TypeOK'
  <2>1. 1 \in 1..(Len(Plan) + 1)
    BY PlanAssumption
  <2>2. <<>> \in Seq(Tasks)
    OBVIOUS
  <2> QED
    BY <2>1, <2>2 DEF IInv, TypeOK, Commit
<1>2. Control'
  BY DEF IInv, Control, Running, Integrating, Deciding, Idle
<1>3. Durable'
  BY DEF Durable, Idle
<1> QED
  BY <1>1, <1>2, <1>3 DEF IInv

(* A phase that is merged already is passed over. *)
LEMMA SkipMergedPhaseStep == IInv /\ SkipMergedPhase => IInv'
<1> SUFFICES ASSUME IInv, SkipMergedPhase PROVE IInv'
  OBVIOUS
<1> USE DEF SkipMergedPhase, AtPhase, git, local, budget
<1>1. pc \in Running
  BY DEF Running
<1>2. /\ mem \in CoordinatorState /\ mem # None
      /\ disk \in CoordinatorState /\ disk # None
      /\ MergesIntact(mem, base) /\ MergesIntact(disk, base)
  BY <1>1, RunningFacts
<1>3. mem' \in CoordinatorState /\ SameMerges(mem, mem')
  BY <1>1, <1>2 DEF CoordinatorState, Record, SameMerges, TaskState, PhaseState
<1>4. TypeOK'
  BY <1>1, <1>2, <1>3, PlanAssumption DEF IInv, TypeOK, Phases, Idle, Running
<1>5. Control'
  BY <1>1, <1>2, <1>3, NoneAssumption DEF IInv, Control, Running, Integrating, Deciding
<1>6. Durable'
  BY <1>1, <1>2, <1>3, MergesStay DEF IInv, Durable, DurableMerge
<1> QED
  BY <1>4, <1>5, <1>6 DEF IInv

(* The phases after a stop are skipped. *)
LEMMA SkipAfterStopStep == IInv /\ SkipAfterStop => IInv'
<1> SUFFICES ASSUME IInv, SkipAfterStop PROVE IInv'
  OBVIOUS
<1> USE DEF SkipAfterStop, AtPhase, git, local, budget, Save
<1>1. pc \in Running
  BY DEF Running
<1>2. /\ mem \in CoordinatorState /\ mem # None
      /\ disk \in CoordinatorState /\ disk # None
      /\ MergesIntact(mem, base) /\ MergesIntact(disk, base)
  BY <1>1, RunningFacts
<1>3. mem' \in CoordinatorState /\ SameMerges(mem, mem')
  BY <1>1, <1>2 DEF CoordinatorState, Record, SameMerges, TaskState, PhaseState
<1>4. TypeOK'
  BY <1>1, <1>2, <1>3, PlanAssumption DEF IInv, TypeOK, Phases, Idle, Running
<1>5. Control'
  BY <1>1, <1>2, <1>3, NoneAssumption DEF IInv, Control, Running, Integrating, Deciding
<1>6. Durable'
  BY <1>1, <1>2, <1>3, MergesStay DEF IInv, Durable, DurableMerge
<1> QED
  BY <1>4, <1>5, <1>6 DEF IInv

(* A phase begins. *)
LEMMA BeginPhaseStep == IInv /\ BeginPhase => IInv'
<1> SUFFICES ASSUME IInv, BeginPhase PROVE IInv'
  OBVIOUS
<1> USE DEF BeginPhase, AtPhase, git, local, budget, Save
<1>1. pc \in Running
  BY DEF Running
<1>2. /\ mem \in CoordinatorState /\ mem # None
      /\ disk \in CoordinatorState /\ disk # None
      /\ MergesIntact(mem, base) /\ MergesIntact(disk, base)
  BY <1>1, RunningFacts
<1>3. todo' \in Seq(Tasks)
  BY PlanAssumption DEF Phases
<1>4. mem' \in CoordinatorState /\ SameMerges(mem, mem')
  BY <1>1, <1>2, <1>3 DEF CoordinatorState, Record, SameMerges, TaskState, PhaseState
<1>5. TypeOK'
  BY <1>1, <1>2, <1>3, <1>4, PlanAssumption DEF IInv, TypeOK, Phases, Idle, Running
<1>6. Control'
  BY <1>1, <1>2, <1>3, <1>4, NoneAssumption DEF IInv, Control, Running, Integrating, Deciding
<1>7. Durable'
  BY <1>1, <1>2, <1>3, <1>4, MergesStay DEF IInv, Durable, DurableMerge
<1> QED
  BY <1>5, <1>6, <1>7 DEF IInv

(* The worktree of one task of the phase is made ready. *)
LEMMA PreforkStep == IInv /\ Prefork => IInv'
<1> SUFFICES ASSUME IInv, Prefork PROVE IInv'
  OBVIOUS
<1> USE DEF Prefork, git, local, control, budget
<1>1. pc \in Running
  BY DEF Running
<1>2. /\ mem \in CoordinatorState /\ mem # None
      /\ disk \in CoordinatorState /\ disk # None
      /\ MergesIntact(mem, base) /\ MergesIntact(disk, base)
  BY <1>1, RunningFacts
<1>3. Task \in Tasks /\ Tail(todo) \in Seq(Tasks)
  BY TaskType DEF IInv, TypeOK, Control, Integrating, Deciding
<1>4. wt' \subseteq Tasks /\ branch' \in [Tasks -> Commit \cup {None}] /\ UNCHANGED <<base, edits, midRebase>>
  BY <1>3 DEF IInv, TypeOK, Fork
<1>5. \A u \in wt' : branch'[u] # None
  BY <1>3, NoneAssumption DEF IInv, Control, TypeOK, Fork
<1>6. mem' \in CoordinatorState /\ SameMerges(mem, mem')
  <2>1. CASE mem' = mem
    BY <1>2, <2>1 DEF SameMerges
  <2>2. CASE mem.st[Task] = "pending"
             /\ mem' = [mem EXCEPT !.st[Task] = "parked", !.reason[Task] = "TASK_ERROR"]
    <3>1. "TASK_ERROR" \in ParkReason /\ mem.st[Task] # "merged" /\ <<>> \in Seq(Tasks)
      BY <2>2 DEF ParkReason
    <3> QED
      BY <1>2, <1>3, <2>2, <3>1, ParkUpdate
  <2> QED
    BY <2>1, <2>2
<1>7. TypeOK'
  BY <1>1, <1>2, <1>3, <1>4, <1>5, <1>6 DEF IInv, TypeOK, Idle, Running
<1>8. Control'
  BY <1>1, <1>2, <1>3, <1>4, <1>5, <1>6, NoneAssumption DEF IInv, Control, Running, Integrating, Deciding
<1>9. Durable'
  BY <1>1, <1>2, <1>3, <1>4, <1>5, <1>6, MergesStay DEF IInv, Durable, DurableMerge
<1> QED
  BY <1>7, <1>8, <1>9 DEF IInv

(* All worktrees are ready and the sessions may start. *)
LEMMA PreforkedStep == IInv /\ Preforked => IInv'
<1> SUFFICES ASSUME IInv, Preforked PROVE IInv'
  OBVIOUS
<1> USE DEF Preforked, git, local, control, budget, Save
<1>1. pc \in Running
  BY DEF Running
<1>2. /\ mem \in CoordinatorState /\ mem # None
      /\ disk \in CoordinatorState /\ disk # None
      /\ MergesIntact(mem, base) /\ MergesIntact(disk, base)
  BY <1>1, RunningFacts
<1>3. Plan[phase] \in Seq(Tasks) /\ phase \in Phases /\ InPhase(phase) \subseteq Tasks
  BY <1>1, PlanAssumption DEF IInv, Control, Running, Phases, InPhase
<1>4. mem' \in CoordinatorState /\ SameMerges(mem, mem')
  <2>1. CASE mem' = mem
    BY <1>2, <2>1 DEF SameMerges
  <2>2. CASE mem' # mem
    <3> DEFINE f == [t \in Tasks |->
                  IF t \in {u \in InPhase(phase) : mem.st[u] \in {"pending", "executing"}}
                  THEN "executing" ELSE mem.st[t]]
    <3>1. mem' = [mem EXCEPT !.st = f]
      BY <2>2
    <3>2. /\ f \in [Tasks -> TaskState]
          /\ \A t \in Tasks : f[t] = mem.st[t]
                \/ {f[t], mem.st[t]} \cap {"parked", "merged"} = {}
      BY <1>2, FieldTypes DEF TaskState
    <3> HIDE DEF f
    <3> QED
      BY <1>2, <3>1, <3>2, StatesUpdate
  <2> QED
    BY <2>1, <2>2
<1>5. \A t \in sessions' : mem'.st[t] = "executing"
  BY <1>1, <1>2, <1>3, <1>4 DEF IInv, Control, CoordinatorState, Record
<1>6. TypeOK'
  BY <1>1, <1>2, <1>3, <1>4, <1>5 DEF IInv, TypeOK, Idle, Running
<1>7. Control'
  BY <1>1, <1>2, <1>3, <1>4, <1>5, NoneAssumption DEF IInv, Control, Running, Integrating, Deciding
<1>8. Durable'
  BY <1>1, <1>2, <1>3, <1>4, <1>5, MergesStay DEF IInv, Durable, DurableMerge
<1> QED
  BY <1>6, <1>7, <1>8 DEF IInv

(* A phase is recorded as merged or parked. *)
LEMMA EndPhaseStep == IInv /\ EndPhase => IInv'
<1> SUFFICES ASSUME IInv, EndPhase PROVE IInv'
  OBVIOUS
<1> USE DEF EndPhase, git, local, budget, Save
<1>1. pc \in Running
  BY DEF Running
<1>2. /\ mem \in CoordinatorState /\ mem # None
      /\ disk \in CoordinatorState /\ disk # None
      /\ MergesIntact(mem, base) /\ MergesIntact(disk, base)
  BY <1>1, RunningFacts
<1>3. phase \in Phases /\ phase \in Nat
  BY <1>1, PlanAssumption DEF IInv, Control, Running, Phases
<1>4. mem' \in CoordinatorState /\ SameMerges(mem, mem')
  BY <1>1, <1>2, <1>3 DEF CoordinatorState, Record, SameMerges, TaskState, PhaseState, AnyParked, RunStatus
<1>5. TypeOK'
  <2>1. phase' \in 1..(Len(Plan) + 1)
    BY <1>3, PlanAssumption DEF Phases
  <2>2. pc' \in Idle \cup Running
    BY DEF Running
  <2> QED
    BY <1>2, <1>4, <2>1, <2>2 DEF IInv, TypeOK
<1>6. Control'
  BY <1>1, <1>2, <1>3, <1>4, NoneAssumption DEF IInv, Control, Running, Integrating, Deciding
<1>7. Durable'
  BY <1>1, <1>2, <1>3, <1>4, MergesStay DEF IInv, Durable, DurableMerge
<1> QED
  BY <1>5, <1>6, <1>7 DEF IInv

(* A task with nothing to do is passed over. *)
LEMMA PassOverStep == IInv /\ PassOver => IInv'
<1> SUFFICES ASSUME IInv, PassOver PROVE IInv'
  OBVIOUS
<1> USE DEF PassOver, Visit, git, control, local, budget, LoopOf, Save
<1>1. pc \in Running
  BY DEF Running
<1>2. /\ mem \in CoordinatorState /\ mem # None
      /\ disk \in CoordinatorState /\ disk # None
      /\ MergesIntact(mem, base) /\ MergesIntact(disk, base)
  BY <1>1, RunningFacts
<1>3. Task \in Tasks /\ Tail(todo) \in Seq(Tasks)
  BY TaskType DEF IInv, TypeOK, Control, Integrating, Deciding
<1>4. TypeOK'
  BY <1>1, <1>2, <1>3 DEF IInv, TypeOK, Idle, Running
<1>5. Control'
  BY <1>1, <1>2, <1>3, NoneAssumption DEF IInv, Control, Running, Integrating, Deciding
<1>6. Durable'
  BY <1>1, <1>2, <1>3, MergesStay DEF IInv, Durable, DurableMerge
<1> QED
  BY <1>4, <1>5, <1>6 DEF IInv

(* A pending task is skipped after a park. *)
LEMMA SkipPendingStep == IInv /\ SkipPending => IInv'
<1> SUFFICES ASSUME IInv, SkipPending PROVE IInv'
  OBVIOUS
<1> USE DEF SkipPending, Visit, git, control, local, budget, LoopOf, Save
<1>1. pc \in Running
  BY DEF Running
<1>2. /\ mem \in CoordinatorState /\ mem # None
      /\ disk \in CoordinatorState /\ disk # None
      /\ MergesIntact(mem, base) /\ MergesIntact(disk, base)
  BY <1>1, RunningFacts
<1>3. Task \in Tasks /\ Tail(todo) \in Seq(Tasks)
  BY TaskType DEF IInv, TypeOK, Control, Integrating, Deciding
<1>4. mem' \in CoordinatorState /\ SameMerges(mem, mem')
  <2>1. "skipped" \in TaskState \ {"parked", "merged"} /\ <<>> \in Seq(Tasks)
    BY DEF TaskState
  <2> QED
    BY <1>2, <1>3, <2>1, StateUpdate DEF Unintegrated
<1>5. TypeOK'
  BY <1>1, <1>2, <1>3, <1>4 DEF IInv, TypeOK, Idle, Running
<1>6. Control'
  BY <1>1, <1>2, <1>3, <1>4, NoneAssumption DEF IInv, Control, Running, Integrating, Deciding
<1>7. Durable'
  BY <1>1, <1>2, <1>3, <1>4, MergesStay DEF IInv, Durable, DurableMerge
<1> QED
  BY <1>5, <1>6, <1>7 DEF IInv

(* A task goes to C2. *)
LEMMA DispatchStep == IInv /\ Dispatch => IInv'
<1> SUFFICES ASSUME IInv, Dispatch PROVE IInv'
  OBVIOUS
<1> USE DEF Dispatch, Visit, git, control, local, budget, LoopOf, Save
<1>1. pc \in Running
  BY DEF Running
<1>2. /\ mem \in CoordinatorState /\ mem # None
      /\ disk \in CoordinatorState /\ disk # None
      /\ MergesIntact(mem, base) /\ MergesIntact(disk, base)
  BY <1>1, RunningFacts
<1>3. Task \in Tasks /\ Tail(todo) \in Seq(Tasks)
  BY TaskType DEF IInv, TypeOK, Control, Integrating, Deciding
<1>4. mem' \in CoordinatorState /\ SameMerges(mem, mem')
  <2>1. "executing" \in TaskState \ {"parked", "merged"} /\ <<>> \in Seq(Tasks)
    BY DEF TaskState
  <2> QED
    BY <1>2, <1>3, <2>1, StateUpdate DEF Unintegrated
<1>5. mem'.st[Task] = "executing"
  BY <1>1, <1>2, <1>3, <1>4 DEF CoordinatorState, Record
<1>6. TypeOK'
  BY <1>1, <1>2, <1>3, <1>4, <1>5 DEF IInv, TypeOK, Idle, Running
<1>7. Control'
  BY <1>1, <1>2, <1>3, <1>4, <1>5,  NoneAssumption DEF IInv, Control, Running, Integrating, Deciding
<1>8. Durable'
  BY <1>1, <1>2, <1>3, <1>4, <1>5, MergesStay DEF IInv, Durable, DurableMerge
<1> QED
  BY <1>6, <1>7, <1>8 DEF IInv

(* The integration of a task begins. *)
LEMMA StartIntegrateStep == IInv /\ StartIntegrate => IInv'
<1> SUFFICES ASSUME IInv, StartIntegrate PROVE IInv'
  OBVIOUS
<1> USE DEF StartIntegrate, Visit, git, control, local, budget, LoopOf, Save
<1>1. pc \in Running
  BY DEF Running
<1>2. /\ mem \in CoordinatorState /\ mem # None
      /\ disk \in CoordinatorState /\ disk # None
      /\ MergesIntact(mem, base) /\ MergesIntact(disk, base)
  BY <1>1, RunningFacts
<1>3. Task \in Tasks /\ Tail(todo) \in Seq(Tasks)
  BY TaskType DEF IInv, TypeOK, Control, Integrating, Deciding
<1>4. mem' \in CoordinatorState /\ SameMerges(mem, mem')
  <2>1. "integrating" \in TaskState \ {"parked", "merged"} /\ <<>> \in Seq(Tasks)
    BY DEF TaskState
  <2> QED
    BY <1>2, <1>3, <2>1, StateUpdate DEF Unintegrated
<1>5. mem'.st[Task] = "integrating" /\ mem.requeue[Task] \in Nat
  BY <1>1, <1>2, <1>3, <1>4 DEF CoordinatorState, Record
<1>6. TypeOK'
  BY <1>1, <1>2, <1>3, <1>4, <1>5, FieldTypes DEF IInv, TypeOK, Idle, Running
<1>7. Control'
  BY <1>1, <1>2, <1>3, <1>4, <1>5, FieldTypes, NoneAssumption DEF IInv, Control, Running, Integrating, Deciding, Task
<1>8. Durable'
  BY <1>1, <1>2, <1>3, <1>4, <1>5, MergesStay DEF IInv, Durable, DurableMerge
<1> QED
  BY <1>6, <1>7, <1>8 DEF IInv

(* A session makes its own worktree. *)
LEMMA SessionForksStep == \A t \in Tasks : IInv /\ SessionForks(t) => IInv'
<1> SUFFICES ASSUME NEW t \in Tasks, IInv, SessionForks(t) PROVE IInv'
  OBVIOUS
<1> USE DEF SessionForks, Fork, local, control, budget
<1>1. pc \in Running
  BY DEF Running
<1>2. /\ mem \in CoordinatorState /\ mem # None
      /\ disk \in CoordinatorState /\ disk # None
      /\ MergesIntact(mem, base) /\ MergesIntact(disk, base)
  BY <1>1, RunningFacts
<1>3. \A u \in wt' : branch'[u] # None
  BY NoneAssumption DEF IInv, Control, TypeOK, Fork
<1>4. TypeOK'
  BY <1>1, <1>2, <1>3 DEF IInv, TypeOK, Idle, Running
<1>5. Control'
  BY <1>1, <1>2, <1>3, NoneAssumption DEF IInv, Control, Running, Integrating, Deciding
<1>6. Durable'
  BY <1>1, <1>2, <1>3, MergesStay DEF IInv, Durable, DurableMerge
<1> QED
  BY <1>4, <1>5, <1>6 DEF IInv

(* The agent edits files. *)
LEMMA SessionEditStep == \A t \in Tasks : IInv /\ SessionEdit(t) => IInv'
<1> SUFFICES ASSUME NEW t \in Tasks, IInv, SessionEdit(t) PROVE IInv'
  OBVIOUS
<1> USE DEF SessionEdit, InSession, control, local
<1>1. pc \in Running
  BY DEF Running
<1>2. /\ mem \in CoordinatorState /\ mem # None
      /\ disk \in CoordinatorState /\ disk # None
      /\ MergesIntact(mem, base) /\ MergesIntact(disk, base)
  BY <1>1, RunningFacts
<1>3. <<t, made[t] + 1>> \in Change
  BY BoundsAssumption DEF IInv, TypeOK, Change
<1>4. made' \in [Tasks \cup {Ext} -> Nat]
  BY DEF IInv, TypeOK
<1>5. edits' \in [Tasks -> Commit]
  BY <1>3 DEF IInv, TypeOK, Commit
<1>6. TypeOK'
  BY <1>1, <1>2, <1>3, <1>4, <1>5 DEF IInv, TypeOK, Idle, Running
<1>7. Control'
  BY <1>1, <1>2, <1>3, <1>4, <1>5, NoneAssumption DEF IInv, Control, Running, Integrating, Deciding
<1>8. Durable'
  BY <1>1, <1>2, <1>3, <1>4, <1>5, MergesStay DEF IInv, Durable, DurableMerge
<1> QED
  BY <1>6, <1>7, <1>8 DEF IInv

(* The agent commits. *)
LEMMA SessionCommitStep == \A t \in Tasks : IInv /\ SessionCommit(t) => IInv'
<1> SUFFICES ASSUME NEW t \in Tasks, IInv, SessionCommit(t) PROVE IInv'
  OBVIOUS
<1> USE DEF SessionCommit, InSession, control, local
<1>1. pc \in Running
  BY DEF Running
<1>2. /\ mem \in CoordinatorState /\ mem # None
      /\ disk \in CoordinatorState /\ disk # None
      /\ MergesIntact(mem, base) /\ MergesIntact(disk, base)
  BY <1>1, RunningFacts
<1>3. branch[t] \cup edits[t] \in Commit
  BY NoneAssumption DEF IInv, TypeOK, Control, Commit
<1>4. \A u \in wt' : branch'[u] # None
  BY <1>3, NoneAssumption DEF IInv, Control, TypeOK
<1>5. TypeOK'
  BY <1>1, <1>2, <1>3, <1>4 DEF IInv, TypeOK, Idle, Running, Commit
<1>6. Control'
  BY <1>1, <1>2, <1>3, <1>4, NoneAssumption DEF IInv, Control, Running, Integrating, Deciding
<1>7. Durable'
  BY <1>1, <1>2, <1>3, <1>4, MergesStay DEF IInv, Durable, DurableMerge
<1> QED
  BY <1>5, <1>6, <1>7 DEF IInv

(* A session succeeds, and its task waits for the merge. *)
LEMMA SessionSucceedsStep == \A t \in Tasks : IInv /\ SessionSucceeds(t) => IInv'
<1> SUFFICES ASSUME NEW t \in Tasks, IInv, SessionSucceeds(t) PROVE IInv'
  OBVIOUS
<1> USE DEF SessionSucceeds, InSession, control, local, SessionOver, Save
<1>1. pc \in Running
  BY DEF Running
<1>2. /\ mem \in CoordinatorState /\ mem # None
      /\ disk \in CoordinatorState /\ disk # None
      /\ MergesIntact(mem, base) /\ MergesIntact(disk, base)
  BY <1>1, RunningFacts
<1>3. mem.st[t] = "executing" /\ t \in sessions
  BY DEF IInv, Control, RunningSessions
<1>4. branch[t] \cup edits[t] \in Commit
  BY NoneAssumption DEF IInv, TypeOK, Control, Commit
<1>5. mem' \in CoordinatorState /\ SameMerges(mem, mem')
  <2> DEFINE q == IF t \in Elements(mem.queue) THEN mem.queue ELSE Append(mem.queue, t)
  <2>1. "awaiting_merge" \in TaskState \ {"parked", "merged"}
    BY DEF TaskState
  <2>2. q \in Seq(Tasks)
    BY <1>2, FieldTypes
  <2>3. mem' = [mem EXCEPT !.st[t] = "awaiting_merge", !.queue = q]
    BY <1>2
  <2> HIDE DEF q
  <2> QED
    <3>1. LET r == [mem EXCEPT !.st[t] = "awaiting_merge", !.queue = q]
          IN  r \in CoordinatorState /\ SameMerges(mem, r)
      BY <1>2, <1>3, <2>1, <2>2, StateUpdate
    <3> QED
      BY <2>3, <3>1
<1>6. \A u \in sessions' : mem'.st[u] = "executing"
  BY <1>1, <1>2, <1>3, <1>4, <1>5 DEF IInv, Control, TypeOK, CoordinatorState, Record
<1>7. TypeOK'
  BY <1>1, <1>2, <1>3, <1>4, <1>5, <1>6 DEF IInv, TypeOK, Idle, Running
<1>8. Control'
  BY <1>1, <1>2, <1>3, <1>4, <1>5, <1>6, NoneAssumption DEF IInv, Control, Running, Integrating, Deciding
<1>9. Durable'
  BY <1>1, <1>2, <1>3, <1>4, <1>5, <1>6, MergesStay DEF IInv, Durable, DurableMerge
<1> QED
  BY <1>7, <1>8, <1>9 DEF IInv

(* A session fails, and its task is parked. *)
LEMMA SessionFailsStep == \A t \in Tasks : IInv /\ SessionFails(t) => IInv'
<1> SUFFICES ASSUME NEW t \in Tasks, IInv, SessionFails(t) PROVE IInv'
  OBVIOUS
<1> USE DEF SessionFails, InSession, control, local, SessionOver, Save
<1>1. pc \in Running
  BY DEF Running
<1>2. /\ mem \in CoordinatorState /\ mem # None
      /\ disk \in CoordinatorState /\ disk # None
      /\ MergesIntact(mem, base) /\ MergesIntact(disk, base)
  BY <1>1, RunningFacts
<1>3. mem.st[t] = "executing" /\ t \in sessions
  BY DEF IInv, Control, RunningSessions
<1>4. mem' \in CoordinatorState /\ SameMerges(mem, mem')
  <2>1. "TASK_ERROR" \in ParkReason /\ mem.st[t] # "merged" /\ <<>> \in Seq(Tasks)
    BY <1>3 DEF ParkReason
  <2> QED
    BY <1>2, <2>1, ParkUpdate
<1>5. \A u \in sessions' : mem'.st[u] = "executing"
  BY <1>1, <1>2, <1>3, <1>4 DEF IInv, Control, TypeOK, CoordinatorState, Record
<1>6. TypeOK'
  BY <1>1, <1>2, <1>3, <1>4, <1>5 DEF IInv, TypeOK, Idle, Running, Commit
<1>7. Control'
  BY <1>1, <1>2, <1>3, <1>4, <1>5, NoneAssumption DEF IInv, Control, Running, Integrating, Deciding
<1>8. Durable'
  BY <1>1, <1>2, <1>3, <1>4, <1>5, MergesStay DEF IInv, Durable, DurableMerge
<1> QED
  BY <1>6, <1>7, <1>8 DEF IInv

(* All sessions of the phase are over. *)
LEMMA SessionsOverStep == IInv /\ SessionsOver => IInv'
<1> SUFFICES ASSUME IInv, SessionsOver PROVE IInv'
  OBVIOUS
<1> USE DEF SessionsOver, git, control, local, budget
<1>1. pc \in Running
  BY DEF Running
<1>2. /\ mem \in CoordinatorState /\ mem # None
      /\ disk \in CoordinatorState /\ disk # None
      /\ MergesIntact(mem, base) /\ MergesIntact(disk, base)
  BY <1>1, RunningFacts
<1>3. TypeOK'
  BY <1>1, <1>2, FieldTypes DEF IInv, TypeOK, Idle, Running
<1>4. Control'
  BY <1>1, <1>2, NoneAssumption DEF IInv, Control, Running, Integrating, Deciding
<1>5. Durable'
  BY <1>1, <1>2, MergesStay DEF IInv, Durable, DurableMerge
<1> QED
  BY <1>3, <1>4, <1>5 DEF IInv

(* Parking the task being integrated, whatever the reason. *)
LEMMA ParkStep ==
    ASSUME IInv, pc \in Deciding, NEW why \in ParkReason, Park(why),
           UNCHANGED <<base, branch, wt, edits, control, sessions, made,
                       starts, crashes, interventions>>,
           midRebase' \subseteq Tasks,
           verified' \in [Tasks -> Commit \cup {None}]
    PROVE  IInv'
<1> USE DEF Park, NextTask, control, LoopOf, Save
<1>1. pc \in Running /\ pc \in Integrating
  BY DEF Running, Deciding, Integrating
<1>2. /\ mem \in CoordinatorState /\ mem # None
      /\ disk \in CoordinatorState /\ disk # None
      /\ MergesIntact(mem, base) /\ MergesIntact(disk, base)
  BY <1>1, RunningFacts
<1>3. Task \in Tasks /\ Tail(todo) \in Seq(Tasks) /\ mem.st[Task] = "integrating"
  BY <1>1, TaskType DEF IInv, TypeOK, Control
<1>4. mem' \in CoordinatorState /\ SameMerges(mem, mem')
  <2>1. Without(mem.queue, Task) \in Seq(Tasks)
    BY <1>2, FieldTypes, WithoutType
  <2> QED
    BY <1>2, <1>3, <2>1, ParkUpdate
<1>5. TypeOK'
  BY <1>2, <1>3, <1>4 DEF IInv, TypeOK, Running, Commit
<1>6. Control'
  BY <1>1, <1>2, <1>3, <1>4, NoneAssumption DEF IInv, Control, Running, Integrating, Deciding
<1>7. Durable'
  BY <1>1, <1>2, <1>4, MergesStay DEF IInv, Durable, DurableMerge
<1> QED
  BY <1>5, <1>6, <1>7 DEF IInv

(* A round of the integration loop that did not merge. *)
LEMMA RequeueStep ==
    ASSUME IInv, pc \in Deciding, Requeue,
           UNCHANGED <<git, control, sessions, made, starts, crashes,
                       interventions>>,
           verified' \in [Tasks -> Commit \cup {None}]
    PROVE  IInv'
<1> USE DEF git, control, LoopOf, Save
<1>1. pc \in Running /\ pc \in Integrating
  BY DEF Running, Deciding, Integrating
<1>2. /\ mem \in CoordinatorState /\ mem # None
      /\ disk \in CoordinatorState /\ disk # None
      /\ MergesIntact(mem, base) /\ MergesIntact(disk, base)
  BY <1>1, RunningFacts
<1>3. Task \in Tasks /\ Tail(todo) \in Seq(Tasks) /\ mem.st[Task] = "integrating"
  BY <1>1, TaskType DEF IInv, TypeOK, Control
<1> DEFINE s == [mem EXCEPT !.requeue[Task] = attempts + 1]
<1>4. s \in CoordinatorState /\ SameMerges(mem, s) /\ s.st = mem.st
  <2>1. attempts + 1 \in Nat
    BY DEF IInv, TypeOK
  <2> QED
    BY <1>2, <1>3, <2>1, RequeueUpdate
<1>5. CASE attempts + 1 > MaxRequeue
  <2> DEFINE r == [s EXCEPT !.st[Task] = "parked",
                            !.reason[Task] = "MERGE_NOT_FF",
                            !.queue = Without(s.queue, Task)]
  <2>1. mem' = r /\ disk' = r /\ NextTask
    BY <1>5 DEF Requeue
  <2>2. r \in CoordinatorState /\ SameMerges(s, r)
    <3>1. Without(s.queue, Task) \in Seq(Tasks)
      BY <1>4, FieldTypes, WithoutType
    <3>2. "MERGE_NOT_FF" \in ParkReason /\ s.st[Task] # "merged"
      BY <1>3, <1>4 DEF ParkReason, IntegrationParks
    <3> HIDE DEF s
    <3> QED
      BY <1>3, <1>4, <3>1, <3>2, ParkUpdate
  <2>3. mem' \in CoordinatorState /\ disk' = mem' /\ SameMerges(mem, mem')
    BY <1>4, <2>1, <2>2 DEF SameMerges
  <2> HIDE DEF r, s
  <2>4. TypeOK'
    BY <1>3, <2>1, <2>3 DEF IInv, TypeOK, Running, NextTask, Commit
  <2>5. Control'
    BY <1>1, <2>1, <2>3, NoneAssumption DEF IInv, Control, Running, Integrating, Deciding, NextTask
  <2>6. Durable'
    BY <1>1, <1>2, <2>1, <2>3, MergesStay DEF IInv, Durable, DurableMerge, NextTask
  <2> QED
    BY <2>4, <2>5, <2>6 DEF IInv
<1>6. CASE ~ (attempts + 1 > MaxRequeue)
  <2>1. /\ mem' = s /\ disk' = s /\ attempts' = attempts + 1
        /\ pc' = "refs" /\ UNCHANGED <<todo, rebasedNow>>
        /\ taskSha' = {} /\ baseSha' = {}
    BY <1>6 DEF Requeue, Go
  <2> HIDE DEF s
  <2>2. TypeOK'
    BY <1>4, <2>1 DEF IInv, TypeOK, Running, Commit
  <2>3. Control'
    BY <1>1, <1>3, <1>4, <2>1, NoneAssumption DEF IInv, Control, Running, Integrating, Deciding, Task
  <2>4. Durable'
    BY <1>1, <1>2, <1>4, <2>1, MergesStay DEF IInv, Durable, DurableMerge
  <2> QED
    BY <2>2, <2>3, <2>4 DEF IInv
<1> QED
  BY <1>5, <1>6

(* A worktree cannot be made. *)
LEMMA PreforkFailsStep == IInv /\ PreforkFails => IInv'
<1> SUFFICES ASSUME IInv, PreforkFails PROVE IInv'
  OBVIOUS
<1> USE DEF PreforkFails, git, budget
<1>1. pc \in Running
  BY DEF Running
<1>2. disk \in CoordinatorState /\ MergesIntact(disk, base)
  BY <1>1, RunningFacts
<1>3. DurableMerge'
  BY <1>2 DEF DurableMerge, Exit, Idle
<1>4. "uncaught" \in Idle /\ Exit("uncaught")
  BY DEF Idle
<1> HIDE DEF PreforkFails
<1>5. UNCHANGED <<base, branch, wt, edits, midRebase, verified, made,
                  starts, crashes, interventions, disk>>
  BY DEF PreforkFails
<1> QED
  BY <1>2, <1>3, <1>4, <1>5, ExitStep DEF IInv, TypeOK

(* A session cannot make its worktree. *)
LEMMA SessionForkFailsStep == \A t \in Tasks : IInv /\ SessionForkFails(t) => IInv'
<1> SUFFICES ASSUME NEW t \in Tasks, IInv, SessionForkFails(t) PROVE IInv'
  OBVIOUS
<1> USE DEF SessionForkFails, git, budget
<1>1. pc \in Running
  BY DEF Running
<1>2. disk \in CoordinatorState /\ MergesIntact(disk, base)
  BY <1>1, RunningFacts
<1>3. DurableMerge'
  BY <1>2 DEF DurableMerge, Exit, Idle
<1>4. "uncaught" \in Idle /\ Exit("uncaught")
  BY DEF Idle
<1> HIDE DEF SessionForkFails
<1>5. UNCHANGED <<base, branch, wt, edits, midRebase, verified, made,
                  starts, crashes, interventions, disk>>
  BY DEF SessionForkFails
<1> QED
  BY <1>2, <1>3, <1>4, <1>5, ExitStep DEF IInv, TypeOK

(* The task branch is gone. *)
LEMMA NoBranchStep == IInv /\ NoBranch => IInv'
<1> SUFFICES ASSUME IInv, NoBranch PROVE IInv'
  OBVIOUS
<1> USE DEF NoBranch, git, At, GitError
<1>1. pc \in Running
  BY DEF Running
<1>2. disk \in CoordinatorState /\ MergesIntact(disk, base)
  BY <1>1, RunningFacts
<1>3. DurableMerge'
  BY <1>2 DEF DurableMerge, Exit, Idle
<1>4. "error" \in Idle /\ Exit("error")
  BY DEF Idle
<1> HIDE DEF NoBranch
<1>5. UNCHANGED <<base, branch, wt, edits, midRebase, verified, made,
                  starts, crashes, interventions, disk>>
  BY DEF NoBranch
<1> QED
  BY <1>2, <1>3, <1>4, <1>5, ExitStep DEF IInv, TypeOK

(* A rebase neither starts nor can be aborted. *)
LEMMA AbortFailsStep == IInv /\ AbortFails => IInv'
<1> SUFFICES ASSUME IInv, AbortFails PROVE IInv'
  OBVIOUS
<1> USE DEF AbortFails, git, At, GitError
<1>1. pc \in Running
  BY DEF Running
<1>2. disk \in CoordinatorState /\ MergesIntact(disk, base)
  BY <1>1, RunningFacts
<1>3. DurableMerge'
  BY <1>2 DEF DurableMerge, Exit, Idle
<1>4. "error" \in Idle /\ Exit("error")
  BY DEF Idle
<1> HIDE DEF AbortFails
<1>5. UNCHANGED <<base, branch, wt, edits, midRebase, verified, made,
                  starts, crashes, interventions, disk>>
  BY DEF AbortFails
<1> QED
  BY <1>2, <1>3, <1>4, <1>5, ExitStep DEF IInv, TypeOK

(* The run ends, and says whether it merged everything. *)
LEMMA FinishStep == IInv /\ Finish => IInv'
<1> SUFFICES ASSUME IInv, Finish PROVE IInv'
  OBVIOUS
<1> USE DEF Finish, git, budget
<1>1. pc \in Running
  BY DEF Running
<1>2. /\ mem \in CoordinatorState /\ mem # None
      /\ disk \in CoordinatorState /\ disk # None
      /\ MergesIntact(mem, base) /\ MergesIntact(disk, base)
  BY <1>1, RunningFacts
<1>3. disk' \in CoordinatorState /\ MergesIntact(disk', base')
  <2>1. CASE disk' = disk
    BY <1>2, <2>1
  <2>2. CASE disk' = [mem EXCEPT !.status = "all_merged"]
    <3>1. "all_merged" \in RunStatus
      BY DEF RunStatus
    <3>2. disk' \in CoordinatorState /\ SameMerges(mem, disk')
      BY <1>2, <2>2, <3>1, FinishUpdate
    <3> QED
      BY <1>2, <3>2, MergesStay
  <2> QED
    BY <2>1, <2>2
<1>4. DurableMerge'
  BY <1>3 DEF DurableMerge
<1>5. "done" \in Idle /\ Exit("done")
  BY DEF Idle
<1> HIDE DEF Finish
<1>6. UNCHANGED <<base, branch, wt, edits, midRebase, verified, made,
                  starts, crashes, interventions>>
  BY DEF Finish
<1> QED
  BY <1>3, <1>4, <1>5, <1>6, ExitStep DEF IInv, TypeOK

(* The coordinator is killed. *)
LEMMA CrashStep == IInv /\ Crash => IInv'
<1> SUFFICES ASSUME IInv, Crash PROVE IInv'
  OBVIOUS
<1> USE DEF Crash
<1>1. pc \in Running
  BY DEF Running
<1>2. /\ mem \in CoordinatorState /\ mem # None
      /\ disk \in CoordinatorState /\ disk # None
      /\ MergesIntact(mem, base) /\ MergesIntact(disk, base)
  BY <1>1, RunningFacts
<1>3. midRebase' \subseteq Tasks
  BY TaskType DEF IInv, TypeOK, Control, Integrating, Deciding
<1>4. DurableMerge'
  BY <1>2 DEF DurableMerge
<1>5. "off" \in Idle /\ Exit("off") /\ crashes' \in Nat
  BY DEF Idle, IInv, TypeOK
<1> QED
  BY <1>2, <1>3, <1>4, <1>5, ExitStep DEF IInv, TypeOK

(* A run does not go on from a state whose merges are gone. *)
LEMMA StartCorruptedStep == IInv /\ StartCorrupted => IInv'
<1> SUFFICES ASSUME IInv, StartCorrupted PROVE IInv'
  OBVIOUS
<1> USE DEF StartCorrupted, Start, git
<1>1. pc \in Idle /\ disk \in CoordinatorState /\ ~ (pc \in Running)
  BY DEF IInv, TypeOK, Idle, Running
<1>2. DurableMerge'
  BY <1>1 DEF DurableMerge, Exit, Running, IInv, Durable
<1>3. "error" \in Idle /\ Exit("error") /\ starts' \in Nat
  BY DEF Idle, IInv, TypeOK
<1> QED
  BY <1>1, <1>2, <1>3, ExitStep DEF IInv, TypeOK

(* A run that starts from a state whose merges are in the base branch. *)
LEMMA BeginStep ==
    ASSUME IInv, pc \in Idle, NEW s \in CoordinatorState, MergesIntact(s, base),
           NEW m \in {"serial", "parallel"}, Begin(s, m), starts' \in Nat,
           UNCHANGED <<made, crashes, interventions>>
    PROVE  IInv'
<1> USE DEF Begin, Save, git, local
<1>1. pc \notin Running /\ s # None
  BY NoneAssumption DEF Idle, Running
<1>2. TypeOK'
  <2>1. 1 \in 1..(Len(Plan) + 1)
    BY PlanAssumption
  <2> QED
    BY <2>1 DEF IInv, TypeOK, Running
<1>3. Control'
  BY <1>1 DEF IInv, Control, Running, Integrating, Deciding
<1>4. Durable'
  BY <1>1 DEF IInv, Durable, DurableMerge
<1> QED
  BY <1>2, <1>3, <1>4 DEF IInv

(* A run starts afresh. *)
LEMMA StartFreshStep == IInv /\ StartFresh => IInv'
<1> SUFFICES ASSUME IInv, StartFresh PROVE IInv'
  OBVIOUS
<1>1. PICK resume \in BOOLEAN, m \in Modes :
         /\ Start(resume)
         /\ Begin(FreshState, m)
  BY DEF StartFresh
<1>2. FreshState \in CoordinatorState /\ MergesIntact(FreshState, base)
  BY FreshType DEF MergesIntact
<1>3. /\ pc \in Idle /\ m \in {"serial", "parallel"} /\ starts' \in Nat
      /\ UNCHANGED <<made, crashes, interventions>>
  BY <1>1, BoundsAssumption DEF Start, IInv, TypeOK
<1> QED
  BY <1>1, <1>2, <1>3, BeginStep

(* A run goes on from a state whose merges are there. *)
LEMMA StartResumeStep == IInv /\ StartResume => IInv'
<1> SUFFICES ASSUME IInv, StartResume PROVE IInv'
  OBVIOUS
<1>1. PICK retry \in RetrySets, m \in Modes :
         /\ Start(TRUE)
         /\ disk # None
         /\ MergesIntact(disk, base)
         /\ Begin(Resumed(disk, retry), m)
  BY DEF StartResume
<1>2. /\ Resumed(disk, retry) \in CoordinatorState
      /\ MergesIntact(Resumed(disk, retry), base)
  <2>1. disk \in CoordinatorState
    BY <1>1 DEF IInv, TypeOK
  <2>2. /\ Resumed(disk, retry) \in CoordinatorState
        /\ SameMerges(disk, Resumed(disk, retry))
    BY <2>1, ResumedType
  <2> QED
    BY <1>1, <2>2, MergesStay
<1>3. /\ pc \in Idle /\ m \in {"serial", "parallel"} /\ starts' \in Nat
      /\ UNCHANGED <<made, crashes, interventions>>
  BY <1>1, BoundsAssumption DEF Start, IInv, TypeOK
<1> QED
  BY <1>1, <1>2, <1>3, BeginStep

(* The two commits are compared: the way to the fast-forward is taken only *)
(* if it is one.                                                           *)
LEMMA ReadRefsStep == IInv /\ ReadRefs => IInv'
<1> SUFFICES ASSUME IInv, ReadRefs PROVE IInv'
  OBVIOUS
<1> USE DEF ReadRefs, At, git, control, Go
<1>1. pc \in Running
  BY DEF Running
<1>2. /\ mem \in CoordinatorState /\ mem # None
      /\ disk \in CoordinatorState /\ disk # None
      /\ MergesIntact(mem, base) /\ MergesIntact(disk, base)
  BY <1>1, RunningFacts
<1>3. Task \in Tasks /\ Tail(todo) \in Seq(Tasks)
  BY TaskType DEF IInv, TypeOK, Control, Integrating, Deciding
<1>4. branch[Task] \in Commit /\ pc \in Deciding
  BY <1>3 DEF IInv, TypeOK, Deciding
<1> DEFINE to == Route(branch[Task], base)
<1>5. CASE to # "rebase"
  <2>1. /\ taskSha' = IF to = "mark" THEN base ELSE branch[Task]
        /\ baseSha' = base
        /\ pc' = to
        /\ UNCHANGED <<disk, mem, attempts, rebasedNow, control, sessions, todo>>
    BY <1>5
  <2>2. to \in {"mark", "cas"} /\ (to = "cas" => base \subseteq branch[Task])
    BY <1>5 DEF Route
  <2> HIDE DEF to
  <2>3. TypeOK'
    BY <1>4, <2>1, <2>2 DEF IInv, TypeOK, Running
  <2>4. Control'
    BY <1>1, <1>3, <2>1, <2>2 DEF IInv, Control, Running, Integrating, Deciding, Task
  <2>5. Durable'
    BY <1>2, <2>1, <2>2 DEF IInv, Durable, DurableMerge, Running
  <2> QED
    BY <2>3, <2>4, <2>5 DEF IInv
<1>6. CASE to = "rebase" /\ attempts >= MaxRequeue
  <2>1. Park("MERGE_NOT_FF") /\ UNCHANGED <<control, sessions>>
    BY <1>6
  <2>2. "MERGE_NOT_FF" \in ParkReason
    BY DEF ParkReason, IntegrationParks
  <2> QED
    BY <1>4, <2>1, <2>2, ParkStep DEF IInv, TypeOK
<1>7. CASE to = "rebase" /\ ~ (attempts >= MaxRequeue) /\ Task \notin wt
  <2>1. Exit("error") /\ "error" \in Idle /\ UNCHANGED disk
    BY <1>7 DEF GitError, Idle
  <2>2. DurableMerge'
    BY <1>2, <2>1 DEF DurableMerge
  <2> QED
    BY <1>2, <2>1, <2>2, ExitStep DEF IInv, TypeOK
<1>8. CASE to = "rebase" /\ ~ (attempts >= MaxRequeue) /\ Task \in wt
  <2>1. pc' = "rebase" /\ UNCHANGED <<todo, disk, mem, local, control, sessions>>
    BY <1>8
  <2> HIDE DEF to
  <2> USE DEF local
  <2>2. TypeOK'
    BY <2>1 DEF IInv, TypeOK, Running
  <2>3. Control'
    BY <1>1, <1>8, <2>1 DEF IInv, Control, Running, Integrating, Deciding, Task
  <2>4. Durable'
    BY <1>2, <2>1 DEF IInv, Durable, DurableMerge, Running
  <2> QED
    BY <2>2, <2>3, <2>4 DEF IInv
<1> QED
  BY <1>5, <1>6, <1>7, <1>8

(* The base branch is fast-forwarded. *)
LEMMA CompareAndSwapStep == IInv /\ CompareAndSwap => IInv'
<1> SUFFICES ASSUME IInv, CompareAndSwap PROVE IInv'
  OBVIOUS
<1> USE DEF CompareAndSwap, At, Go, control, local
<1>1. pc \in Running
  BY DEF Running
<1>2. /\ mem \in CoordinatorState /\ mem # None
      /\ disk \in CoordinatorState /\ disk # None
      /\ MergesIntact(mem, base) /\ MergesIntact(disk, base)
  BY <1>1, RunningFacts
<1>3. baseSha \subseteq taskSha /\ base \subseteq base'
  BY DEF IInv, Durable
<1>4. TypeOK'
  BY DEF IInv, TypeOK, Running
<1>5. Control'
  BY <1>1 DEF IInv, Control, Running, Integrating, Deciding, Task
<1>6. Durable'
  BY <1>2, <1>3, MergesStay DEF IInv, Durable, DurableMerge, MergesIntact
<1> QED
  BY <1>4, <1>5, <1>6 DEF IInv

(* The base branch has moved meanwhile. *)
LEMMA LoseRaceStep == IInv /\ LoseRace => IInv'
<1> SUFFICES ASSUME IInv, LoseRace PROVE IInv'
  OBVIOUS
<1> USE DEF LoseRace, At, git, control
<1>1. pc \in Deciding /\ verified' \in [Tasks -> Commit \cup {None}]
  BY DEF Deciding, IInv, TypeOK
<1> QED
  BY <1>1, RequeueStep

(* The task branch is rebased. *)
LEMMA RebaseStep == IInv /\ Rebase => IInv'
<1> SUFFICES ASSUME IInv, Rebase PROVE IInv'
  OBVIOUS
<1> USE DEF Rebase, AtRebase, At, Go, control
<1>1. pc \in Running
  BY DEF Running
<1>2. /\ mem \in CoordinatorState /\ mem # None
      /\ disk \in CoordinatorState /\ disk # None
      /\ MergesIntact(mem, base) /\ MergesIntact(disk, base)
  BY <1>1, RunningFacts
<1>3. Task \in Tasks /\ Tail(todo) \in Seq(Tasks)
  BY TaskType DEF IInv, TypeOK, Control, Integrating, Deciding
<1>4. Task \in wt /\ branch[Task] \cup base \in Commit
  BY <1>3 DEF IInv, TypeOK, Control, Commit
<1>5. TypeOK'
  BY <1>3, <1>4 DEF IInv, TypeOK, Running
<1>6. Control'
  BY <1>1, <1>3, <1>4, NoneAssumption DEF IInv, TypeOK, Control, Running, Integrating, Deciding, Task
<1>7. Durable'
  BY <1>2 DEF IInv, Durable, DurableMerge
<1> QED
  BY <1>5, <1>6, <1>7 DEF IInv

(* The rebase meets a conflict. *)
LEMMA RebaseConflictsStep == IInv /\ RebaseConflicts => IInv'
<1> SUFFICES ASSUME IInv, RebaseConflicts PROVE IInv'
  OBVIOUS
<1> USE DEF RebaseConflicts, AtRebase, At, git, control
<1>1. pc \in Deciding /\ "REBASE_CONFLICT" \in ParkReason
  BY DEF Deciding, ParkReason, IntegrationParks
<1>2. Task \in Tasks
  BY TaskType DEF IInv, TypeOK, Control, Integrating, Deciding
<1>3. /\ verified' \in [Tasks -> Commit \cup {None}]
      /\ midRebase' \subseteq Tasks
  BY <1>2 DEF IInv, TypeOK
<1> QED
  BY <1>1, <1>3, ParkStep

(* The rebase does not start over another one. *)
LEMMA RebaseRefusedStep == IInv /\ RebaseRefused => IInv'
<1> SUFFICES ASSUME IInv, RebaseRefused PROVE IInv'
  OBVIOUS
<1> USE DEF RebaseRefused, AtRebase, At, git, control
<1>1. pc \in Deciding /\ "REBASE_CONFLICT" \in ParkReason
  BY DEF Deciding, ParkReason, IntegrationParks
<1>2. Task \in Tasks
  BY TaskType DEF IInv, TypeOK, Control, Integrating, Deciding
<1>3. /\ verified' \in [Tasks -> Commit \cup {None}]
      /\ midRebase' \subseteq Tasks
  BY <1>2 DEF IInv, TypeOK
<1> QED
  BY <1>1, <1>3, ParkStep

(* The verify command fails after a rebase. *)
LEMMA ReverifyFailsStep == IInv /\ ReverifyFails => IInv'
<1> SUFFICES ASSUME IInv, ReverifyFails PROVE IInv'
  OBVIOUS
<1> USE DEF ReverifyFails, AtVerify, At, git, control
<1>1. pc \in Deciding /\ "REVERIFY_FAILED" \in ParkReason
  BY DEF Deciding, ParkReason, IntegrationParks
<1>2. Task \in Tasks
  BY TaskType DEF IInv, TypeOK, Control, Integrating, Deciding
<1>3. /\ verified' \in [Tasks -> Commit \cup {None}]
      /\ midRebase' \subseteq Tasks
  BY <1>2 DEF IInv, TypeOK
<1> QED
  BY <1>1, <1>3, ParkStep

(* The verify command passes after a rebase. *)
LEMMA ReverifyPassesStep == IInv /\ ReverifyPasses => IInv'
<1> SUFFICES ASSUME IInv, ReverifyPasses PROVE IInv'
  OBVIOUS
<1> USE DEF ReverifyPasses, AtVerify, At, git, control
<1>1. pc \in Deciding
  BY DEF Deciding
<1>2. Task \in Tasks
  BY TaskType DEF IInv, TypeOK, Control, Integrating, Deciding
<1>3. branch[Task] \cup edits[Task] \in Commit
  BY <1>2 DEF IInv, TypeOK, Control, Commit
<1>4. verified' \in [Tasks -> Commit \cup {None}]
  BY <1>2, <1>3 DEF IInv, TypeOK
<1> QED
  BY <1>1, <1>4, RequeueStep

(* The task is recorded as merged, at a commit of the base branch. *)
LEMMA MarkMergedStep == IInv /\ MarkMerged => IInv'
<1> SUFFICES ASSUME IInv, MarkMerged PROVE IInv'
  OBVIOUS
<1> USE DEF MarkMerged, At, git, control, local, Go, Save
<1>1. pc \in Running
  BY DEF Running
<1>2. /\ mem \in CoordinatorState /\ mem # None
      /\ disk \in CoordinatorState /\ disk # None
      /\ MergesIntact(mem, base) /\ MergesIntact(disk, base)
  BY <1>1, RunningFacts
<1>3. Task \in Tasks /\ Tail(todo) \in Seq(Tasks)
  BY TaskType DEF IInv, TypeOK, Control, Integrating, Deciding
<1>4. taskSha \in Commit /\ taskSha \subseteq base /\ mem.st[Task] = "integrating"
  BY DEF IInv, TypeOK, Durable, Control, Deciding
<1>5. mem' \in CoordinatorState
  <2>1. Without(mem.queue, Task) \in Seq(Tasks)
    BY <1>2, FieldTypes, WithoutType
  <2> QED
    BY <1>2, <1>3, <1>4, <2>1, MergeUpdate
<1>6. MergesIntact(mem', base')
  BY <1>2, <1>3, <1>4, NoneAssumption DEF MergesIntact, CoordinatorState, Record
<1>7. TypeOK'
  BY <1>5 DEF IInv, TypeOK, Running
<1>8. Control'
  BY <1>1, <1>5, NoneAssumption DEF IInv, Control, Running, Integrating, Deciding, Task
<1>9. Durable'
  BY <1>6 DEF IInv, Durable, DurableMerge
<1> QED
  BY <1>7, <1>8, <1>9 DEF IInv

(* The worktree of a merged task is removed. *)
LEMMA CleanWorktreeStep == IInv /\ CleanWorktree => IInv'
<1> SUFFICES ASSUME IInv, CleanWorktree PROVE IInv'
  OBVIOUS
<1> USE DEF CleanWorktree, At, control, local, Go
<1>1. pc \in Running
  BY DEF Running
<1>2. /\ mem \in CoordinatorState /\ mem # None
      /\ disk \in CoordinatorState /\ disk # None
      /\ MergesIntact(mem, base) /\ MergesIntact(disk, base)
  BY <1>1, RunningFacts
<1>3. Task \in Tasks /\ Tail(todo) \in Seq(Tasks)
  BY TaskType DEF IInv, TypeOK, Control, Integrating, Deciding
<1>4. TypeOK'
  BY <1>3 DEF IInv, TypeOK, Running, Commit
<1>5. Control'
  BY <1>1 DEF IInv, Control, Running, Integrating, Deciding, Task
<1>6. Durable'
  BY <1>2 DEF IInv, Durable, DurableMerge
<1> QED
  BY <1>4, <1>5, <1>6 DEF IInv

(* The branch of a merged task is removed. *)
LEMMA CleanBranchStep == IInv /\ CleanBranch => IInv'
<1> SUFFICES ASSUME IInv, CleanBranch PROVE IInv'
  OBVIOUS
<1> USE DEF CleanBranch, At, control, Save, NextTask, LoopOf
<1>1. pc \in Running
  BY DEF Running
<1>2. /\ mem \in CoordinatorState /\ mem # None
      /\ disk \in CoordinatorState /\ disk # None
      /\ MergesIntact(mem, base) /\ MergesIntact(disk, base)
  BY <1>1, RunningFacts
<1>3. Task \in Tasks /\ Tail(todo) \in Seq(Tasks)
  BY TaskType DEF IInv, TypeOK, Control, Integrating, Deciding
<1>4. TypeOK'
  BY <1>2, <1>3 DEF IInv, TypeOK, Running, Commit
<1>5. Control'
  BY <1>1, <1>2 DEF IInv, TypeOK, Control, Running, Integrating, Deciding
<1>6. Durable'
  BY <1>2 DEF IInv, Durable, DurableMerge
<1> QED
  BY <1>4, <1>5, <1>6 DEF IInv

(* Somebody commits to the base branch. *)
LEMMA ExternalCommitStep == IInv /\ ExternalCommit => IInv'
<1> SUFFICES ASSUME IInv, ExternalCommit PROVE IInv'
  OBVIOUS
<1> USE DEF ExternalCommit, control, local
<1>1. made[Ext] \in Nat /\ <<Ext, made[Ext] + 1>> \in Change
  BY BoundsAssumption DEF IInv, TypeOK, Change
<1>2. base' \in Commit /\ made' \in [Tasks \cup {Ext} -> Nat]
  <2>1. base' \in Commit
    BY <1>1 DEF IInv, TypeOK, Commit
  <2>2. made' \in [Tasks \cup {Ext} -> Nat]
    BY <1>1 DEF IInv, TypeOK
  <2> QED
    BY <2>1, <2>2
<1>3. TypeOK'
  BY <1>2 DEF IInv, TypeOK
<1>4. Control'
  BY DEF IInv, Control, Task
<1>5. Durable'
  BY DEF IInv, Durable, DurableMerge, MergesIntact
<1> QED
  BY <1>3, <1>4, <1>5 DEF IInv

(* A user drops a commit from the base branch between two runs. *)
LEMMA RewriteBaseStep == IInv /\ RewriteBase => IInv'
<1> SUFFICES ASSUME IInv, RewriteBase PROVE IInv'
  OBVIOUS
<1> USE DEF RewriteBase, control, local
<1>1. mem = None /\ pc \notin Running /\ pc \notin {"cas", "mark"}
  BY DEF IInv, Control, Idle, Running
<1>2. TypeOK'
  BY DEF IInv, TypeOK, Commit
<1>3. Control'
  BY DEF IInv, Control, Task
<1>4. Durable'
  BY <1>1 DEF IInv, TypeOK, Durable, DurableMerge
<1> QED
  BY <1>2, <1>3, <1>4 DEF IInv

(* A user removes a worktree between two runs. *)
LEMMA RemoveWorktreeStep == \A t \in Tasks : IInv /\ RemoveWorktree(t) => IInv'
<1> SUFFICES ASSUME NEW t \in Tasks, IInv, RemoveWorktree(t) PROVE IInv'
  OBVIOUS
<1> USE DEF RemoveWorktree, control, local
<1>1. mem = None /\ pc \notin Running /\ pc \notin {"cas", "mark", "rebase", "verify"}
  BY DEF IInv, Control, Idle, Running
<1>2. TypeOK'
  <2>1. branch' \in [Tasks -> Commit \cup {None}]
    BY DEF IInv, TypeOK
  <2>2. edits' \in [Tasks -> Commit]
    BY DEF IInv, TypeOK, Commit
  <2> QED
    BY <2>1, <2>2 DEF IInv, TypeOK
<1>3. Control'
  BY <1>1 DEF IInv, TypeOK, Control, Task
<1>4. Durable'
  BY <1>1 DEF IInv, TypeOK, Durable, DurableMerge
<1> QED
  BY <1>2, <1>3, <1>4 DEF IInv

(* Nothing happens. *)
LEMMA StutterStep == IInv /\ UNCHANGED vars => IInv'
<1> SUFFICES ASSUME IInv, UNCHANGED vars PROVE IInv'
  OBVIOUS
<1> USE DEF vars
<1>1. TypeOK'
  BY DEF IInv, TypeOK
<1>2. Control'
  BY DEF IInv, Control, Task
<1>3. Durable'
  BY DEF IInv, Durable, DurableMerge, MergesIntact
<1> QED
  BY <1>1, <1>2, <1>3 DEF IInv

-----------------------------------------------------------------------------
(* The steps of the loops over phases and tasks. *)
LEMMA LoopStep == IInv /\ Loop => IInv'
BY SkipMergedPhaseStep, SkipAfterStopStep, BeginPhaseStep, FinishStep,
   PreforkStep, PreforkFailsStep, PreforkedStep, EndPhaseStep, PassOverStep,
   SkipPendingStep, DispatchStep, SessionsOverStep, StartIntegrateStep DEF Loop

(* The steps of _integrate. *)
LEMMA IntegrateStep == IInv /\ Integrate => IInv'
BY ReadRefsStep, NoBranchStep, CompareAndSwapStep, LoseRaceStep, RebaseStep,
   RebaseConflictsStep, RebaseRefusedStep, AbortFailsStep, ReverifyPassesStep,
   ReverifyFailsStep, MarkMergedStep, CleanWorktreeStep, CleanBranchStep DEF
   Integrate

(* The steps of a session. *)
LEMMA SessionStep == \A t \in Tasks : IInv /\ Session(t) => IInv'
BY SessionEditStep, SessionCommitStep, SessionForksStep, SessionForkFailsStep,
   SessionSucceedsStep, SessionFailsStep DEF Session, EndOfSession

(* Every step preserves the invariant. *)
LEMMA NextStep == IInv /\ [Next]_vars => IInv'
BY LoopStep, IntegrateStep, SessionStep, StutterStep, StartFreshStep,
   StartResumeStep, StartCorruptedStep, CrashStep, ExternalCommitStep,
   RewriteBaseStep, RemoveWorktreeStep DEF Next

(* The invariant holds in every reachable state. *)
LEMMA Invariance == Spec => []IInv
<1>1. Init => IInv
  BY InitIInv
<1>2. IInv /\ [Next]_vars => IInv'
  BY NextStep
<1> QED
  BY <1>1, <1>2, PTL DEF Spec

(* The coordinator's variables, the state file among them, keep their      *)
(* types: in particular a task has a park reason exactly while it is       *)
(* parked, and a merge commit exactly once it is merged.                   *)
THEOREM TypeCorrectness == Spec => []TypeOK
<1>1. IInv => TypeOK
  BY DEF IInv
<1> QED
  BY <1>1, Invariance, PTL

(* Whatever crashes, races with other committers or retries happen, a task *)
(* that the state file calls merged is in the base branch at the recorded  *)
(* commit, unless somebody rewrites that branch, and then no run goes on   *)
(* from that state.                                                        *)
THEOREM MergesAreDurable == Spec => []DurableMerge
<1>1. IInv => DurableMerge
  BY DEF IInv, Durable
<1> QED
  BY <1>1, Invariance, PTL

BaseAdvanced == interventions' = interventions => base \subseteq base'

(* Only a user who rewrites the base branch takes a commit off it.         *)
LEMMA BaseGrows == IInv /\ [Next]_vars => BaseAdvanced
<1> USE DEF BaseAdvanced
<1> SUFFICES ASSUME IInv, [Next]_vars PROVE BaseAdvanced
  OBVIOUS
<1>1. CASE UNCHANGED vars
  BY <1>1 DEF vars
<1>2. CASE CompareAndSwap
  BY <1>2 DEF CompareAndSwap, At, IInv, Durable
<1>3. CASE ExternalCommit
  BY <1>3 DEF ExternalCommit
<1>4. CASE RewriteBase
  BY <1>4 DEF RewriteBase, IInv, TypeOK
<1>5. CASE Loop
  BY <1>5 DEF Loop, SkipMergedPhase, SkipAfterStop, BeginPhase, Finish, AtPhase,
       Prefork, Fork, PreforkFails, Preforked, EndPhase, Visit, PassOver,
       SkipPending, Dispatch, SessionsOver, StartIntegrate, git
<1>6. CASE Integrate /\ ~ CompareAndSwap
  BY <1>6 DEF Integrate, ReadRefs, NoBranch, LoseRace, Rebase, RebaseConflicts,
       RebaseRefused, AbortFails, ReverifyPasses, ReverifyFails, MarkMerged,
       CleanWorktree, CleanBranch, AtRebase, AtVerify, git
<1>7. ASSUME NEW t \in Tasks, Session(t) PROVE BaseAdvanced
  BY <1>7 DEF Session, EndOfSession, SessionEdit, SessionCommit, SessionForks,
       SessionForkFails, SessionSucceeds, SessionFails, SessionOver, InSession,
       Fork, git
<1>8. CASE StartFresh \/ StartResume \/ StartCorrupted \/ Crash
  BY <1>8 DEF StartFresh, StartResume, StartCorrupted, Begin, Crash, git
<1>9. ASSUME NEW t \in Tasks, RemoveWorktree(t) PROVE BaseAdvanced
  BY <1>9 DEF RemoveWorktree
<1> QED
  BY <1>1, <1>2, <1>3, <1>4, <1>5, <1>6, <1>7, <1>8, <1>9 DEF Next

(* The coordinator never takes a commit off the base branch: every update  *)
(* of _integrate is a fast-forward of the commit that is there.            *)
THEOREM BaseAdvances == Spec => BaseOnlyAdvances
<1>1. [][BaseAdvanced]_vars => BaseOnlyAdvances
  BY PTL DEF BaseOnlyAdvances, BaseAdvanced
<1> QED
  BY <1>1, BaseGrows, Invariance, PTL DEF Spec

-----------------------------------------------------------------------------
(* The order of a run: phases, the loops over their tasks, and the queue.  *)

Settled == {"merged", "parked", "skipped"}

Unfinished == {"awaiting_merge", "integrating"}

InLoop == {"serial", "sessions", "queue"} \cup Integrating

(* Whatever a run is at belongs to the phase it is in. *)
OnlyThePhase ==
    /\ pc = "serial" => mode = "serial"
    /\ pc = "queue" => mode = "parallel"
    /\ pc = "prefork" => Elements(todo) \subseteq InPhase(phase)
    /\ pc \in InLoop /\ mode = "serial" => Elements(todo) \subseteq InPhase(phase)
    /\ pc \in Integrating => Task \in InPhase(phase)
    /\ pc = "sessions" => sessions \subseteq InPhase(phase)
    /\ pc = "sessions" /\ mode = "serial" => todo # <<>> /\ sessions = {Task}

(* The state file lags behind the process, but not in its merges. *)
Synced ==
    /\ mem # None => SameMerges(disk, mem) /\ disk.status = mem.status
    /\ pc = "sessions" => disk = mem

(* A run that is stopped only skips what is left of its phases. *)
Going ==
    /\ mem # None => mem.status # "all_merged"
    /\ pc \in Running \ {"phase"} => ~ Stopped
    /\ pc \in {"clean_worktree", "clean_branch"} => mem.st[Task] = "merged"

NoneParkedBefore ==
    mem # None /\ ~ Stopped => \A p \in 1..(phase - 1) : ~ AnyParked(mem, p)

SkipsExplained ==
    mem # None /\ ~ Stopped => \A t \in Tasks : mem.st[t] = "skipped" =>
        pc # "phase" /\ t \in InPhase(phase) /\ AnyParked(mem, phase)

(* What the loops over the tasks of a phase have left behind them. *)
LoopDone ==
    /\ mode = "serial" /\ pc \in InLoop =>
        \A t \in InPhase(phase) : t \in Elements(todo) \/ mem.st[t] \in Settled
    /\ mode = "parallel" /\ pc = "sessions" =>
        \A t \in InPhase(phase) :
            mem.st[t] # "pending" /\ (mem.st[t] = "executing" => t \in sessions)
    /\ mode = "parallel" /\ pc \in {"queue"} \cup Integrating =>
        \A t \in InPhase(phase) : mem.st[t] \in Settled \cup Unfinished

(* A task to be integrated is in the queue, unless a run takes it up again *)
(* with --retry-parked: that does not put it back.                         *)
Queued(s) == \A t \in Tasks : s.st[t] \in Unfinished => t \in Elements(s.queue)

Queues ==
    /\ Modes \subseteq {"serial"} => mode = "serial"
    /\ RetrySets \subseteq {{}} =>
        /\ mem # None => Queued(mem)
        /\ disk # None => Queued(disk)
        /\ mode = "parallel" /\ pc \in {"queue"} \cup Integrating =>
            \A t \in InPhase(phase) :
                mem.st[t] \in Unfinished => t \in Elements(todo)

(* Only the parallel mode reads the queue, so that each of these is enough.*)
QueueIsRight == Modes \subseteq {"serial"} \/ RetrySets \subseteq {{}}

Landed ==
    QueueIsRight /\ mem # None /\ ~ Stopped =>
        \A p \in 1..(phase - 1) : AllMerged(mem, p)

OInv ==
    /\ OnlyThePhase /\ Synced /\ Going
    /\ NoneParkedBefore /\ SkipsExplained
    /\ LoopDone /\ Queues /\ Landed

-----------------------------------------------------------------------------
(* More about the helpers.                                                 *)

(* A sequence holds its head and what its tail holds. *)
LEMMA TailElements ==
    ASSUME NEW s \in Seq(Tasks), s # <<>>
    PROVE  Elements(s) = {Head(s)} \cup Elements(Tail(s))
<1>1. /\ Len(s) \in Nat /\ Len(s) > 0 /\ Head(s) = s[1]
      /\ Tail(s) \in Seq(Tasks) /\ Len(Tail(s)) = Len(s) - 1
      /\ \A i \in 1..(Len(s) - 1) : Tail(s)[i] = s[i + 1]
  BY HeadTailProperties, EmptySeq, LenProperties
<1>2. ASSUME NEW x \in Elements(s) PROVE x \in {Head(s)} \cup Elements(Tail(s))
  <2>1. PICK i \in 1..Len(s) : s[i] = x
    BY <1>2 DEF Elements
  <2>2. CASE i = 1
    BY <1>1, <2>1, <2>2
  <2>3. CASE i # 1
    <3>1. i - 1 \in 1..(Len(s) - 1) /\ Tail(s)[i - 1] = s[(i - 1) + 1] /\ (i - 1) + 1 = i
      BY <1>1, <2>3
    <3> QED
      BY <1>1, <2>1, <3>1 DEF Elements
  <2> QED
    BY <2>2, <2>3
<1>3. ASSUME NEW x \in {Head(s)} \cup Elements(Tail(s)) PROVE x \in Elements(s)
  <2>1. CASE x = Head(s)
    BY <1>1, <2>1 DEF Elements
  <2>2. CASE x \in Elements(Tail(s))
    <3>1. PICK i \in 1..(Len(s) - 1) : Tail(s)[i] = x
      BY <1>1, <2>2 DEF Elements
    <3> QED
      BY <1>1, <3>1 DEF Elements
  <2> QED
    BY <1>3, <2>1, <2>2
<1> QED
  BY <1>2, <1>3

(* The queue with one more task at its end. *)
LEMMA AppendElements ==
    ASSUME NEW s \in Seq(Tasks), NEW t \in Tasks
    PROVE  Elements(Append(s, t)) = Elements(s) \cup {t}
<1>1. /\ Len(s) \in Nat /\ Len(Append(s, t)) = Len(s) + 1
      /\ Append(s, t)[Len(s) + 1] = t
      /\ \A i \in 1..Len(s) : Append(s, t)[i] = s[i]
  BY AppendProperties, LenProperties
<1> QED
  BY <1>1 DEF Elements

(* Removing a task removes no other. *)
LEMMA WithoutElements ==
    ASSUME NEW s \in Seq(Tasks), NEW t, NEW u \in Elements(s), u # t
    PROVE  u \in Elements(Without(s, t))
<1>1. CASE t \notin Elements(s)
  BY <1>1 DEF Without
<1>2. CASE t \in Elements(s)
  <2> DEFINE k == CHOOSE i \in 1..Len(s) : s[i] = t
             a == SubSeq(s, 1, k - 1)
             b == SubSeq(s, k + 1, Len(s))
  <2>1. k \in 1..Len(s) /\ s[k] = t /\ Len(s) \in Nat
    BY <1>2, LenProperties DEF Elements
  <2>2. Without(s, t) = a \o b
    BY <1>2 DEF Without
  <2> HIDE DEF k
  <2>3. /\ a \in Seq(Tasks) /\ Len(a) = k - 1
        /\ \A i \in 1..(k - 1) : a[i] = s[i]
    <3>1. /\ 1 \in Int /\ k - 1 \in Int
          /\ \A i \in 1..(k - 1) : s[i] \in Tasks
      BY <2>1
    <3>2. /\ SubSeq(s, 1, k - 1) \in Seq(Tasks)
          /\ Len(SubSeq(s, 1, k - 1)) = IF 1 <= k - 1 THEN (k - 1) - 1 + 1 ELSE 0
          /\ \A i \in 1..((k - 1) - 1 + 1) : SubSeq(s, 1, k - 1)[i] = s[1 + i - 1]
      BY <3>1, SubSeqProperties
    <3> QED
      BY <2>1, <3>2
  <2>4. /\ b \in Seq(Tasks) /\ Len(b) = Len(s) - k
        /\ \A i \in 1..(Len(s) - k) : b[i] = s[i + k]
    <3>1. /\ k + 1 \in Int /\ Len(s) \in Int
          /\ \A i \in (k + 1)..Len(s) : s[i] \in Tasks
      BY <2>1
    <3>2. /\ SubSeq(s, k + 1, Len(s)) \in Seq(Tasks)
          /\ Len(SubSeq(s, k + 1, Len(s))) =
                IF k + 1 <= Len(s) THEN Len(s) - (k + 1) + 1 ELSE 0
          /\ \A i \in 1..(Len(s) - (k + 1) + 1) :
                SubSeq(s, k + 1, Len(s))[i] = s[(k + 1) + i - 1]
      BY <3>1, SubSeqProperties
    <3> QED
      BY <2>1, <3>2
  <2> HIDE DEF a, b
  <2>5. /\ Len(a \o b) = Len(a) + Len(b)
        /\ \A i \in 1..(Len(a) + Len(b)) :
              (a \o b)[i] = IF i <= Len(a) THEN a[i] ELSE b[i - Len(a)]
    BY <2>3, <2>4, ConcatProperties
  <2>6. PICK j \in 1..Len(s) : s[j] = u
    BY DEF Elements
  <2>7. CASE j < k
    <3>1. j \in 1..(k - 1) /\ j \in 1..(Len(a) + Len(b)) /\ j <= Len(a) /\ a[j] = u
      BY <2>1, <2>3, <2>4, <2>6, <2>7
    <3>2. (a \o b)[j] = u
      BY <2>5, <3>1
    <3> QED
      BY <2>2, <2>5, <3>1, <3>2 DEF Elements
  <2>8. CASE j > k
    <3>1. j - 1 \in 1..(Len(a) + Len(b)) /\ ~ (j - 1 <= Len(a)) /\ (j - 1) - Len(a) = j - k
      BY <2>1, <2>3, <2>4, <2>8
    <3>2. j - k \in 1..(Len(s) - k) /\ (j - k) + k = j
      BY <2>1, <2>8
    <3>3. (a \o b)[j - 1] = u
      BY <2>4, <2>5, <2>6, <3>1, <3>2
    <3> QED
      BY <2>2, <2>5, <3>1, <3>3 DEF Elements
  <2> QED
    BY <2>1, <2>6, <2>7, <2>8
<1> QED
  BY <1>1, <1>2

(* The empty list of tasks. *)
LEMMA EmptyElements == Elements(<<>>) = {}
BY DEF Elements

(* The phases of a plan are sets of tasks of their own. *)
LEMMA PhaseFacts ==
    /\ \A p \in Phases : p \in Nat /\ InPhase(p) \subseteq Tasks /\ Elements(Plan[p]) = InPhase(p)
    /\ \A p, q \in Phases : p # q => InPhase(p) \cap InPhase(q) = {}
    /\ \A p \in 1..(Len(Plan) + 1) : p \in Nat /\ (p \in Phases <=> p # Len(Plan) + 1)
    /\ \A p \in 1..(Len(Plan) + 1) : \A q \in 1..(p - 1) : q \in Phases /\ q # p
<1>1. Len(Plan) \in Nat
  BY PlanAssumption
<1>2. \A p \in Phases : p \in Nat /\ Elements(Plan[p]) = InPhase(p)
  BY <1>1 DEF Phases, InPhase, Elements
<1>3. \A p \in Phases : InPhase(p) \subseteq Tasks
  BY PlanAssumption
<1>4. \A p, q \in Phases : p # q => InPhase(p) \cap InPhase(q) = {}
  BY PlanAssumption
<1>5. \A p \in 1..(Len(Plan) + 1) : p \in Nat /\ (p \in Phases <=> p # Len(Plan) + 1)
  BY <1>1 DEF Phases
<1>6. \A p \in 1..(Len(Plan) + 1) : \A q \in 1..(p - 1) : q \in Phases /\ q # p
  BY <1>1 DEF Phases
<1> QED
  BY <1>2, <1>3, <1>4, <1>5, <1>6

-----------------------------------------------------------------------------
(* The order is kept by the steps that have much in common.                *)

(* The order holds before the first run. *)
LEMMA InitOrder == Init => OInv
<1> SUFFICES ASSUME Init PROVE OInv
  OBVIOUS
<1>1. OnlyThePhase /\ Synced /\ Going /\ NoneParkedBefore /\ SkipsExplained
      /\ LoopDone /\ Landed
  BY DEF Init, OnlyThePhase, Synced, Going, NoneParkedBefore, SkipsExplained,
     LoopDone, Landed, InLoop, Integrating, Deciding, Running
<1>2. Queues
  BY DEF Init, Queues, Integrating, Deciding
<1> QED
  BY <1>1, <1>2 DEF OInv

(* A step that changes only git, or where _integrate is with its task. *)
LEMMA QuietOrder ==
    ASSUME OInv, UNCHANGED <<disk, mem, mode, phase, todo, sessions>>,
           \/ pc' = pc
           \/ pc \in Deciding /\ pc' \in Deciding
           \/ pc = "clean_worktree" /\ pc' = "clean_branch"
    PROVE  OInv'
<1> USE DEF OInv
<1>1. Task' = Task
  BY DEF Task
<1>2. /\ pc' \in Integrating <=> pc \in Integrating
      /\ pc' \in InLoop <=> pc \in InLoop
      /\ pc' \in {"queue"} \cup Integrating <=> pc \in {"queue"} \cup Integrating
      /\ pc' \in {"clean_worktree", "clean_branch"} <=> pc \in {"clean_worktree", "clean_branch"}
      /\ pc' \in Running \ {"phase"} <=> pc \in Running \ {"phase"}
      /\ \A x \in {"serial", "queue", "prefork", "sessions", "phase"} : pc' = x <=> pc = x
  BY DEF Integrating, InLoop, Deciding, Running
<1>3. OnlyThePhase'
  BY <1>1, <1>2 DEF OnlyThePhase
<1>4. Synced' /\ Going'
  BY <1>1, <1>2 DEF Synced, Going, Stopped
<1>5. NoneParkedBefore' /\ SkipsExplained' /\ Landed'
  BY <1>2 DEF NoneParkedBefore, SkipsExplained, Landed, Stopped
<1>6. LoopDone'
  BY <1>2 DEF LoopDone
<1>7. Queues'
  BY <1>2 DEF Queues
<1> QED
  BY <1>3, <1>4, <1>5, <1>6, <1>7

(* A run that ends, or is killed, leaves a state file whose queue is right.*)
LEMMA ExitOrder ==
    ASSUME OInv, NEW where \in Idle, Exit(where),
           RetrySets \subseteq {{}} /\ disk' # None => Queued(disk')
    PROVE  OInv'
<1> USE DEF Exit
<1>1. /\ mem' = None /\ mode' = "serial" /\ pc' \in Idle
      /\ pc' \notin Running /\ pc' \notin InLoop /\ pc' \notin Integrating
  BY DEF Idle, Running, InLoop, Integrating, Deciding
<1>2. OnlyThePhase'
  BY <1>1 DEF OnlyThePhase, Running, Idle, InLoop, Integrating
<1>3. Synced' /\ Going'
  BY <1>1 DEF Synced, Going, Idle, Running
<1>4. NoneParkedBefore' /\ SkipsExplained' /\ Landed'
  BY <1>1 DEF NoneParkedBefore, SkipsExplained, Landed
<1>5. LoopDone' /\ Queues'
  BY <1>1 DEF LoopDone, Queues, Idle, InLoop
<1> QED
  BY <1>2, <1>3, <1>4, <1>5 DEF OInv

(* A step of a phase does nothing to the phases before. *)
LEMMA PhaseOrder ==
    ASSUME IInv, IInv', OInv, pc \in Running \ {"phase"}, UNCHANGED phase,
           \A t \in Tasks \ InPhase(phase) : mem'.st[t] = mem.st[t],
           mem'.status = mem.status
    PROVE  NoneParkedBefore' /\ Landed'
<1>1. mem # None /\ phase \in Phases /\ phase \in 1..(Len(Plan) + 1) /\ ~ Stopped
  BY PhaseFacts DEF IInv, Control, OInv, Going, TypeOK
<1>2. \A p \in 1..(phase - 1) : \A t \in InPhase(p) : mem'.st[t] = mem.st[t]
  BY <1>1, PhaseFacts
<1>3. NoneParkedBefore'
  BY <1>1, <1>2 DEF OInv, NoneParkedBefore, AnyParked, Stopped
<1>4. Landed'
  BY <1>1, <1>2 DEF OInv, Landed, AllMerged, Stopped
<1> QED
  BY <1>3, <1>4

(* The task that was being integrated is merged or parked, and the loop    *)
(* goes on with the next one.                                              *)
LEMMA NextTaskOrder ==
    ASSUME IInv, IInv', OInv, pc \in Integrating, NextTask,
           UNCHANGED <<mode, phase, sessions>>, disk' = mem',
           mem'.status = mem.status,
           mem'.st[Task] \in {"merged", "parked"},
           \A t \in Tasks \ {Task} :
              /\ mem'.st[t] = mem.st[t]
              /\ t \in Elements(mem.queue) => t \in Elements(mem'.queue)
    PROVE  OInv'
<1>1. /\ pc \in Running \ {"phase"} /\ mem # None /\ phase \in Phases /\ ~ Stopped
      /\ Task \in InPhase(phase) /\ Task \in Tasks /\ todo \in Seq(Tasks) /\ todo # <<>>
      /\ Elements(todo) = {Task} \cup Elements(Tail(todo))
      /\ InPhase(phase) \subseteq Tasks /\ mode \in {"serial", "parallel"}
      /\ pc \in InLoop /\ disk # None
  <2>1. pc \in Running \ {"phase"} /\ pc \in InLoop
    BY DEF Running, Integrating, Deciding, InLoop
  <2>2. Elements(todo) = {Task} \cup Elements(Tail(todo))
    BY TailElements DEF IInv, TypeOK, Control, Task
  <2> QED
    BY <2>1, <2>2, TaskType, PhaseFacts DEF IInv, TypeOK, Control, OInv, Going, OnlyThePhase
<1>2. pc' = LoopOf(mode) /\ todo' = Tail(todo)
  BY DEF NextTask
<1>3. /\ pc' = IF mode = "serial" THEN "serial" ELSE "queue"
      /\ pc' \in InLoop /\ pc' \notin Integrating
      /\ pc' \in Running \ {"phase"} /\ mem' # None /\ disk' # None
  BY <1>2 DEF LoopOf, InLoop, Integrating, Deciding, Running, IInv, Control
<1>4. OnlyThePhase'
  BY <1>1, <1>2, <1>3 DEF OInv, OnlyThePhase, InLoop
<1>5. Synced' /\ Going'
  BY <1>1, <1>3 DEF OInv, Synced, Going, SameMerges, Stopped
<1>6. NoneParkedBefore' /\ Landed'
  BY <1>1, PhaseOrder
<1>7. SkipsExplained'
  <2> SUFFICES ASSUME NEW t \in Tasks, mem'.st[t] = "skipped"
               PROVE  pc' # "phase" /\ t \in InPhase(phase) /\ AnyParked(mem', phase)
    BY DEF SkipsExplained
  <2>1. t # Task /\ mem.st[t] = "skipped"
    OBVIOUS
  <2>2. t \in InPhase(phase) /\ AnyParked(mem, phase)
    BY <1>1, <2>1 DEF OInv, SkipsExplained
  <2>3. PICK u \in InPhase(phase) : mem.st[u] = "parked"
    BY <2>2 DEF AnyParked
  <2>4. mem'.st[u] = "parked"
    <3>1. CASE u = Task
      BY <1>1, <2>3, <3>1 DEF IInv, Control, OInv, Going, Integrating
    <3>2. CASE u # Task
      BY <1>1, <2>3, <3>2
    <3> QED
      BY <3>1, <3>2
  <2> QED
    BY <1>3, <2>2, <2>4 DEF AnyParked
<1>8. LoopDone'
  <2>1. CASE mode = "serial"
    BY <1>1, <1>2, <1>3, <2>1 DEF OInv, LoopDone, Settled
  <2>2. CASE mode = "parallel"
    BY <1>1, <1>2, <1>3, <2>2 DEF OInv, LoopDone, Settled
  <2> QED
    BY <1>1, <2>1, <2>2
<1>9. Queues'
  <2>1. RetrySets \subseteq {{}} => Queued(mem')
    BY <1>1 DEF OInv, Queues, Queued, Unfinished
  <2>2. ASSUME RetrySets \subseteq {{}}, mode = "parallel", NEW t \in InPhase(phase),
               mem'.st[t] \in Unfinished
        PROVE  t \in Elements(Tail(todo))
    BY <1>1, <2>2 DEF OInv, Queues, Unfinished
  <2> QED
    BY <1>2, <2>1, <2>2 DEF OInv, Queues
<1> QED
  BY <1>4, <1>5, <1>6, <1>7, <1>8, <1>9 DEF OInv

-----------------------------------------------------------------------------
(* The order is kept by each action.                                       *)

(* A run that starts has all its phases before it. *)
LEMMA BeginOrder ==
    ASSUME IInv, OInv, pc \in Idle, NEW s \in CoordinatorState,
           NEW m \in Modes, Begin(s, m),
           s.status = "in_progress", \A t \in Tasks : s.st[t] # "skipped",
           RetrySets \subseteq {{}} => Queued(s)
    PROVE  OInv'
<1> USE DEF Begin, Save
<1>1. /\ s # None /\ pc' \notin InLoop /\ pc' \notin Integrating /\ sessions = {}
      /\ 1..(phase' - 1) = {}
  BY NoneAssumption DEF InLoop, Integrating, Deciding, IInv, Control, Idle
<1>2. OnlyThePhase'
  BY <1>1 DEF OnlyThePhase
<1>3. Synced' /\ Going'
  BY <1>1 DEF Synced, Going, SameMerges, Stopped
<1>4. NoneParkedBefore' /\ SkipsExplained' /\ Landed'
  BY <1>1 DEF NoneParkedBefore, SkipsExplained, Landed
<1>5. LoopDone' /\ Queues'
  BY <1>1 DEF LoopDone, Queues, InLoop
<1> QED
  BY <1>2, <1>3, <1>4, <1>5 DEF OInv

(* A run that starts from nothing. *)
LEMMA StartFreshOrder == IInv /\ OInv /\ StartFresh => OInv'
<1> SUFFICES ASSUME IInv, OInv, StartFresh PROVE OInv'
  OBVIOUS
<1>1. PICK resume \in BOOLEAN, m \in Modes : Start(resume) /\ Begin(FreshState, m)
  BY DEF StartFresh
<1>2. /\ FreshState \in CoordinatorState /\ FreshState.status = "in_progress"
      /\ \A t \in Tasks : FreshState.st[t] # "skipped"
      /\ Queued(FreshState) /\ pc \in Idle
  BY <1>1, FreshType DEF FreshState, Queued, Unfinished, Start
<1> QED
  BY <1>1, <1>2, BeginOrder

(* A run that goes on from the state file. *)
LEMMA StartResumeOrder == IInv /\ OInv /\ StartResume => OInv'
<1> SUFFICES ASSUME IInv, OInv, StartResume PROVE OInv'
  OBVIOUS
<1>1. PICK retry \in RetrySets, m \in Modes :
         Start(TRUE) /\ disk # None /\ Begin(Resumed(disk, retry), m)
  BY DEF StartResume
<1> DEFINE s == Resumed(disk, retry)
<1>2. pc \in Idle /\ disk \in CoordinatorState /\ s \in CoordinatorState
  BY <1>1, ResumedType DEF Start, IInv, TypeOK
<1>3. s.status = "in_progress" /\ s.queue = disk.queue
  BY <1>2 DEF Resumed, CoordinatorState, Record
<1>4. ASSUME NEW t \in Tasks
      PROVE  /\ s.st[t] # "skipped"
             /\ retry = {} => (s.st[t] \in Unfinished <=> disk.st[t] \in Unfinished)
  BY <1>2 DEF Resumed, CoordinatorState, Record, Unfinished
<1>5. RetrySets \subseteq {{}} => Queued(s)
  BY <1>1, <1>3, <1>4 DEF Queued, OInv, Queues
<1> HIDE DEF s
<1> QED
  BY <1>1, <1>2, <1>3, <1>4, <1>5, BeginOrder DEF s

(* The steps between two phases. *)
LEMMA SkipMergedPhaseOrder == IInv /\ IInv' /\ OInv /\ SkipMergedPhase => OInv'
<1> SUFFICES ASSUME IInv, IInv', OInv, SkipMergedPhase PROVE OInv'
  OBVIOUS
<1> USE DEF SkipMergedPhase, AtPhase
<1>1. /\ pc \in Running /\ pc' \notin InLoop /\ pc' \notin Integrating
      /\ mem # None /\ mem \in CoordinatorState /\ phase \in Nat
  BY RunningFacts, PhaseFacts DEF Running, InLoop, Integrating, Deciding
<1>2. /\ mem'.st = mem.st /\ mem'.status = mem.status
      /\ mem'.merged = mem.merged /\ mem'.queue = mem.queue
  BY <1>1 DEF CoordinatorState, Record
<1>3. \A p \in 1..(phase' - 1) : p \in 1..(phase - 1) \/ p = phase
  BY <1>1
<1>4. OnlyThePhase'
  BY <1>1 DEF OnlyThePhase
<1>5. Synced' /\ Going'
  BY <1>1, <1>2 DEF OInv, Synced, Going, SameMerges, Stopped
<1>6. NoneParkedBefore'
  BY <1>1, <1>2, <1>3 DEF OInv, NoneParkedBefore, AnyParked, AllMerged, Stopped
<1>7. SkipsExplained'
  BY <1>1, <1>2 DEF OInv, SkipsExplained, Stopped
<1>8. Landed'
  BY <1>1, <1>2, <1>3 DEF OInv, Landed, AllMerged, Stopped
<1>9. LoopDone' /\ Queues'
  BY <1>1, <1>2 DEF OInv, LoopDone, Queues, Queued, InLoop
<1> QED
  BY <1>4, <1>5, <1>6, <1>7, <1>8, <1>9 DEF OInv

(* A phase after the stop is skipped. *)
LEMMA SkipAfterStopOrder == IInv /\ IInv' /\ OInv /\ SkipAfterStop => OInv'
<1> SUFFICES ASSUME IInv, IInv', OInv, SkipAfterStop PROVE OInv'
  OBVIOUS
<1> USE DEF SkipAfterStop, AtPhase, Save
<1>1. /\ pc \in Running /\ pc' \notin InLoop /\ pc' \notin Integrating
      /\ mem # None /\ mem \in CoordinatorState
  BY RunningFacts DEF Running, InLoop, Integrating, Deciding
<1>2. mem'.status = mem.status /\ mem'.queue = mem.queue /\ disk' = mem'
  BY <1>1 DEF CoordinatorState, Record
<1>3. \A t \in Tasks : mem'.st[t] \in Unfinished => mem.st[t] \in Unfinished
  BY <1>1 DEF CoordinatorState, Record, Unfinished
<1>4. OnlyThePhase' /\ Synced' /\ Going'
  BY <1>1, <1>2 DEF OInv, OnlyThePhase, Synced, Going, SameMerges, Stopped
<1>5. NoneParkedBefore' /\ SkipsExplained' /\ Landed'
  BY <1>1, <1>2 DEF OInv, NoneParkedBefore, SkipsExplained, Landed, Stopped
<1>6. LoopDone' /\ Queues'
  BY <1>1, <1>2, <1>3 DEF OInv, LoopDone, Queues, Queued, InLoop
<1> QED
  BY <1>4, <1>5, <1>6 DEF OInv

(* A phase begins; those before it are merged. *)
LEMMA BeginPhaseOrder == IInv /\ IInv' /\ OInv /\ BeginPhase => OInv'
<1> SUFFICES ASSUME IInv, IInv', OInv, BeginPhase PROVE OInv'
  OBVIOUS
<1> USE DEF BeginPhase, AtPhase, Save
<1>1. /\ pc \in Running /\ pc' \notin InLoop /\ pc' \notin Integrating
      /\ mem # None /\ mem \in CoordinatorState /\ Elements(todo') = InPhase(phase)
  BY RunningFacts, PhaseFacts DEF Running, InLoop, Integrating, Deciding
<1>2. /\ mem'.st = mem.st /\ mem'.status = mem.status /\ disk' = mem'
      /\ mem'.queue = mem.queue
  BY <1>1 DEF CoordinatorState, Record
<1>3. OnlyThePhase' /\ Synced' /\ Going'
  BY <1>1, <1>2 DEF OInv, OnlyThePhase, Synced, Going, SameMerges, Stopped
<1>4. NoneParkedBefore' /\ SkipsExplained' /\ Landed'
  BY <1>1, <1>2 DEF OInv, NoneParkedBefore, SkipsExplained, Landed, AnyParked, AllMerged, Stopped
<1>5. LoopDone' /\ Queues'
  BY <1>1, <1>2 DEF OInv, LoopDone, Queues, Queued, InLoop
<1> QED
  BY <1>3, <1>4, <1>5 DEF OInv

(* A phase that ends with nothing parked has merged all its tasks, if the  *)
(* queue is right.                                                         *)
LEMMA EndPhaseOrder == IInv /\ IInv' /\ OInv /\ EndPhase => OInv'
<1> SUFFICES ASSUME IInv, IInv', OInv, EndPhase PROVE OInv'
  OBVIOUS
<1> USE DEF EndPhase, Save
<1>1. /\ pc \in Running \ {"phase"} /\ pc' \notin InLoop /\ pc' \notin Integrating
      /\ mem # None /\ mem \in CoordinatorState /\ phase \in Phases /\ phase \in Nat
      /\ InPhase(phase) \subseteq Tasks /\ ~ Stopped
  BY RunningFacts, PhaseFacts DEF Running, InLoop, Integrating, Deciding, IInv, Control, OInv, Going
<1>2. /\ mem'.st = mem.st /\ mem'.queue = mem.queue /\ disk' = mem'
      /\ mem'.status = IF AnyParked(mem, phase) THEN "stopped" ELSE mem.status
      /\ mem'.merged = mem.merged
  BY <1>1 DEF CoordinatorState, Record
<1>3. \A p \in 1..(phase' - 1) : p \in 1..(phase - 1) \/ p = phase
  BY <1>1
<1>4. OnlyThePhase' /\ Synced'
  BY <1>1, <1>2 DEF OInv, OnlyThePhase, Synced, SameMerges
<1>5. Going' /\ Queues'
  BY <1>1, <1>2 DEF OInv, Going, Queues, Queued
<1>6. NoneParkedBefore' /\ SkipsExplained'
  BY <1>1, <1>2, <1>3 DEF OInv, NoneParkedBefore, SkipsExplained, AnyParked, Stopped
<1>7. Landed'
  <2> SUFFICES ASSUME QueueIsRight, ~ AnyParked(mem, phase)
               PROVE  AllMerged(mem, phase)
    BY <1>1, <1>2, <1>3 DEF OInv, Landed, AllMerged, Stopped
  <2>1. \A t \in InPhase(phase) : mem.st[t] \notin {"parked", "skipped"}
    BY <1>1 DEF OInv, SkipsExplained, AnyParked
  <2>2. CASE pc = "serial"
    <3>1. mode = "serial" /\ pc \in InLoop
      BY <2>2 DEF OInv, OnlyThePhase, InLoop
    <3> QED
      BY <2>1, <3>1, EmptyElements DEF OInv, LoopDone, Settled, AllMerged
  <2>3. CASE pc = "queue"
    <3>1. mode = "parallel" /\ RetrySets \subseteq {{}}
      BY <2>3 DEF OInv, OnlyThePhase, Queues, QueueIsRight
    <3> QED
      BY <2>1, <2>3, <3>1, EmptyElements DEF OInv, LoopDone, Queues, Settled, AllMerged
  <2> QED
    BY <2>2, <2>3
<1>8. LoopDone'
  BY <1>1 DEF LoopDone, InLoop
<1> QED
  BY <1>4, <1>5, <1>6, <1>7, <1>8 DEF OInv

(* The worktrees of a phase are made. *)
LEMMA PreforkOrder == IInv /\ IInv' /\ OInv /\ Prefork => OInv'
<1> SUFFICES ASSUME IInv, IInv', OInv, Prefork PROVE OInv'
  OBVIOUS
<1> USE DEF Prefork, control
<1>1. /\ pc \in Running \ {"phase"} /\ pc' \notin InLoop /\ pc' \notin Integrating
      /\ mem # None /\ mem \in CoordinatorState /\ mem' # None /\ phase \in Phases
      /\ Task \in InPhase(phase) /\ Task \in Tasks
      /\ Elements(todo') \subseteq InPhase(phase)
  <2>1. Elements(todo) = {Task} \cup Elements(todo')
    BY TailElements DEF IInv, TypeOK, Task
  <2> QED
    BY <2>1, RunningFacts, TaskType DEF Running, InLoop, Integrating, Deciding,
       IInv, TypeOK, Control, OInv, OnlyThePhase
<1>2. /\ mem'.status = mem.status /\ mem'.queue = mem.queue
      /\ mem'.merged = mem.merged
      /\ \A t \in Tasks : \/ mem'.st[t] = mem.st[t]
                          \/ t = Task /\ mem.st[t] = "pending" /\ mem'.st[t] = "parked"
  <2>1. CASE mem' = mem
    BY <2>1
  <2>2. CASE /\ mem.st[Task] = "pending"
             /\ mem' = [mem EXCEPT !.st[Task] = "parked", !.reason[Task] = "TASK_ERROR"]
    BY <1>1, <2>2 DEF CoordinatorState, Record
  <2> QED
    BY <2>1, <2>2
<1>3. OnlyThePhase' /\ Going'
  BY <1>1, <1>2 DEF OInv, OnlyThePhase, Going, Stopped
<1>4. Synced'
  BY <1>1, <1>2 DEF OInv, Synced, SameMerges
<1>5. NoneParkedBefore' /\ Landed'
  BY <1>1, <1>2, PhaseOrder
<1>6. SkipsExplained'
  BY <1>1, <1>2, PhaseFacts DEF OInv, SkipsExplained, AnyParked, Stopped
<1>7. LoopDone' /\ Queues'
  BY <1>1, <1>2 DEF OInv, LoopDone, Queues, Queued, Unfinished, InLoop
<1> QED
  BY <1>3, <1>4, <1>5, <1>6, <1>7 DEF OInv

(* The worktrees are ready: the tasks of the phase are taken up. *)
LEMMA PreforkedOrder == IInv /\ IInv' /\ OInv /\ Preforked => OInv'
<1> SUFFICES ASSUME IInv, IInv', OInv, Preforked PROVE OInv'
  OBVIOUS
<1> USE DEF Preforked, control, Save
<1>1. /\ pc \in Running \ {"phase"} /\ mem # None /\ mem \in CoordinatorState /\ mem' # None
      /\ phase \in Phases /\ InPhase(phase) \subseteq Tasks
      /\ Elements(Plan[phase]) = InPhase(phase) /\ mode \in {"serial", "parallel"}
      /\ sessions = {}
  BY RunningFacts, PhaseFacts DEF Running, IInv, TypeOK, Control
<1>2. /\ mem'.status = mem.status /\ mem'.queue = mem.queue /\ disk' = mem'
      /\ mem'.merged = mem.merged
      /\ \A t \in Tasks : mem'.st[t] =
            IF mode = "parallel" /\ t \in InPhase(phase) /\ mem.st[t] \in {"pending", "executing"}
            THEN "executing" ELSE mem.st[t]
  <2>1. CASE mode = "serial"
    BY <2>1
  <2>2. CASE mode = "parallel"
    <3>1. /\ mem' = [mem EXCEPT !.st = [t \in Tasks |->
                IF t \in {u \in InPhase(phase) : mem.st[u] \in {"pending", "executing"}}
                THEN "executing" ELSE mem.st[t]]]
          /\ disk' = mem'
      BY <2>2
    <3> QED
      BY <1>1, <2>2, <3>1 DEF CoordinatorState, Record
  <2> QED
    BY <1>1, <2>1, <2>2
<1>3. pc' = IF mode = "serial" THEN "serial" ELSE "sessions"
  BY <1>1
<1>4. OnlyThePhase'
  BY <1>1, <1>3 DEF OInv, OnlyThePhase, Integrating, Deciding, InLoop
<1>5. Synced' /\ Going'
  BY <1>1, <1>2, <1>3 DEF OInv, Synced, SameMerges, Going, Stopped
<1>6. NoneParkedBefore' /\ Landed'
  BY <1>1, <1>2, PhaseOrder
<1>7. SkipsExplained'
  BY <1>1, <1>2, <1>3 DEF OInv, SkipsExplained, AnyParked, Stopped
<1>8. LoopDone'
  <2>1. CASE mode = "serial"
    BY <1>1, <1>2, <1>3, <2>1 DEF LoopDone, InLoop
  <2>2. CASE mode = "parallel"
    BY <1>1, <1>2, <1>3, <2>2 DEF LoopDone, Integrating, Deciding
  <2> QED
    BY <1>1, <2>1, <2>2
<1>9. Queues'
  BY <1>1, <1>2, <1>3 DEF OInv, Queues, Queued, Unfinished, Integrating, Deciding
<1> QED
  BY <1>4, <1>5, <1>6, <1>7, <1>8, <1>9 DEF OInv

(* What a loop visits. *)
LEMMA VisitFacts ==
    ASSUME IInv, OInv, NEW loop \in {"serial", LoopOf(mode)}, Visit(loop)
    PROVE  /\ pc \in Running \ {"phase"} /\ pc \in {"serial", "queue"}
           /\ mode = IF pc = "serial" THEN "serial" ELSE "parallel"
           /\ mem # None /\ mem \in CoordinatorState /\ phase \in Phases
           /\ InPhase(phase) \subseteq Tasks /\ ~ Stopped /\ sessions = {}
           /\ Task \in Tasks
           /\ mode = "serial" => Task \in InPhase(phase)
           /\ todo # <<>> /\ Elements(todo) = {Task} \cup Elements(Tail(todo))
<1>1. pc \in Running \ {"phase"} /\ pc \in {"serial", "queue"} /\ todo # <<>>
  BY DEF Visit, LoopOf, Running
<1>2. Elements(todo) = {Task} \cup Elements(Tail(todo)) /\ Task \in Tasks
  BY <1>1, TailElements, TaskType DEF IInv, TypeOK, Task
<1>3. mode = IF pc = "serial" THEN "serial" ELSE "parallel"
  BY <1>1 DEF OInv, OnlyThePhase
<1>4. /\ mem # None /\ mem \in CoordinatorState /\ phase \in Phases
      /\ InPhase(phase) \subseteq Tasks /\ ~ Stopped /\ sessions = {}
  BY <1>1, RunningFacts, PhaseFacts DEF IInv, Control, OInv, Going
<1>5. mode = "serial" => Task \in InPhase(phase)
  BY <1>1, <1>2, <1>3 DEF OInv, OnlyThePhase, InLoop
<1> QED
  BY <1>1, <1>2, <1>3, <1>4, <1>5

(* A task with nothing to be done is passed over. *)
LEMMA PassOverOrder == IInv /\ IInv' /\ OInv /\ PassOver => OInv'
<1> SUFFICES ASSUME IInv, IInv', OInv, PassOver PROVE OInv'
  OBVIOUS
<1> USE DEF PassOver
<1>1. /\ Visit(LoopOf(mode)) /\ PassedOver(Task) /\ todo' = Tail(todo)
      /\ UNCHANGED <<disk, mem, pc, sessions, local, mode, phase>>
  BY DEF Visit, control
<1>2. /\ pc \in Running \ {"phase"} /\ pc \in {"serial", "queue"}
      /\ mode = IF pc = "serial" THEN "serial" ELSE "parallel"
      /\ InPhase(phase) \subseteq Tasks
      /\ Elements(todo) = {Task} \cup Elements(Tail(todo)) /\ pc \notin Integrating
  BY <1>1, VisitFacts DEF Integrating, Deciding
<1> HIDE DEF PassOver
<1>3. OnlyThePhase' /\ Synced' /\ Going'
  BY <1>1, <1>2 DEF OInv, OnlyThePhase, Synced, Going, Stopped, InLoop
<1>4. NoneParkedBefore' /\ SkipsExplained' /\ Landed'
  BY <1>1, <1>2 DEF OInv, NoneParkedBefore, SkipsExplained, Landed, Stopped
<1>5. LoopDone' /\ Queues'
  BY <1>1, <1>2 DEF OInv, LoopDone, Queues, PassedOver, Unintegrated, Settled, Unfinished, InLoop
<1> QED
  BY <1>3, <1>4, <1>5 DEF OInv

(* A pending task is skipped after one of its phase was parked. *)
LEMMA SkipPendingOrder == IInv /\ IInv' /\ OInv /\ SkipPending => OInv'
<1> SUFFICES ASSUME IInv, IInv', OInv, SkipPending PROVE OInv'
  OBVIOUS
<1>1. /\ Visit("serial") /\ pc = "serial" /\ mem.st[Task] = "pending" /\ AnyParked(mem, phase)
      /\ disk' = mem' /\ mem' = [mem EXCEPT !.st[Task] = "skipped"] /\ todo' = Tail(todo)
      /\ UNCHANGED <<pc, sessions, mode, phase>>
  BY DEF SkipPending, Visit, control, Save
<1>2. /\ pc \in Running \ {"phase"} /\ mode = "serial"
      /\ mem # None /\ mem \in CoordinatorState
      /\ Task \in Tasks /\ Task \in InPhase(phase) /\ InPhase(phase) \subseteq Tasks
      /\ Elements(todo) = {Task} \cup Elements(Tail(todo)) /\ pc \notin Integrating
  BY <1>1, VisitFacts DEF Integrating, Deciding
<1>3. /\ mem'.status = mem.status /\ mem'.queue = mem.queue /\ mem'.merged = mem.merged
      /\ mem' # None
      /\ \A t \in Tasks : mem'.st[t] = IF t = Task THEN "skipped" ELSE mem.st[t]
  BY <1>1, <1>2, NoneAssumption DEF CoordinatorState, Record, IInv, Control
<1>4. OnlyThePhase' /\ Synced' /\ Going'
  BY <1>1, <1>2, <1>3 DEF OInv, OnlyThePhase, Synced, SameMerges, Going, Stopped, InLoop
<1>5. NoneParkedBefore' /\ Landed'
  BY <1>1, <1>2, <1>3, PhaseOrder
<1>6. SkipsExplained'
  BY <1>1, <1>2, <1>3 DEF OInv, SkipsExplained, AnyParked, Stopped
<1>7. LoopDone' /\ Queues'
  BY <1>1, <1>2, <1>3 DEF OInv, LoopDone, Queues, Queued, Settled, Unfinished, InLoop
<1> QED
  BY <1>4, <1>5, <1>6, <1>7 DEF OInv

(* A task is handed to a session. *)
LEMMA DispatchOrder == IInv /\ IInv' /\ OInv /\ Dispatch => OInv'
<1> SUFFICES ASSUME IInv, IInv', OInv, Dispatch PROVE OInv'
  OBVIOUS
<1>1. /\ Visit("serial") /\ pc = "serial" /\ mem.st[Task] \in {"pending", "executing"}
      /\ disk' = mem' /\ mem' = [mem EXCEPT !.st[Task] = "executing"] /\ todo' = todo
      /\ pc' = "sessions" /\ sessions' = {Task} /\ UNCHANGED <<mode, phase>>
  BY DEF Dispatch, Visit, control, Save
<1>2. /\ pc \in Running \ {"phase"} /\ mode = "serial" /\ todo # <<>>
      /\ mem # None /\ mem \in CoordinatorState /\ pc' \notin Integrating
      /\ Task \in Tasks /\ Task \in InPhase(phase) /\ InPhase(phase) \subseteq Tasks
  BY <1>1, VisitFacts DEF Integrating, Deciding
<1>3. /\ mem'.status = mem.status /\ mem'.queue = mem.queue /\ mem'.merged = mem.merged
      /\ \A t \in Tasks : mem'.st[t] = IF t = Task THEN "executing" ELSE mem.st[t]
  BY <1>1, <1>2 DEF CoordinatorState, Record
<1>4. OnlyThePhase' /\ Synced' /\ Going'
  BY <1>1, <1>2, <1>3 DEF OInv, OnlyThePhase, Synced, SameMerges, Going, Stopped, InLoop, Task
<1>5. NoneParkedBefore' /\ Landed'
  BY <1>1, <1>2, <1>3, PhaseOrder
<1>6. SkipsExplained'
  BY <1>1, <1>2, <1>3 DEF OInv, SkipsExplained, AnyParked, Stopped
<1>7. LoopDone' /\ Queues'
  BY <1>1, <1>2, <1>3 DEF OInv, LoopDone, Queues, Queued, Settled, Unfinished, InLoop
<1> QED
  BY <1>4, <1>5, <1>6, <1>7 DEF OInv

(* The integration of a task begins. *)
LEMMA StartIntegrateOrder == IInv /\ IInv' /\ OInv /\ StartIntegrate => OInv'
<1> SUFFICES ASSUME IInv, IInv', OInv, StartIntegrate PROVE OInv'
  OBVIOUS
<1>1. /\ Visit(LoopOf(mode)) /\ mem.st[Task] \in Unfinished /\ ~ PassedOver(Task)
      /\ disk' = mem' /\ mem' = [mem EXCEPT !.st[Task] = "integrating"]
      /\ pc' = "refs" /\ UNCHANGED <<todo, sessions, mode, phase>>
  BY DEF StartIntegrate, Visit, control, Save, Unintegrated, Unfinished
<1>2. /\ pc \in Running \ {"phase"} /\ pc \in {"serial", "queue"} /\ todo # <<>>
      /\ mode = IF pc = "serial" THEN "serial" ELSE "parallel"
      /\ mem # None /\ mem \in CoordinatorState /\ pc' \in Integrating /\ pc' \in InLoop
      /\ Task \in Tasks /\ Task \in InPhase(phase) /\ InPhase(phase) \subseteq Tasks
  BY <1>1, VisitFacts DEF Integrating, Deciding, PassedOver, InLoop
<1>3. /\ mem'.status = mem.status /\ mem'.queue = mem.queue /\ mem'.merged = mem.merged
      /\ \A t \in Tasks : mem'.st[t] = IF t = Task THEN "integrating" ELSE mem.st[t]
  BY <1>1, <1>2 DEF CoordinatorState, Record
<1>4. OnlyThePhase' /\ Synced' /\ Going'
  BY <1>1, <1>2, <1>3 DEF OInv, OnlyThePhase, Synced, SameMerges, Going, Stopped, InLoop, Task
<1>5. NoneParkedBefore' /\ Landed'
  BY <1>1, <1>2, <1>3, PhaseOrder
<1>6. SkipsExplained'
  BY <1>1, <1>2, <1>3 DEF OInv, SkipsExplained, AnyParked, Stopped, Unfinished
<1>7. LoopDone'
  <2>1. CASE pc = "serial"
    BY <1>1, <1>2, <1>3, <2>1 DEF OInv, LoopDone, Settled, Unfinished, InLoop
  <2>2. CASE pc = "queue"
    BY <1>1, <1>2, <1>3, <2>2 DEF OInv, LoopDone, Settled, Unfinished
  <2> QED
    BY <1>2, <2>1, <2>2
<1>8. Queues'
  BY <1>1, <1>2, <1>3 DEF OInv, Queues, Queued, Unfinished
<1> QED
  BY <1>4, <1>5, <1>6, <1>7, <1>8 DEF OInv

(* A session ends, and what becomes of its task. *)
LEMMA SessionOverFacts ==
    ASSUME IInv, OInv, NEW t \in Tasks, SessionOver(t)
    PROVE  /\ pc \in Running \ {"phase"} /\ pc = "sessions" /\ t \in sessions
           /\ mem # None /\ mem \in CoordinatorState /\ phase \in Phases /\ ~ Stopped
           /\ InPhase(phase) \subseteq Tasks /\ t \in InPhase(phase)
           /\ mem.st[t] = "executing" /\ mode \in {"serial", "parallel"}
           /\ sessions' = sessions \ {t} /\ UNCHANGED <<todo, mode, phase>>
           /\ pc' = IF mode = "serial" THEN "serial" ELSE "sessions"
           /\ mode = "serial" => t = Task /\ todo # <<>> /\ t \in Elements(todo)
           /\ mode = "serial" => sessions' = {}
<1>1. /\ pc = "sessions" /\ pc \in Running \ {"phase"} /\ t \in sessions
      /\ sessions' = sessions \ {t} /\ UNCHANGED <<todo, mode, phase>>
      /\ pc' = IF mode = "serial" THEN "serial" ELSE "sessions"
  BY DEF SessionOver, InSession, RunningSessions, control, Running
<1>2. /\ mem # None /\ mem \in CoordinatorState /\ phase \in Phases /\ ~ Stopped
      /\ InPhase(phase) \subseteq Tasks /\ t \in InPhase(phase)
      /\ mem.st[t] = "executing" /\ mode \in {"serial", "parallel"}
  BY <1>1, RunningFacts, PhaseFacts DEF IInv, TypeOK, Control, OInv, Going, OnlyThePhase
<1>3. ASSUME mode = "serial"
      PROVE  t = Task /\ todo # <<>> /\ t \in Elements(todo) /\ sessions' = {}
  <2>1. todo # <<>> /\ sessions = {Task}
    BY <1>1, <1>3 DEF OInv, OnlyThePhase
  <2> QED
    BY <1>1, <2>1, TailElements DEF IInv, TypeOK, Task
<1> QED
  BY <1>1, <1>2, <1>3

(* A session that ends leaves its task to be integrated, or parked. *)
LEMMA SessionEndOrder ==
    ASSUME IInv, IInv', OInv, NEW t \in Tasks, SessionOver(t), disk' = mem',
           mem'.status = mem.status,
           \A u \in Tasks \ {t} : /\ mem'.st[u] = mem.st[u]
                                  /\ u \in Elements(mem.queue) => u \in Elements(mem'.queue),
           \/ mem'.st[t] = "parked"
           \/ mem'.st[t] = "awaiting_merge" /\ t \in Elements(mem'.queue)
    PROVE  OInv'
<1>1. /\ pc \in Running \ {"phase"} /\ pc = "sessions" /\ t \in sessions
      /\ mem # None /\ mem \in CoordinatorState /\ phase \in Phases /\ ~ Stopped
      /\ InPhase(phase) \subseteq Tasks /\ t \in InPhase(phase)
      /\ mem.st[t] = "executing" /\ mode \in {"serial", "parallel"}
      /\ sessions' = sessions \ {t} /\ UNCHANGED <<todo, mode, phase>>
      /\ pc' = IF mode = "serial" THEN "serial" ELSE "sessions"
      /\ mode = "serial" => t = Task /\ todo # <<>> /\ t \in Elements(todo)
      /\ mode = "serial" => sessions' = {}
  BY SessionOverFacts
<1>2. pc' \in Running \ {"phase"} /\ pc' \notin Integrating /\ pc' \in InLoop /\ pc \in InLoop
      /\ mem' # None
  BY <1>1 DEF Running, Integrating, Deciding, InLoop, IInv, Control
<1>3. OnlyThePhase'
  BY <1>1, <1>2 DEF OInv, OnlyThePhase
<1>4. Synced' /\ Going'
  BY <1>1, <1>2 DEF OInv, Synced, SameMerges, Going, Stopped
<1>5. NoneParkedBefore' /\ Landed'
  BY <1>1, PhaseOrder
<1>6. SkipsExplained'
  BY <1>1, <1>2 DEF OInv, SkipsExplained, AnyParked, Stopped
<1>7. LoopDone'
  <2>1. CASE mode = "serial"
    BY <1>1, <1>2, <2>1 DEF OInv, LoopDone, Settled
  <2>2. CASE mode = "parallel"
    BY <1>1, <1>2, <2>2 DEF OInv, LoopDone
  <2> QED
    BY <1>1, <2>1, <2>2
<1>8. Queues'
  <2>1. RetrySets \subseteq {{}} => Queued(mem')
    BY <1>1 DEF OInv, Queues, Queued, Unfinished
  <2> QED
    BY <1>1, <1>2, <2>1 DEF OInv, Queues
<1> QED
  BY <1>3, <1>4, <1>5, <1>6, <1>7, <1>8 DEF OInv

(* A session that succeeds puts its task in the queue. *)
LEMMA SessionSucceedsOrder == \A t \in Tasks : IInv /\ IInv' /\ OInv /\ SessionSucceeds(t) => OInv'
<1> SUFFICES ASSUME NEW t \in Tasks, IInv, IInv', OInv, SessionSucceeds(t) PROVE OInv'
  OBVIOUS
<1>1. SessionOver(t) /\ disk' = mem' /\ mem \in CoordinatorState
  BY SessionOverFacts DEF SessionSucceeds, Save
<1>2. mem.queue \in Seq(Tasks)
  BY <1>1, FieldTypes
<1> DEFINE q == IF t \in Elements(mem.queue) THEN mem.queue ELSE Append(mem.queue, t)
<1>3. mem' = [mem EXCEPT !.st[t] = "awaiting_merge", !.queue = q]
  BY <1>1 DEF SessionSucceeds, Save, CoordinatorState, Record
<1>4. Elements(q) = Elements(mem.queue) \cup {t}
  BY <1>2, AppendElements
<1> HIDE DEF q
<1>5. /\ mem'.status = mem.status /\ mem'.queue = q
      /\ \A u \in Tasks : mem'.st[u] = IF u = t THEN "awaiting_merge" ELSE mem.st[u]
  BY <1>1, <1>3 DEF CoordinatorState, Record
<1> QED
  BY <1>1, <1>4, <1>5, SessionEndOrder

(* A session that fails parks its task. *)
LEMMA SessionFailsOrder == \A t \in Tasks : IInv /\ IInv' /\ OInv /\ SessionFails(t) => OInv'
<1> SUFFICES ASSUME NEW t \in Tasks, IInv, IInv', OInv, SessionFails(t) PROVE OInv'
  OBVIOUS
<1>1. SessionOver(t) /\ disk' = mem' /\ mem \in CoordinatorState
  BY SessionOverFacts DEF SessionFails, Save
<1>2. mem' = [mem EXCEPT !.st[t] = "parked", !.reason[t] = "TASK_ERROR"]
  BY DEF SessionFails, Save
<1>3. /\ mem'.status = mem.status /\ mem'.queue = mem.queue
      /\ \A u \in Tasks : mem'.st[u] = IF u = t THEN "parked" ELSE mem.st[u]
  BY <1>1, <1>2 DEF CoordinatorState, Record
<1> QED
  BY <1>1, <1>3, SessionEndOrder

(* All sessions of a phase are over: the queue is visited. *)
LEMMA SessionsOverOrder == IInv /\ IInv' /\ OInv /\ SessionsOver => OInv'
<1> SUFFICES ASSUME IInv, IInv', OInv, SessionsOver PROVE OInv'
  OBVIOUS
<1>1. /\ mode = "parallel" /\ pc = "sessions" /\ pc' = "queue" /\ todo' = mem.queue
      /\ sessions = {} /\ UNCHANGED <<disk, mem, mode, phase, sessions>>
  BY DEF SessionsOver, control
<1>2. /\ pc \in Running \ {"phase"} /\ mem # None /\ mem \in CoordinatorState
      /\ InPhase(phase) \subseteq Tasks /\ pc' \notin Integrating /\ pc' \in Running
  BY <1>1, RunningFacts, PhaseFacts DEF Running, Integrating, Deciding, IInv, Control
<1>3. OnlyThePhase' /\ Synced' /\ Going'
  BY <1>1, <1>2 DEF OInv, OnlyThePhase, Synced, Going, Stopped
<1>4. NoneParkedBefore' /\ SkipsExplained' /\ Landed'
  BY <1>1, <1>2 DEF OInv, NoneParkedBefore, SkipsExplained, Landed, Stopped
<1>5. LoopDone'
  <2>1. \A t \in InPhase(phase) : mem.st[t] \in TaskState \ {"pending", "executing"}
    BY <1>1, <1>2, FieldTypes DEF OInv, LoopDone
  <2> QED
    BY <1>1, <2>1 DEF LoopDone, TaskState, Settled, Unfinished
<1>6. Queues'
  BY <1>1, <1>2 DEF OInv, Queues, Queued
<1> QED
  BY <1>3, <1>4, <1>5, <1>6 DEF OInv

-----------------------------------------------------------------------------
(* The steps of _integrate. *)
LEMMA ParkOrder ==
    ASSUME IInv, IInv', OInv, pc \in Deciding, NEW why, Park(why),
           UNCHANGED <<mode, phase, sessions>>
    PROVE  OInv'
<1>1. /\ pc \in Integrating /\ pc \in Running /\ NextTask /\ disk' = mem'
      /\ mem' = [mem EXCEPT !.st[Task] = "parked", !.reason[Task] = why,
                            !.queue = Without(mem.queue, Task)]
  BY RunningFacts DEF Integrating, Deciding, Running, Park, Save, CoordinatorState, Record
<1>2. mem \in CoordinatorState /\ Task \in Tasks /\ mem.queue \in Seq(Tasks)
  BY <1>1, RunningFacts, TaskType, FieldTypes DEF IInv, TypeOK, Control
<1>3. /\ mem'.status = mem.status /\ mem'.queue = Without(mem.queue, Task)
      /\ \A u \in Tasks : mem'.st[u] = IF u = Task THEN "parked" ELSE mem.st[u]
  BY <1>1, <1>2 DEF CoordinatorState, Record
<1>4. \A u \in Tasks \ {Task} : u \in Elements(mem.queue) => u \in Elements(mem'.queue)
  BY <1>2, <1>3, WithoutElements
<1> QED
  BY <1>1, <1>2, <1>3, <1>4, NextTaskOrder

(* A round of _integrate is counted, or was the last one. *)
LEMMA RequeueOrder ==
    ASSUME IInv, IInv', OInv, pc \in Deciding, Requeue,
           UNCHANGED <<mode, phase, sessions>>
    PROVE  OInv'
<1>1. /\ pc \in Integrating /\ pc \in Running /\ pc \in InLoop /\ pc \in Running \ {"phase"}
      /\ mem \in CoordinatorState /\ mem # None /\ Task \in Tasks /\ mem.queue \in Seq(Tasks)
  BY RunningFacts, TaskType, FieldTypes DEF Integrating, Deciding, Running, InLoop, IInv,
     TypeOK, Control
<1> DEFINE s == [mem EXCEPT !.requeue[Task] = attempts + 1]
<1>2. /\ s.st = mem.st /\ s.queue = mem.queue /\ s.status = mem.status
      /\ s.merged = mem.merged /\ s \in CoordinatorState
  <2>1. attempts + 1 \in Nat
    BY DEF IInv, TypeOK
  <2> QED
    BY <1>1, <2>1, RequeueUpdate DEF CoordinatorState, Record
<1>3. CASE attempts + 1 > MaxRequeue
  <2>1. /\ NextTask /\ disk' = mem'
        /\ mem' = [s EXCEPT !.st[Task] = "parked", !.reason[Task] = "MERGE_NOT_FF",
                            !.queue = Without(s.queue, Task)]
    BY <1>3 DEF Requeue, Save
  <2> HIDE DEF s
  <2>2. /\ mem'.status = mem.status /\ mem'.queue = Without(mem.queue, Task)
        /\ \A u \in Tasks : mem'.st[u] = IF u = Task THEN "parked" ELSE mem.st[u]
    BY <1>1, <1>2, <2>1 DEF CoordinatorState, Record
  <2>3. \A u \in Tasks \ {Task} : u \in Elements(mem.queue) => u \in Elements(mem'.queue)
    BY <1>1, <2>2, WithoutElements
  <2> QED
    BY <1>1, <2>1, <2>2, <2>3, NextTaskOrder
<1>4. CASE ~ (attempts + 1 > MaxRequeue)
  <2>1. mem' = s /\ disk' = s /\ pc' = "refs" /\ UNCHANGED todo
    BY <1>4 DEF Requeue, Save, Go
  <2> HIDE DEF s
  <2>2. /\ pc' \in Integrating /\ pc' \in InLoop /\ Task' = Task
        /\ mem'.st = mem.st /\ mem'.queue = mem.queue /\ mem'.status = mem.status
        /\ disk' = mem' /\ mem' # None
    BY <1>2, <2>1, NoneAssumption DEF Integrating, Deciding, InLoop, Task
  <2>3. OnlyThePhase' /\ Synced' /\ Going'
    BY <1>1, <2>1, <2>2 DEF OInv, OnlyThePhase, Synced, SameMerges, Going, Stopped
  <2>4. NoneParkedBefore' /\ Landed'
    BY <1>1, <2>2, PhaseOrder
  <2>5. SkipsExplained'
    BY <1>1, <2>1, <2>2 DEF OInv, SkipsExplained, AnyParked, Stopped
  <2>6. LoopDone' /\ Queues'
    BY <1>1, <2>1, <2>2 DEF OInv, LoopDone, Queues, Queued
  <2> QED
    BY <2>3, <2>4, <2>5, <2>6 DEF OInv
<1> QED
  BY <1>3, <1>4

(* The two commits are compared. *)
LEMMA ReadRefsOrder == IInv /\ IInv' /\ OInv /\ ReadRefs => OInv'
<1> SUFFICES ASSUME IInv, IInv', OInv, ReadRefs PROVE OInv'
  OBVIOUS
<1> DEFINE to == Route(branch[Task], base)
<1>1. pc = "refs" /\ pc \in Deciding /\ pc \in Running
  BY DEF ReadRefs, At, Deciding, Running
<1>2. to \in Deciding
  BY DEF Route, Deciding
<1>3. CASE to # "rebase" \/ (attempts < MaxRequeue /\ Task \in wt)
  <2>1. UNCHANGED <<disk, mem, mode, phase, todo, sessions>> /\ pc' = to
    BY <1>3, BoundsAssumption DEF ReadRefs, Go, control, local, IInv, TypeOK
  <2> HIDE DEF to
  <2> QED
    BY <1>1, <1>2, <2>1, QuietOrder
<1>4. CASE to = "rebase" /\ attempts >= MaxRequeue
  <2>1. Park("MERGE_NOT_FF") /\ UNCHANGED <<mode, phase, sessions>>
    BY <1>4 DEF ReadRefs, control
  <2> QED
    BY <1>1, <2>1, ParkOrder
<1>5. CASE to = "rebase" /\ attempts < MaxRequeue /\ Task \notin wt
  <2>1. Exit("error") /\ UNCHANGED disk /\ "error" \in Idle
    BY <1>5, BoundsAssumption DEF ReadRefs, GitError, Idle, IInv, TypeOK
  <2> QED
    BY <2>1, ExitOrder DEF OInv, Queues
<1> QED
  BY <1>3, <1>4, <1>5, BoundsAssumption DEF IInv, TypeOK

(* The task is recorded as merged. *)
LEMMA MarkMergedOrder == IInv /\ IInv' /\ OInv /\ MarkMerged => OInv'
<1> SUFFICES ASSUME IInv, IInv', OInv, MarkMerged PROVE OInv'
  OBVIOUS
<1>1. /\ pc = "mark" /\ pc' = "clean_worktree" /\ disk' = mem'
      /\ UNCHANGED <<todo, mode, phase, sessions>> /\ Task' = Task
  BY DEF MarkMerged, At, Save, Go, control, Task
<1>2. /\ pc \in Running \ {"phase"} /\ pc \in Integrating /\ pc \in Deciding /\ pc \in InLoop
      /\ pc' \in Integrating /\ pc' \in InLoop /\ pc' \in Running \ {"phase"}
  BY <1>1 DEF Running, Integrating, Deciding, InLoop
<1>3. /\ mem \in CoordinatorState /\ mem # None /\ mem' # None
      /\ Task \in Tasks /\ Task \in InPhase(phase)
      /\ mem.queue \in Seq(Tasks) /\ mem.st[Task] = "integrating"
      /\ InPhase(phase) \subseteq Tasks /\ mode \in {"serial", "parallel"}
  BY <1>2, RunningFacts, TaskType, FieldTypes, PhaseFacts
     DEF IInv, TypeOK, Control, OInv, OnlyThePhase
<1>4. mem' = [mem EXCEPT !.st[Task] = "merged", !.merged[Task] = taskSha,
                         !.queue = Without(mem.queue, Task)]
  BY <1>3 DEF MarkMerged, Save, CoordinatorState, Record
<1>5. /\ mem'.status = mem.status /\ mem'.queue = Without(mem.queue, Task)
      /\ \A u \in Tasks : mem'.st[u] = IF u = Task THEN "merged" ELSE mem.st[u]
  BY <1>3, <1>4 DEF CoordinatorState, Record
<1>6. \A u \in Tasks \ {Task} : u \in Elements(mem.queue) => u \in Elements(mem'.queue)
  BY <1>3, <1>5, WithoutElements
<1>7. OnlyThePhase' /\ Synced' /\ Going'
  BY <1>1, <1>2, <1>3, <1>5 DEF OInv, OnlyThePhase, Synced, SameMerges, Going, Stopped
<1>8. NoneParkedBefore' /\ Landed'
  BY <1>1, <1>2, <1>3, <1>5, PhaseOrder
<1>9. SkipsExplained'
  BY <1>1, <1>2, <1>3, <1>5 DEF OInv, SkipsExplained, AnyParked, Stopped
<1>10. LoopDone'
  <2>1. CASE mode = "serial"
    BY <1>1, <1>2, <1>3, <1>5, <2>1 DEF OInv, LoopDone, Settled
  <2>2. CASE mode = "parallel"
    BY <1>1, <1>2, <1>3, <1>5, <2>2 DEF OInv, LoopDone, Settled
  <2> QED
    BY <1>3, <2>1, <2>2
<1>11. Queues'
  BY <1>1, <1>2, <1>3, <1>5, <1>6 DEF OInv, Queues, Queued, Unfinished
<1> QED
  BY <1>7, <1>8, <1>9, <1>10, <1>11 DEF OInv

(* The integration of a merged task ends. *)
LEMMA CleanBranchOrder == IInv /\ IInv' /\ OInv /\ CleanBranch => OInv'
<1> SUFFICES ASSUME IInv, IInv', OInv, CleanBranch PROVE OInv'
  OBVIOUS
<1>1. /\ pc = "clean_branch" /\ NextTask /\ UNCHANGED <<mem, mode, phase, sessions>>
      /\ disk' = mem'
  BY DEF CleanBranch, At, Save, control
<1>2. pc \in Integrating /\ mem.st[Task] = "merged"
  BY <1>1 DEF Integrating, OInv, Going
<1> QED
  BY <1>1, <1>2, NextTaskOrder

(* Every step keeps the order of the run. *)
LEMMA OrderStep == IInv /\ IInv' /\ OInv /\ [Next]_vars => OInv'
<1> SUFFICES ASSUME IInv, IInv', OInv, [Next]_vars PROVE OInv'
  OBVIOUS
<1>1. CASE Loop
  <2>1. CASE PreforkFails
    BY <2>1, ExitOrder DEF PreforkFails, OInv, Queues, Idle
  <2>2. CASE Finish
    <3>1. Exit("done") /\ "done" \in Idle /\ pc \in Running /\ mem \in CoordinatorState
      BY <2>2, RunningFacts DEF Finish, Running, Idle
    <3>2. disk' = disk \/ disk' = [mem EXCEPT !.status = "all_merged"]
      BY <2>2 DEF Finish
    <3>3. RetrySets \subseteq {{}} /\ disk' # None => Queued(disk')
      BY <3>1, <3>2, RunningFacts DEF OInv, Queues, Queued, CoordinatorState, Record
    <3> QED
      BY <3>1, <3>3, ExitOrder
  <2> QED
    BY <1>1, <2>1, <2>2, SkipMergedPhaseOrder, SkipAfterStopOrder, BeginPhaseOrder,
       PreforkOrder, PreforkedOrder, EndPhaseOrder, PassOverOrder, SkipPendingOrder,
       DispatchOrder, SessionsOverOrder, StartIntegrateOrder DEF Loop
<1>2. CASE Integrate
  <2>1. CASE NoBranch \/ AbortFails
    BY <2>1, ExitOrder DEF NoBranch, AbortFails, GitError, OInv, Queues, Idle
  <2>2. CASE CompareAndSwap
    BY <2>2, QuietOrder DEF CompareAndSwap, At, Go, control, Deciding
  <2>3. CASE Rebase
    BY <2>3, QuietOrder DEF Rebase, AtRebase, At, Go, control, Deciding
  <2>4. CASE CleanWorktree
    BY <2>4, QuietOrder DEF CleanWorktree, At, Go, control
  <2>5. CASE LoseRace \/ ReverifyPasses
    BY <2>5, RequeueOrder DEF LoseRace, ReverifyPasses, AtVerify, At, control, Deciding
  <2>6. CASE RebaseConflicts \/ RebaseRefused \/ ReverifyFails
    BY <2>6, ParkOrder DEF RebaseConflicts, RebaseRefused, ReverifyFails, AtRebase,
       AtVerify, At, control, Deciding
  <2> QED
    BY <1>2, <2>1, <2>2, <2>3, <2>4, <2>5, <2>6, ReadRefsOrder, MarkMergedOrder,
       CleanBranchOrder DEF Integrate
<1>3. ASSUME NEW t \in Tasks, Session(t) PROVE OInv'
  <2>1. CASE SessionEdit(t) \/ SessionCommit(t)
    BY <2>1, QuietOrder DEF SessionEdit, SessionCommit, InSession, control
  <2>2. CASE SessionForks(t)
    BY <2>2, QuietOrder DEF SessionForks, control
  <2>3. CASE SessionForkFails(t)
    BY <2>3, ExitOrder DEF SessionForkFails, OInv, Queues, Idle
  <2> QED
    BY <1>3, <2>1, <2>2, <2>3, SessionSucceedsOrder, SessionFailsOrder
       DEF Session, EndOfSession
<1>4. CASE Crash \/ StartCorrupted
  BY <1>4, ExitOrder DEF Crash, StartCorrupted, OInv, Queues, Idle
<1>5. CASE ExternalCommit \/ RewriteBase
  BY <1>5, QuietOrder DEF ExternalCommit, RewriteBase, control
<1>6. ASSUME NEW t \in Tasks, RemoveWorktree(t) PROVE OInv'
  BY <1>6, QuietOrder DEF RemoveWorktree, control
<1>7. CASE UNCHANGED vars
  BY <1>7, QuietOrder DEF vars
<1> QED
  BY <1>1, <1>2, <1>3, <1>4, <1>5, <1>6, <1>7, StartFreshOrder, StartResumeOrder DEF Next

(* The order holds in every reachable state. *)
LEMMA OrderInvariance == Spec => []OInv
<1>1. Init => OInv
  BY InitOrder
<1>2. IInv /\ IInv' /\ OInv /\ [Next]_vars => OInv'
  BY OrderStep
<1> QED
  BY <1>1, <1>2, Invariance, PTL DEF Spec

(* I5, for every plan: a session runs, and a worktree is created, only     *)
(* when every task of every earlier phase is merged - in serial mode       *)
(* whatever is retried, in parallel mode as long as nothing is.            *)
THEOREM PhasesAreBarriers ==
    ASSUME QueueIsRight
    PROVE  Spec => []PhaseBarrier
<1>1. IInv /\ OInv => PhaseBarrier
  BY DEF IInv, Control, OInv, Going, Landed, PhaseBarrier, Running
<1> QED
  BY <1>1, Invariance, OrderInvariance, PTL

(* Fail-stop, for every plan, mode and choice of retries: no task is       *)
(* started once one of an earlier phase is parked, nor, in serial mode,    *)
(* once one of its own phase is.                                           *)
THEOREM ParkedTasksStopTheRun == Spec => FailStop
<1> DEFINE Stops == \A t \in Tasks :
              mem # None /\ mem' # None /\ starts' = starts
                  /\ mem.st[t] = "pending" /\ mem'.st[t] = "executing" =>
                  /\ \A p \in 1..(phase - 1) : ~ AnyParked(mem, p)
                  /\ mode = "serial" => ~ AnyParked(mem, phase)
<1>1. IInv /\ OInv /\ [Next]_vars => Stops
  <2> SUFFICES ASSUME IInv, OInv, [Next]_vars, NEW t \in Tasks,
                      mem # None, mem' # None, starts' = starts,
                      mem.st[t] = "pending", mem'.st[t] = "executing"
               PROVE  /\ \A p \in 1..(phase - 1) : ~ AnyParked(mem, p)
                      /\ mode = "serial" => ~ AnyParked(mem, phase)
    OBVIOUS
  <2>1. mem \in CoordinatorState /\ pc \in Running
    BY DEF IInv, TypeOK, Control
  <2>2. CASE Dispatch
    <3>1. /\ pc = "serial" /\ mem' = [mem EXCEPT !.st[Task] = "executing"]
          /\ mem.st[Task] = "executing" \/ ~ AnyParked(mem, phase)
      BY <2>2 DEF Dispatch, Visit, Save
    <3>2. t = Task
      BY <2>1, <3>1 DEF CoordinatorState, Record
    <3> QED
      BY <3>1, <3>2 DEF OInv, NoneParkedBefore, Going, Running
  <2>3. CASE Preforked
    <3>1. pc = "prefork" /\ (mode = "serial" => mem' = mem)
      BY <2>3 DEF Preforked, Save
    <3> QED
      BY <3>1 DEF OInv, NoneParkedBefore, Going, Running
  <2>4. CASE UNCHANGED mem
    BY <2>4
  <2>5. CASE mem' = None \/ starts' # starts
    BY <2>5
  <2>6. CASE SkipMergedPhase \/ BeginPhase \/ EndPhase
    <3>1. mem'.st = mem.st
      BY <2>1, <2>6 DEF SkipMergedPhase, BeginPhase, EndPhase, Save, CoordinatorState, Record
    <3> QED
      BY <3>1
  <2>7. CASE SkipAfterStop
    BY <2>1, <2>7 DEF SkipAfterStop, Save, CoordinatorState, Record
  <2>8. CASE Prefork
    <3>1. CASE mem' = mem
      BY <3>1
    <3>2. CASE mem' = [mem EXCEPT !.st[Task] = "parked", !.reason[Task] = "TASK_ERROR"]
      BY <2>1, <3>2 DEF CoordinatorState, Record
    <3> QED
      BY <2>8, <3>1, <3>2 DEF Prefork
  <2>9. ASSUME NEW x \in {"skipped", "integrating"}, mem' = [mem EXCEPT !.st[Task] = x]
        PROVE  FALSE
    BY <2>1, <2>9 DEF CoordinatorState, Record
  <2>10. ASSUME NEW why, Park(why) PROVE FALSE
    <3>1. mem' = [mem EXCEPT !.st[Task] = "parked", !.reason[Task] = why,
                             !.queue = Without(mem.queue, Task)]
      BY <2>1, <2>10 DEF Park, Save, CoordinatorState, Record
    <3> QED
      BY <2>1, <3>1 DEF CoordinatorState, Record
  <2>11. ASSUME Requeue, pc \in Deciding PROVE FALSE
    <3> DEFINE s == [mem EXCEPT !.requeue[Task] = attempts + 1]
    <3>1. s.st = mem.st /\ s \in CoordinatorState
      <4>1. attempts + 1 \in Nat /\ Task \in Tasks
        BY <2>1, <2>11, TaskType DEF Requeue, IInv, TypeOK, Control, Integrating, Deciding
      <4> QED
        BY <2>1, <4>1, RequeueUpdate
    <3>2. \/ mem' = [s EXCEPT !.st[Task] = "parked", !.reason[Task] = "MERGE_NOT_FF",
                              !.queue = Without(s.queue, Task)]
          \/ mem' = s
      BY <2>11 DEF Requeue, Save
    <3> HIDE DEF s
    <3>3. CASE mem' = s
      BY <3>1, <3>3
    <3>4. CASE mem' = [s EXCEPT !.st[Task] = "parked", !.reason[Task] = "MERGE_NOT_FF",
                                !.queue = Without(s.queue, Task)]
      BY <3>1, <3>4 DEF CoordinatorState, Record
    <3> QED
      BY <3>2, <3>3, <3>4
  <2>12. CASE MarkMerged
    <3>1. mem' = [mem EXCEPT !.st[Task] = "merged", !.merged[Task] = taskSha,
                             !.queue = Without(mem.queue, Task)]
      BY <2>1, <2>12 DEF MarkMerged, Save, CoordinatorState, Record
    <3> QED
      BY <2>1, <3>1 DEF CoordinatorState, Record
  <2>13. ASSUME NEW u \in Tasks, SessionSucceeds(u) \/ SessionFails(u) PROVE FALSE
    <3>1. CASE SessionFails(u)
      <4>1. mem' = [mem EXCEPT !.st[u] = "parked", !.reason[u] = "TASK_ERROR"]
        BY <3>1 DEF SessionFails, Save
      <4> QED
        BY <2>1, <4>1 DEF CoordinatorState, Record
    <3>2. CASE SessionSucceeds(u)
      <4> DEFINE q == IF u \in Elements(mem.queue) THEN mem.queue ELSE Append(mem.queue, u)
      <4>1. mem' = [mem EXCEPT !.st[u] = "awaiting_merge", !.queue = q]
        BY <2>1, <3>2 DEF SessionSucceeds, Save, CoordinatorState, Record
      <4> HIDE DEF q
      <4> QED
        BY <2>1, <4>1 DEF CoordinatorState, Record
    <3> QED
      BY <2>13, <3>1, <3>2
  <2>14. CASE Loop
    <3>1. CASE Finish \/ PreforkFails
      BY <2>5, <3>1 DEF Finish, PreforkFails, Exit
    <3>2. CASE PassOver \/ SessionsOver
      BY <2>4, <3>2 DEF PassOver, SessionsOver
    <3>3. CASE SkipPending \/ StartIntegrate
      BY <2>9, <3>3 DEF SkipPending, StartIntegrate, Save
    <3> QED
      BY <2>2, <2>3, <2>6, <2>7, <2>8, <2>14, <3>1, <3>2, <3>3 DEF Loop
  <2>15. CASE Integrate
    <3>1. CASE ReadRefs
      BY <2>4, <2>5, <2>10, <3>1 DEF ReadRefs, GitError, Exit, Go
    <3>2. CASE NoBranch \/ AbortFails
      BY <2>5, <3>2 DEF NoBranch, AbortFails, GitError, Exit
    <3>3. CASE CompareAndSwap \/ Rebase \/ CleanWorktree \/ CleanBranch
      BY <2>4, <3>3 DEF CompareAndSwap, Rebase, CleanWorktree, CleanBranch, Save
    <3>4. CASE LoseRace \/ ReverifyPasses
      BY <2>11, <3>4 DEF LoseRace, ReverifyPasses, AtVerify, At, Deciding
    <3>5. CASE RebaseConflicts \/ RebaseRefused \/ ReverifyFails
      BY <2>10, <3>5 DEF RebaseConflicts, RebaseRefused, ReverifyFails
    <3> QED
      BY <2>12, <2>15, <3>1, <3>2, <3>3, <3>4, <3>5 DEF Integrate
  <2>16. ASSUME NEW u \in Tasks, Session(u) PROVE FALSE
    <3>1. CASE SessionEdit(u) \/ SessionCommit(u) \/ SessionForks(u)
      BY <2>4, <3>1 DEF SessionEdit, SessionCommit, SessionForks
    <3>2. CASE SessionForkFails(u)
      BY <2>5, <3>2 DEF SessionForkFails, Exit
    <3> QED
      BY <2>13, <2>16, <3>1, <3>2 DEF Session, EndOfSession
  <2>17. CASE StartFresh \/ StartResume \/ StartCorrupted
    <3>1. starts' = starts + 1 /\ starts \in Nat
      BY <2>17 DEF StartFresh, StartResume, StartCorrupted, Start, IInv, TypeOK
    <3> QED
      BY <3>1
  <2>18. CASE Crash
    BY <2>5, <2>18 DEF Crash, Exit
  <2>19. CASE ExternalCommit \/ RewriteBase
    BY <2>4, <2>19 DEF ExternalCommit, RewriteBase
  <2>20. ASSUME NEW u \in Tasks, RemoveWorktree(u) PROVE FALSE
    BY <2>20 DEF RemoveWorktree
  <2>21. CASE UNCHANGED vars
    BY <2>4, <2>21 DEF vars
  <2> QED
    BY <2>14, <2>15, <2>16, <2>17, <2>18, <2>19, <2>20, <2>21 DEF Next
<1>2. [][Stops]_vars => FailStop
  BY PTL DEF FailStop
<1> QED
  BY <1>1, Invariance, OrderInvariance, PTL DEF Spec, FailStop

-----------------------------------------------------------------------------
(* What the state file says of merges.                                     *)

(* A step either leaves the merges and the status of the state file alone, *)
(* or is one of the few that are there to change them.                     *)
LEMMA Footprint ==
    ASSUME IInv, OInv, [Next]_vars
    PROVE  \/ UNCHANGED disk
           \/ StartFresh \/ StartResume \/ MarkMerged \/ EndPhase \/ Finish
           \/ /\ mem # None /\ mem' # None /\ disk' = mem'
              /\ SameMerges(mem, mem') /\ mem'.status = mem.status
<1> DEFINE Rest == /\ mem # None /\ mem' # None /\ disk' = mem'
                   /\ SameMerges(mem, mem') /\ mem'.status = mem.status
<1>1. IInv'
  BY NextStep
<1>2. ASSUME pc \in Running, disk' = mem', pc' \in Running
      PROVE  mem # None /\ mem' # None /\ mem \in CoordinatorState
  BY <1>1, <1>2, RunningFacts DEF IInv, Control
<1>3. ASSUME NEW x \in {"skipped", "executing", "integrating"},
             disk' = mem', mem' = [mem EXCEPT !.st[Task] = x],
             mem.st[Task] \notin {"merged", "parked"}, Task \in Tasks,
             pc \in Running, pc' \in Running
      PROVE  Rest
  BY <1>2, <1>3 DEF SameMerges, CoordinatorState, Record
<1>4. ASSUME pc \in Deciding, NEW why, Park(why) PROVE Rest
  <2>1. disk' = mem' /\ pc \in Running /\ pc' \in Running /\ pc \in Integrating
    BY <1>4 DEF Park, Save, NextTask, LoopOf, Deciding, Integrating, Running
  <2>2. mem.st[Task] = "integrating" /\ Task \in Tasks /\ mem \in CoordinatorState
    BY <1>2, <1>4, <2>1, TaskType DEF IInv, TypeOK, Control
  <2>3. mem' = [mem EXCEPT !.st[Task] = "parked", !.reason[Task] = why,
                           !.queue = Without(mem.queue, Task)]
    BY <1>4, <2>2 DEF Park, Save, CoordinatorState, Record
  <2> QED
    BY <1>2, <2>1, <2>2, <2>3 DEF SameMerges, CoordinatorState, Record
<1>5. ASSUME pc \in Deciding, Requeue PROVE Rest
  <2>1. disk' = mem' /\ pc \in Running /\ pc' \in Running /\ pc \in Integrating
    BY <1>5 DEF Requeue, Save, Go, NextTask, LoopOf, Deciding, Integrating, Running
  <2>2. /\ mem.st[Task] = "integrating" /\ Task \in Tasks /\ mem \in CoordinatorState
        /\ attempts + 1 \in Nat
    BY <1>2, <1>5, <2>1, TaskType DEF IInv, TypeOK, Control
  <2> DEFINE s == [mem EXCEPT !.requeue[Task] = attempts + 1]
  <2>3. s \in CoordinatorState /\ SameMerges(mem, s) /\ s.st = mem.st /\ s.status = mem.status
    BY <2>2, RequeueUpdate DEF CoordinatorState, Record
  <2>4. \/ mem' = [s EXCEPT !.st[Task] = "parked", !.reason[Task] = "MERGE_NOT_FF",
                            !.queue = Without(s.queue, Task)]
        \/ mem' = s
    BY <1>5 DEF Requeue, Save
  <2> HIDE DEF s
  <2>5. SameMerges(mem, mem') /\ mem'.status = mem.status
    <3>1. CASE mem' = s
      BY <2>3, <3>1
    <3>2. CASE mem' = [s EXCEPT !.st[Task] = "parked", !.reason[Task] = "MERGE_NOT_FF",
                                !.queue = Without(s.queue, Task)]
      BY <2>2, <2>3, <3>2 DEF SameMerges, CoordinatorState, Record
    <3> QED
      BY <2>4, <3>1, <3>2
  <2> QED
    BY <1>2, <2>1, <2>5
<1>6. CASE Loop
  <2>1. CASE SkipMergedPhase \/ PreforkFails \/ Prefork \/ PassOver \/ SessionsOver
    BY <2>1 DEF SkipMergedPhase, PreforkFails, Prefork, PassOver, SessionsOver
  <2>2. CASE SkipAfterStop
    <3>1. disk' = mem' /\ pc \in Running /\ pc' \in Running
      BY <2>2 DEF SkipAfterStop, AtPhase, Save, Running
    <3> QED
      BY <1>2, <2>2, <3>1 DEF SkipAfterStop, Save, SameMerges, CoordinatorState, Record
  <2>3. CASE BeginPhase
    <3>1. disk' = mem' /\ pc \in Running /\ pc' \in Running
      BY <2>3 DEF BeginPhase, AtPhase, Save, Running
    <3> QED
      BY <1>2, <2>3, <3>1 DEF BeginPhase, Save, SameMerges, CoordinatorState, Record
  <2>4. CASE Preforked
    <3>1. disk' = mem' /\ pc \in Running /\ pc' \in Running
      BY <2>4 DEF Preforked, Save, Running
    <3>2. \/ mem' = mem
          \/ mem' = [mem EXCEPT !.st = [t \in Tasks |->
                IF t \in {u \in InPhase(phase) : mem.st[u] \in {"pending", "executing"}}
                THEN "executing" ELSE mem.st[t]]]
      BY <2>4 DEF Preforked, Save
    <3>3. SameMerges(mem, mem') /\ mem'.status = mem.status
      <4>1. CASE mem' = mem
        BY <4>1 DEF SameMerges
      <4>2. CASE mem' # mem
        BY <1>2, <3>1, <3>2, <4>2 DEF SameMerges, CoordinatorState, Record
      <4> QED
        BY <4>1, <4>2
    <3> QED
      BY <1>2, <3>1, <3>3
  <2>5. CASE SkipPending \/ Dispatch \/ StartIntegrate
    <3>1. /\ disk' = mem' /\ pc \in Running /\ pc' \in Running
          /\ mem.st[Task] \notin {"merged", "parked"} /\ todo # <<>>
          /\ \E x \in {"skipped", "executing", "integrating"} :
                mem' = [mem EXCEPT !.st[Task] = x]
      BY <2>5 DEF SkipPending, Dispatch, StartIntegrate, Visit, Unintegrated, LoopOf, Save, Running
    <3>2. Task \in Tasks
      BY <3>1, TaskType DEF IInv, TypeOK
    <3> QED
      BY <1>3, <3>1, <3>2
  <2> QED
    BY <1>6, <2>1, <2>2, <2>3, <2>4, <2>5 DEF Loop
<1>7. CASE Integrate
  <2>1. CASE ReadRefs
    <3>1. pc \in Deciding
      BY <2>1 DEF ReadRefs, At, Deciding
    <3> QED
      BY <1>4, <2>1, <3>1 DEF ReadRefs, GitError
  <2>2. CASE NoBranch \/ AbortFails \/ CompareAndSwap \/ Rebase \/ CleanWorktree
    BY <2>2 DEF NoBranch, AbortFails, GitError, CompareAndSwap, Rebase, CleanWorktree
  <2>3. CASE LoseRace \/ ReverifyPasses
    BY <1>5, <2>3 DEF LoseRace, ReverifyPasses, AtVerify, At, Deciding
  <2>4. CASE RebaseConflicts \/ RebaseRefused \/ ReverifyFails
    BY <1>4, <2>4 DEF RebaseConflicts, RebaseRefused, ReverifyFails, AtRebase, AtVerify,
       At, Deciding
  <2>5. CASE CleanBranch
    <3>1. disk' = mem' /\ mem' = mem /\ pc \in Running /\ pc' \in Running
      BY <2>5 DEF CleanBranch, At, Save, NextTask, LoopOf, Running
    <3> QED
      BY <1>2, <3>1 DEF SameMerges
  <2> QED
    BY <1>7, <2>1, <2>2, <2>3, <2>4, <2>5 DEF Integrate
<1>8. ASSUME NEW t \in Tasks, Session(t) PROVE Rest \/ UNCHANGED disk
  <2>1. CASE SessionEdit(t) \/ SessionCommit(t) \/ SessionForks(t) \/ SessionForkFails(t)
    BY <2>1 DEF SessionEdit, SessionCommit, SessionForks, SessionForkFails
  <2>2. CASE SessionSucceeds(t) \/ SessionFails(t)
    <3>1. SessionOver(t) /\ disk' = mem'
      BY <2>2 DEF SessionSucceeds, SessionFails, Save
    <3>2. pc \in Running /\ mem \in CoordinatorState /\ mem # None
          /\ mem.st[t] = "executing" /\ pc' \in Running
      BY <3>1, SessionOverFacts DEF Running
    <3>3. CASE SessionFails(t)
      <4>1. mem' = [mem EXCEPT !.st[t] = "parked", !.reason[t] = "TASK_ERROR"]
        BY <3>3 DEF SessionFails, Save
      <4> QED
        BY <1>2, <3>1, <3>2, <4>1 DEF SameMerges, CoordinatorState, Record
    <3>4. CASE SessionSucceeds(t)
      <4> DEFINE q == IF t \in Elements(mem.queue) THEN mem.queue ELSE Append(mem.queue, t)
      <4>1. mem' = [mem EXCEPT !.st[t] = "awaiting_merge", !.queue = q]
        BY <3>2, <3>4 DEF SessionSucceeds, Save, CoordinatorState, Record
      <4> HIDE DEF q
      <4> QED
        BY <1>2, <3>1, <3>2, <4>1 DEF SameMerges, CoordinatorState, Record
    <3> QED
      BY <2>2, <3>3, <3>4
  <2> QED
    BY <1>8, <2>1, <2>2 DEF Session, EndOfSession
<1>9. CASE StartCorrupted \/ Crash \/ ExternalCommit \/ RewriteBase
           \/ (\E t \in Tasks : RemoveWorktree(t)) \/ UNCHANGED vars
  BY <1>9 DEF StartCorrupted, Crash, ExternalCommit, RewriteBase, RemoveWorktree, vars
<1> QED
  BY <1>6, <1>7, <1>8, <1>9 DEF Next

(* What a merge does to the state file. *)
LEMMA MarkFacts ==
    ASSUME IInv, OInv, MarkMerged
    PROVE  /\ disk' = mem' /\ mem' # None /\ Task \in Tasks /\ Task \in InPhase(phase)
           /\ mem # None /\ mem.st[Task] = "integrating" /\ ~ Stopped
           /\ mem'.status = mem.status
           /\ \A t \in Tasks :
                /\ mem'.st[t] = IF t = Task THEN "merged" ELSE mem.st[t]
                /\ t # Task => mem'.merged[t] = mem.merged[t]
<1>1. pc = "mark" /\ pc \in Running \ {"phase"} /\ pc \in Integrating /\ pc \in Deciding
      /\ disk' = mem' /\ pc' \in Running
  BY DEF MarkMerged, At, Save, Go, Running, Integrating, Deciding
<1>2. /\ mem \in CoordinatorState /\ mem # None /\ Task \in Tasks /\ Task \in InPhase(phase)
      /\ mem.st[Task] = "integrating" /\ ~ Stopped
  BY <1>1, RunningFacts, TaskType DEF IInv, TypeOK, Control, OInv, OnlyThePhase, Going
<1>3. mem' = [mem EXCEPT !.st[Task] = "merged", !.merged[Task] = taskSha,
                         !.queue = Without(mem.queue, Task)]
  BY <1>2 DEF MarkMerged, Save, CoordinatorState, Record
<1>4. mem' # None
  <2>1. IInv'
    BY MarkMergedStep
  <2> QED
    BY <1>1, <2>1 DEF IInv, Control
<1> QED
  BY <1>1, <1>2, <1>3, <1>4 DEF CoordinatorState, Record

(* What the end of a phase does to the state file. *)
LEMMA EndPhaseFacts ==
    ASSUME IInv, OInv, EndPhase
    PROVE  /\ disk' = mem' /\ mem' # None /\ mem # None /\ ~ Stopped /\ phase \in Phases
           /\ mem'.st = mem.st /\ mem'.merged = mem.merged
           /\ mem'.status = IF AnyParked(mem, phase) THEN "stopped" ELSE mem.status
<1>1. pc \in Running \ {"phase"} /\ disk' = mem' /\ pc' \in Running
  BY DEF EndPhase, Save, Running
<1>2. mem \in CoordinatorState /\ mem # None /\ ~ Stopped /\ phase \in Phases
  BY <1>1, RunningFacts DEF OInv, Going, IInv, Control
<1>3. mem' # None
  <2>1. IInv'
    BY EndPhaseStep
  <2> QED
    BY <1>1, <2>1 DEF IInv, Control
<1> QED
  BY <1>1, <1>2, <1>3 DEF EndPhase, Save, CoordinatorState, Record

(* What the end of a run does to the state file. *)
LEMMA FinishFacts ==
    ASSUME IInv, OInv, Finish
    PROVE  /\ mem # None /\ disk # None /\ disk' # None
           /\ disk'.st = mem.st \/ disk' = disk
           /\ disk'.merged = disk.merged
           /\ \A t \in Tasks : disk'.st[t] = "merged" <=> disk.st[t] = "merged"
           /\ \/ Stopped /\ UNCHANGED disk
              \/ ~ Stopped /\ disk'.status = "all_merged"
           /\ phase = Len(Plan) + 1
<1>1. pc \in Running
  BY DEF Finish, Running
<1>2. /\ mem \in CoordinatorState /\ mem # None /\ disk # None /\ phase = Len(Plan) + 1
      /\ SameMerges(disk, mem)
  BY <1>1, RunningFacts, PhaseFacts DEF Finish, IInv, TypeOK, OInv, Synced
<1>3. CASE Stopped
  BY <1>2, <1>3 DEF Finish
<1>4. CASE ~ Stopped
  <2>1. disk' = [mem EXCEPT !.status = "all_merged"]
    BY <1>4 DEF Finish
  <2>2. disk' # None
    <3>1. "all_merged" \in RunStatus
      BY DEF RunStatus
    <3>2. disk' \in CoordinatorState
      BY <1>2, <2>1, <3>1, FinishUpdate
    <3> QED
      BY <3>2, NoneAssumption
  <2> QED
    BY <1>2, <1>4, <2>1, <2>2 DEF SameMerges, CoordinatorState, Record
<1> QED
  BY <1>3, <1>4

(* If the queue is right, a run that gets past its last phase without a    *)
(* stop has merged every task.                                             *)
LEMMA FinishMeansAll ==
    ASSUME QueueIsRight, IInv, OInv, Finish, ~ Stopped, NEW t \in Tasks
    PROVE  mem.st[t] = "merged" /\ disk.st[t] = "merged"
<1>1. phase = Len(Plan) + 1 /\ mem # None /\ Len(Plan) \in Nat
  BY FinishFacts, PlanAssumption
<1>2. PICK p \in Phases : t \in InPhase(p)
  BY PlanAssumption
<1>3. p \in 1..(phase - 1)
  BY <1>1 DEF Phases
<1>4. mem.st[t] = "merged"
  BY <1>1, <1>2, <1>3 DEF OInv, Landed, AllMerged
<1> QED
  BY <1>1, <1>4 DEF OInv, Synced, SameMerges

-----------------------------------------------------------------------------
(* What a run reports, and what it promises.                               *)

(* The status all_merged of the state file means that every task is        *)
(* merged, for every plan - as long as no task that waited for its merge   *)
(* is retried in parallel mode: then it need not be so.                    *)
THEOREM AllMergedIsTrue ==
    ASSUME QueueIsRight
    PROVE  Spec => []AllMergedIsAll
<1>1. Init => AllMergedIsAll
  BY DEF Init, AllMergedIsAll
<1>2. AllMergedIsAll /\ IInv /\ IInv' /\ OInv /\ OInv' /\ [Next]_vars => AllMergedIsAll'
  <2> SUFFICES ASSUME AllMergedIsAll, IInv, IInv', OInv, OInv', [Next]_vars,
                      disk' # None, disk'.status = "all_merged", NEW t \in Tasks
               PROVE  disk'.st[t] = "merged"
    BY DEF AllMergedIsAll
  <2>1. CASE UNCHANGED disk
    BY <2>1 DEF AllMergedIsAll
  <2>2. ASSUME disk' = mem', mem' # None PROVE FALSE
    BY <2>2 DEF OInv, Going
  <2>3. CASE StartFresh \/ StartResume
    <3>1. disk' = mem' /\ pc' \in Running
      BY <2>3 DEF StartFresh, StartResume, Begin, Save, Running
    <3> QED
      BY <2>2, <3>1 DEF IInv, Control
  <2>4. CASE MarkMerged
    BY <2>2, <2>4, MarkFacts
  <2>5. CASE EndPhase
    BY <2>2, <2>5, EndPhaseFacts
  <2>6. CASE Finish
    <3>1. CASE Stopped
      BY <2>1, <2>6, <3>1, FinishFacts
    <3>2. CASE ~ Stopped
      BY <2>6, <3>2, FinishFacts, FinishMeansAll
    <3> QED
      BY <3>1, <3>2
  <2> QED
    BY <2>1, <2>2, <2>3, <2>4, <2>5, <2>6, Footprint
<1> QED
  BY <1>1, <1>2, Invariance, OrderInvariance, PTL DEF Spec

(* The phases and the tasks before a task, in the words of PhasedMerge. *)
LEMMA PromisedOrder ==
    ASSUME NEW p \in Phases, NEW t \in InPhase(p)
    PROVE  /\ Promise!Before(t) = EarlierThan(t)
           /\ \A u \in EarlierThan(t) :
                 u \in Tasks /\ \E q \in 1..(p - 1) : u \in InPhase(q)
<1>1. Promise!Before(t) = EarlierThan(t)
  BY DEF Promise!Before, Promise!TasksOf, EarlierThan, InPhase, Phases
<1>2. ASSUME NEW u \in EarlierThan(t)
      PROVE  u \in Tasks /\ \E q \in 1..(p - 1) : u \in InPhase(q)
  <2>1. PICK q \in Phases : /\ u \in InPhase(q)
                            /\ \E r \in Phases : q < r /\ t \in InPhase(r)
    BY DEF EarlierThan
  <2>2. PICK r \in Phases : q < r /\ t \in InPhase(r)
    BY <2>1
  <2>3. r = p
    BY <2>2, PhaseFacts
  <2>4. q \in 1..(p - 1) /\ u \in Tasks
    BY <2>1, <2>2, <2>3, PhaseFacts, PlanAssumption DEF Phases
  <2> QED
    BY <2>1, <2>4
<1> QED
  BY <1>1, <1>2

(* The coordinator does what PhasedMerge promises, for every plan: each of *)
(* its steps, crashes and restarts among them, is one that PhasedMerge     *)
(* allows, or does not show in the state file.                             *)
THEOREM KeepsThePromise ==
    ASSUME QueueIsRight
    PROVE  Spec => ImplementsPhasedMerge
<1> DEFINE landed == IF disk = None THEN {} ELSE {t \in Tasks : disk.st[t] = "merged"}
           outcome == IF disk = None THEN "none" ELSE disk.status
<1>1. Init => Promise!Init
  BY DEF Init, Promise!Init
<1>2. IInv /\ IInv' /\ OInv /\ [Next]_vars => [Promise!Next]_(Promise!vars)
  <2> SUFFICES ASSUME IInv, IInv', OInv, [Next]_vars
               PROVE  Promise!Next \/ UNCHANGED <<landed, outcome>>
    BY DEF Promise!vars
  <2>1. CASE UNCHANGED disk
    BY <2>1
  <2>2. ASSUME NEW s \in CoordinatorState, NEW m, Begin(s, m), s.status = "in_progress",
               {t \in Tasks : s.st[t] = "merged"} \in {landed, {}}
        PROVE  Promise!Next
    <3>1. disk' = s /\ s # None
      BY <2>2, NoneAssumption DEF Begin, Save
    <3>2. landed' \in {landed, {}} /\ outcome' = "in_progress"
      BY <2>2, <3>1
    <3> HIDE DEF landed, outcome
    <3> QED
      BY <3>2 DEF Promise!Next, Promise!Begin, landed, outcome
  <2>3. CASE StartFresh
    <3>1. PICK m \in Modes : Begin(FreshState, m)
      BY <2>3 DEF StartFresh
    <3>2. /\ FreshState \in CoordinatorState /\ FreshState.status = "in_progress"
          /\ {t \in Tasks : FreshState.st[t] = "merged"} = {}
      BY FreshType DEF FreshState
    <3> QED
      BY <2>2, <3>1, <3>2
  <2>4. CASE StartResume
    <3>1. PICK retry \in RetrySets, m \in Modes : disk # None /\ Begin(Resumed(disk, retry), m)
      BY <2>4 DEF StartResume
    <3>2. /\ disk \in CoordinatorState
          /\ Resumed(disk, retry) \in CoordinatorState
          /\ SameMerges(disk, Resumed(disk, retry))
      BY <3>1, ResumedType DEF IInv, TypeOK
    <3>3. Resumed(disk, retry).status = "in_progress"
      BY <3>2 DEF Resumed, CoordinatorState, Record
    <3>4. {t \in Tasks : Resumed(disk, retry).st[t] = "merged"} = landed
      BY <3>1, <3>2 DEF SameMerges
    <3> QED
      BY <2>2, <3>1, <3>2, <3>3, <3>4
  <2>5. ASSUME mem # None
        PROVE  /\ disk # None /\ disk.status = mem.status
               /\ landed = {t \in Tasks : mem.st[t] = "merged"} /\ outcome = mem.status
               /\ ~ Stopped => outcome = "in_progress"
    <3>1. disk # None /\ SameMerges(disk, mem) /\ disk.status = mem.status
      BY <2>5 DEF IInv, Control, OInv, Synced
    <3>2. mem.status \in RunStatus \ {"all_merged"}
      BY <2>5, FieldTypes DEF IInv, TypeOK, OInv, Going
    <3> QED
      BY <3>1, <3>2 DEF SameMerges, RunStatus, Stopped
  <2>6. CASE MarkMerged
    <3>1. PICK t \in Tasks : t = Task
      BY <2>6, MarkFacts
    <3>2. landed' = landed \cup {t} /\ UNCHANGED outcome /\ outcome = "in_progress"
      BY <2>5, <2>6, <3>1, MarkFacts
    <3>3. Promise!Before(t) \subseteq landed
      <4>1. /\ mem # None /\ ~ Stopped /\ phase \in Phases /\ t \in InPhase(phase)
        BY <2>6, <3>1, MarkFacts DEF MarkMerged, At, IInv, Control, Running
      <4>2. \A u \in EarlierThan(t) : u \in Tasks /\ mem.st[u] = "merged"
        BY <4>1, PromisedOrder DEF OInv, Landed, AllMerged
      <4> QED
        BY <2>5, <4>1, <4>2, PromisedOrder
    <3> HIDE DEF landed, outcome
    <3>4. Promise!Land(t)
      BY <3>2, <3>3 DEF Promise!Land, landed, outcome
    <3> QED
      BY <3>4 DEF Promise!Next
  <2>7. CASE EndPhase
    <3>1. /\ mem # None /\ mem' # None /\ disk' = mem' /\ ~ Stopped /\ phase \in Phases
          /\ mem'.st = mem.st
          /\ mem'.status = IF AnyParked(mem, phase) THEN "stopped" ELSE mem.status
      BY <2>7, EndPhaseFacts
    <3>2. UNCHANGED landed /\ outcome = "in_progress"
      BY <2>5, <3>1
    <3>3. CASE AnyParked(mem, phase)
      <4>1. outcome' = "stopped"
        BY <3>1, <3>3
      <4>2. landed # Tasks
        BY <2>5, <3>1, <3>3, PhaseFacts DEF AnyParked
      <4> HIDE DEF landed, outcome
      <4> QED
        BY <3>2, <4>1, <4>2 DEF Promise!Next, Promise!Stop, landed, outcome
    <3>4. CASE ~ AnyParked(mem, phase)
      BY <2>5, <3>1, <3>2, <3>4
    <3> QED
      BY <3>3, <3>4
  <2>8. CASE Finish
    <3>1. CASE Stopped
      BY <2>1, <2>8, <3>1, FinishFacts
    <3>2. CASE ~ Stopped
      <4>1. /\ outcome' = "all_merged" /\ UNCHANGED landed /\ mem # None
        BY <2>8, <3>2, FinishFacts
      <4>2. landed = Tasks /\ outcome = "in_progress"
        BY <2>5, <2>8, <3>2, <4>1, FinishMeansAll
      <4> HIDE DEF landed, outcome
      <4> QED
        BY <4>1, <4>2 DEF Promise!Next, Promise!Succeed, landed, outcome
    <3> QED
      BY <3>1, <3>2
  <2>9. CASE /\ mem # None /\ mem' # None /\ disk' = mem'
             /\ SameMerges(mem, mem') /\ mem'.status = mem.status
    BY <2>5, <2>9 DEF SameMerges
  <2> QED
    BY <2>1, <2>3, <2>4, <2>6, <2>7, <2>8, <2>9, Footprint
<1> QED
  BY <1>1, <1>2, Invariance, OrderInvariance, PTL
     DEF Spec, ImplementsPhasedMerge, Promise!Spec

-----------------------------------------------------------------------------
(* What a worktree starts from.                                            *)

(* Every worktree there is contains the work its task depends on, and the  *)
(* state file calls that work merged.                                      *)
Based ==
    \A t \in wt : \A u \in EarlierThan(t) :
        disk # None /\ disk.st[u] = "merged" /\ disk.merged[u] \subseteq branch[t]

(* Unless a user starts afresh over a state file, no merge is forgotten.   *)
LEMMA MergesAreKept ==
    ASSUME ResumeFlags \subseteq {TRUE}, IInv, OInv, [Next]_vars,
           NEW u \in Tasks, disk # None, disk.st[u] = "merged"
    PROVE  disk' # None /\ disk'.st[u] = "merged" /\ disk'.merged[u] = disk.merged[u]
<1>1. mem # None => mem.st[u] = "merged" /\ mem.merged[u] = disk.merged[u]
  BY DEF OInv, Synced, SameMerges
<1>2. CASE StartFresh
  BY <1>2 DEF StartFresh, Start
<1>3. CASE StartResume
  <2>1. PICK retry \in RetrySets, m \in Modes : Begin(Resumed(disk, retry), m)
    BY <1>3 DEF StartResume
  <2>2. /\ disk' = Resumed(disk, retry) /\ disk' \in CoordinatorState
        /\ SameMerges(disk, disk')
    BY <2>1, ResumedType DEF Begin, Save, IInv, TypeOK
  <2> QED
    BY <2>2, NoneAssumption DEF SameMerges
<1>4. CASE MarkMerged
  BY <1>1, <1>4, MarkFacts
<1>5. CASE EndPhase
  BY <1>1, <1>5, EndPhaseFacts
<1>6. CASE Finish
  BY <1>6, FinishFacts
<1>7. CASE /\ mem # None /\ mem' # None /\ disk' = mem'
           /\ SameMerges(mem, mem') /\ mem'.status = mem.status
  BY <1>1, <1>7 DEF SameMerges
<1> QED
  BY <1>2, <1>3, <1>4, <1>5, <1>6, <1>7, Footprint

(* A step either forks a worktree for a task of the phase that runs, or    *)
(* takes no commit off the branch of any worktree that stays.              *)
LEMMA WorktreeSteps ==
    ASSUME IInv, OInv, [Next]_vars
    PROVE  \/ \A t \in wt' : t \in wt /\ branch[t] \subseteq branch'[t]
           \/ /\ pc \in Running \ {"phase"} /\ UNCHANGED disk
              /\ \E t \in InPhase(phase) : Fork(t)
<1> USE DEF git
<1> DEFINE Stay == \A t \in wt' : t \in wt /\ branch[t] \subseteq branch'[t]
<1>1. branch \in [Tasks -> Commit \cup {None}] /\ wt \subseteq Tasks
  BY DEF IInv, TypeOK
<1>2. CASE UNCHANGED <<wt, branch>>
  BY <1>2
<1>3. CASE Prefork
  <2>1. pc \in Running \ {"phase"} /\ UNCHANGED disk /\ Task \in InPhase(phase)
    <3>1. pc = "prefork" /\ todo # <<>> /\ UNCHANGED disk
      BY <1>3 DEF Prefork
    <3>2. Task \in Elements(todo)
      BY <3>1, TailElements DEF IInv, TypeOK, Task
    <3> QED
      BY <3>1, <3>2 DEF Running, OInv, OnlyThePhase
  <2> QED
    BY <1>2, <1>3, <2>1 DEF Prefork
<1>4. ASSUME NEW t \in Tasks, Session(t)
      PROVE  \/ Stay
             \/ /\ pc \in Running \ {"phase"} /\ UNCHANGED disk
                /\ \E u \in InPhase(phase) : Fork(u)
  <2>1. CASE SessionForks(t)
    BY <2>1 DEF SessionForks, RunningSessions, Running, OInv, OnlyThePhase
  <2>2. CASE SessionCommit(t)
    BY <1>1, <2>2 DEF SessionCommit, InSession
  <2>3. CASE SessionEdit(t) \/ SessionForkFails(t) \/ SessionSucceeds(t) \/ SessionFails(t)
    BY <1>2, <2>3 DEF SessionEdit, SessionForkFails, SessionSucceeds, SessionFails,
       SessionOver, InSession
  <2> QED
    BY <1>4, <2>1, <2>2, <2>3 DEF Session, EndOfSession
<1>5. CASE Loop
  BY <1>2, <1>3, <1>5 DEF Loop, SkipMergedPhase, SkipAfterStop, BeginPhase, Finish, AtPhase,
     PreforkFails, Preforked, EndPhase, Visit, PassOver, SkipPending, Dispatch,
     SessionsOver, StartIntegrate
<1>6. CASE Integrate
  <2>1. CASE Rebase
    BY <1>1, <2>1 DEF Rebase, AtRebase
  <2>2. CASE CleanWorktree
    BY <1>1, <2>2 DEF CleanWorktree
  <2>3. CASE CleanBranch
    BY <1>1, <2>3 DEF CleanBranch
  <2>4. CASE ReadRefs \/ NoBranch \/ CompareAndSwap \/ LoseRace \/ RebaseConflicts
             \/ RebaseRefused \/ AbortFails \/ ReverifyPasses \/ ReverifyFails \/ MarkMerged
    BY <1>2, <2>4 DEF ReadRefs, NoBranch, CompareAndSwap, LoseRace, RebaseConflicts,
       RebaseRefused, AbortFails, ReverifyPasses, ReverifyFails, MarkMerged, AtRebase,
       AtVerify
  <2> QED
    BY <1>6, <2>1, <2>2, <2>3, <2>4 DEF Integrate
<1>7. CASE StartFresh \/ StartResume \/ StartCorrupted \/ Crash \/ ExternalCommit
           \/ RewriteBase \/ UNCHANGED vars
  BY <1>2, <1>7 DEF StartFresh, StartResume, StartCorrupted, Begin, Crash, ExternalCommit,
     RewriteBase, vars
<1>8. ASSUME NEW t \in Tasks, RemoveWorktree(t) PROVE Stay
  BY <1>1, <1>8 DEF RemoveWorktree
<1> QED
  BY <1>4, <1>5, <1>6, <1>7, <1>8 DEF Next

(* Each step keeps every worktree on what its task depends on. *)
LEMMA BasedStep ==
    ASSUME QueueIsRight, ResumeFlags \subseteq {TRUE},
           IInv, OInv, Based, [Next]_vars
    PROVE  Based'
<1> SUFFICES ASSUME NEW t \in wt', NEW u \in EarlierThan(t)
             PROVE  disk' # None /\ disk'.st[u] = "merged" /\ disk'.merged[u] \subseteq branch'[t]
  BY DEF Based
<1>1. u \in Tasks
  <2>1. PICK q \in Phases : u \in InPhase(q)
    BY DEF EarlierThan
  <2> QED
    BY <2>1, PhaseFacts
<1>2. CASE t \in wt /\ branch[t] \subseteq branch'[t]
  BY <1>1, <1>2, MergesAreKept DEF Based
<1>3. CASE pc \in Running \ {"phase"} /\ UNCHANGED disk /\ \E x \in InPhase(phase) : Fork(x)
  <2>1. PICK x \in InPhase(phase) : Fork(x)
    BY <1>3
  <2>2. /\ mem # None /\ disk # None /\ phase \in Phases /\ ~ Stopped
        /\ MergesIntact(disk, base) /\ SameMerges(disk, mem)
    BY <1>3, RunningFacts DEF IInv, Control, OInv, Going, Synced
  <2>3. x \in Tasks
    BY <2>2, PhaseFacts
  <2>4. CASE t = x
    <3>1. PICK q \in 1..(phase - 1) : u \in InPhase(q)
      BY <2>2, <2>4, PromisedOrder
    <3>2. mem.st[u] = "merged"
      BY <2>2, <3>1 DEF OInv, Landed, AllMerged
    <3>3. disk.st[u] = "merged" /\ disk.merged[u] \subseteq base
      BY <1>1, <2>2, <3>2 DEF SameMerges, MergesIntact
    <3>4. branch'[t] = base
      BY <2>1, <2>3, <2>4 DEF Fork, IInv, TypeOK
    <3> QED
      BY <1>3, <2>2, <3>3, <3>4
  <2>5. CASE t # x
    <3>1. t \in wt /\ branch'[t] = branch[t]
      BY <2>1, <2>5 DEF Fork, IInv, TypeOK
    <3> QED
      BY <1>3, <3>1 DEF Based
  <2> QED
    BY <2>4, <2>5
<1> QED
  BY <1>2, <1>3, WorktreeSteps

(* AC-1, for every plan: the worktree in which a session runs contains the *)
(* merged work of all the tasks of the earlier phases, however many runs   *)
(* it has lived through - as long as no run starts afresh over it.         *)
THEOREM SessionsSeeTheirDependencies ==
    ASSUME QueueIsRight, ResumeFlags \subseteq {TRUE}
    PROVE  Spec => []DependenciesVisible
<1>1. Init => Based
  BY DEF Init, Based
<1>2. Based /\ IInv /\ OInv /\ [Next]_vars => Based'
  BY BasedStep
<1>3. IInv /\ OInv /\ Based => DependenciesVisible
  <2> SUFFICES ASSUME IInv, OInv, Based, NEW t \in sessions \cap wt, NEW u \in EarlierThan(t)
               PROVE  mem.merged[u] \subseteq branch[t]
    BY DEF DependenciesVisible
  <2>1. disk = mem
    BY DEF IInv, Control, OInv, Synced
  <2> QED
    BY <2>1 DEF Based
<1> QED
  BY <1>1, <1>2, <1>3, Invariance, OrderInvariance, PTL DEF Spec

-----------------------------------------------------------------------------
(* Park reasons, and the tasks whose work the coordinator has to integrate. *)

(* A session has handed the work of the task over, and it was not given up *)
(* for another reason than its integration.                                *)
Handed(s, t) == s.st[t] \in Unfinished \/ s.reason[t] \in IntegrationParks

(* Where a park reason REBASE_CONFLICT, and the state of a task that is to *)
(* be integrated, come from.                                               *)
LEMMA RecordSteps ==
    ASSUME IInv, OInv, [Next]_vars, NEW t \in Tasks,
           NEW s \in {mem', disk'}, s # None
    PROVE  /\ s.reason[t] = "REBASE_CONFLICT" =>
                \/ (RebaseConflicts \/ RebaseRefused) /\ t = Task
                \/ \E r \in {mem, disk} : r # None /\ r.reason[t] = "REBASE_CONFLICT"
           /\ Handed(s, t) =>
                \/ SessionSucceeds(t)
                \/ \E r \in {mem, disk} : r # None /\ Handed(r, t)
<1> DEFINE Claim ==
        /\ s.reason[t] = "REBASE_CONFLICT" =>
             \/ (RebaseConflicts \/ RebaseRefused) /\ t = Task
             \/ \E r \in {mem, disk} : r # None /\ r.reason[t] = "REBASE_CONFLICT"
        /\ Handed(s, t) =>
             \/ SessionSucceeds(t)
             \/ \E r \in {mem, disk} : r # None /\ Handed(r, t)
<1>1. ASSUME NEW r \in {mem, disk}, r # None,
             s.reason[t] = r.reason[t] \/ s.reason[t] \in {None, "TASK_ERROR"},
             s.st[t] = r.st[t] \/ s.st[t] \notin Unfinished \/ Handed(r, t)
      PROVE  Claim
  <2>1. /\ None \notin IntegrationParks /\ "TASK_ERROR" \notin IntegrationParks
        /\ None # "REBASE_CONFLICT"
    BY NoneAssumption DEF IntegrationParks, ParkReason
  <2> QED
    BY <1>1, <2>1 DEF Handed
<1>2. CASE UNCHANGED <<mem, disk>>
  BY <1>1, <1>2
<1>3. ASSUME mem' = None, UNCHANGED disk PROVE Claim
  BY <1>1, <1>3
<1>4. ASSUME pc \in Running PROVE mem \in CoordinatorState /\ mem # None
  BY <1>4, RunningFacts
<1>5. ASSUME NEW x \in {"skipped", "executing"} \cup Unfinished, mem \in CoordinatorState, mem # None,
             disk' \in {disk, mem'}, Task \in Tasks, mem' = [mem EXCEPT !.st[Task] = x],
             x \in Unfinished => Handed(mem, Task)
      PROVE  Claim
  <2>1. CASE s = disk
    BY <1>1, <2>1
  <2>2. CASE s = mem'
    BY <1>1, <1>5, <2>2 DEF CoordinatorState, Record, Unfinished
  <2> QED
    BY <1>5, <2>1, <2>2
<1>6. ASSUME mem \in CoordinatorState, mem # None, disk' \in {disk, mem'},
             mem'.st = mem.st, mem'.reason = mem.reason
      PROVE  Claim
  BY <1>1, <1>6
<1>7. ASSUME NEW why \in IntegrationParks, why = "REBASE_CONFLICT" => RebaseConflicts \/ RebaseRefused,
             pc \in Deciding, NEW r \in CoordinatorState, r.st = mem.st, r.reason = mem.reason,
             mem' = [r EXCEPT !.st[Task] = "parked", !.reason[Task] = why,
                              !.queue = Without(r.queue, Task)],
             disk' = mem'
      PROVE  Claim
  <2>1. pc \in Running /\ pc \in Integrating
    BY <1>7 DEF Deciding, Integrating, Running
  <2>2. /\ mem.st[Task] = "integrating" /\ Task \in Tasks /\ mem \in CoordinatorState
        /\ mem # None
    BY <1>4, <1>7, <2>1, TaskType DEF IInv, TypeOK, Control
  <2>3. /\ s = mem'
        /\ s.st[t] = (IF t = Task THEN "parked" ELSE mem.st[t])
        /\ s.reason[t] = (IF t = Task THEN why ELSE mem.reason[t])
    <3>1. s = mem'
      BY <1>7
    <3>2. /\ mem'.st = [r.st EXCEPT ![Task] = "parked"]
          /\ mem'.reason = [r.reason EXCEPT ![Task] = why]
      BY <1>7 DEF CoordinatorState, Record
    <3>3. r.st \in [Tasks -> TaskState] /\ r.reason \in [Tasks -> ParkReason \cup {None}]
      BY <1>7, FieldTypes
    <3> QED
      BY <1>7, <2>2, <3>1, <3>2, <3>3
  <2>4. CASE t = Task
    <3>1. Handed(mem, t)
      BY <2>2, <2>4 DEF Handed, Unfinished
    <3> QED
      BY <1>7, <2>2, <2>3, <2>4, <3>1
  <2>5. CASE t # Task
    BY <1>1, <2>2, <2>3, <2>5
  <2> QED
    BY <2>4, <2>5
<1>8. ASSUME pc \in Deciding, NEW why \in IntegrationParks, Park(why),
             why = "REBASE_CONFLICT" => RebaseConflicts \/ RebaseRefused
      PROVE  Claim
  <2>1. mem \in CoordinatorState
    BY <1>4, <1>8 DEF Deciding, Running
  <2>2. disk' = mem' /\ mem' = [mem EXCEPT !.st[Task] = "parked", !.reason[Task] = why,
                                           !.queue = Without(mem.queue, Task)]
    BY <1>8, <2>1 DEF Park, Save, CoordinatorState, Record
  <2> QED
    BY <1>7, <1>8, <2>1, <2>2
<1>9. ASSUME pc \in Deciding, Requeue PROVE Claim
  <2>1. /\ mem \in CoordinatorState /\ mem # None /\ Task \in Tasks /\ attempts + 1 \in Nat
        /\ "MERGE_NOT_FF" \in IntegrationParks
    BY <1>4, <1>9, TaskType DEF Deciding, Running, Integrating, IInv, TypeOK, Control,
       IntegrationParks
  <2> DEFINE r == [mem EXCEPT !.requeue[Task] = attempts + 1]
  <2>2. r \in CoordinatorState /\ r.st = mem.st /\ r.reason = mem.reason
    BY <2>1, RequeueUpdate DEF CoordinatorState, Record
  <2>3. \/ mem' = [r EXCEPT !.st[Task] = "parked", !.reason[Task] = "MERGE_NOT_FF",
                            !.queue = Without(@, Task)]
        \/ mem' = r
    BY <1>9 DEF Requeue, Save
  <2>4. disk' = mem'
    BY <1>9 DEF Requeue, Save
  <2> HIDE DEF r
  <2>5. CASE mem' = r
    BY <1>6, <2>1, <2>2, <2>4, <2>5
  <2>6. CASE mem' # r
    <3>1. mem' = [r EXCEPT !.st[Task] = "parked", !.reason[Task] = "MERGE_NOT_FF",
                           !.queue = Without(r.queue, Task)]
      BY <2>2, <2>3, <2>6 DEF CoordinatorState, Record
    <3> QED
      BY <1>7, <1>9, <2>1, <2>2, <2>4, <3>1
  <2> QED
    BY <2>5, <2>6
<1>10. CASE Loop
  <2>1. CASE PassOver \/ SessionsOver
    BY <1>2, <2>1 DEF PassOver, SessionsOver
  <2>2. CASE PreforkFails
    BY <1>3, <2>2 DEF PreforkFails, Exit
  <2>3. CASE Finish
    <3>1. mem \in CoordinatorState /\ mem # None /\ mem' = None
      BY <1>4, <2>3 DEF Finish, Exit, Running
    <3>2. CASE s = disk
      BY <1>1, <3>2
    <3>3. CASE s # disk
      <4>1. s = [mem EXCEPT !.status = "all_merged"]
        BY <2>3, <3>1, <3>3 DEF Finish
      <4>2. s.st = mem.st /\ s.reason = mem.reason
        BY <3>1, <4>1 DEF CoordinatorState, Record
      <4> QED
        BY <1>1, <3>1, <4>2
    <3> QED
      BY <3>2, <3>3
  <2>4. CASE SkipMergedPhase \/ BeginPhase \/ EndPhase
    <3>1. mem \in CoordinatorState /\ mem # None
      BY <1>4, <2>4 DEF SkipMergedPhase, BeginPhase, AtPhase, EndPhase, Running
    <3>2. mem'.st = mem.st /\ mem'.reason = mem.reason /\ disk' \in {disk, mem'}
      BY <2>4, <3>1 DEF SkipMergedPhase, BeginPhase, EndPhase, Save, CoordinatorState, Record
    <3> QED
      BY <1>6, <3>1, <3>2
  <2>5. CASE SkipAfterStop
    <3>1. mem \in CoordinatorState /\ mem # None
      BY <1>4, <2>5 DEF SkipAfterStop, AtPhase, Running
    <3>2. /\ disk' = mem' /\ mem'.reason = mem.reason
          /\ mem'.st[t] = mem.st[t] \/ mem'.st[t] = "skipped"
      BY <2>5, <3>1 DEF SkipAfterStop, Save, CoordinatorState, Record
    <3> QED
      BY <1>1, <3>1, <3>2 DEF Unfinished
  <2>6. CASE Preforked
    <3>1. mem \in CoordinatorState /\ mem # None
      BY <1>4, <2>6 DEF Preforked, Running
    <3>2. CASE mem' = mem
      BY <1>6, <2>6, <3>1, <3>2 DEF Preforked, Save
    <3>3. CASE mem' # mem
      <4>1. disk' = mem' /\ mem' = [mem EXCEPT !.st = [u \in Tasks |->
               IF u \in {v \in InPhase(phase) : mem.st[v] \in {"pending", "executing"}}
               THEN "executing" ELSE mem.st[u]]]
        BY <2>6, <3>3 DEF Preforked, Save
      <4>2. mem'.reason = mem.reason /\ mem'.st[t] \in {mem.st[t], "executing"}
        BY <3>1, <4>1 DEF CoordinatorState, Record
      <4> QED
        BY <1>1, <3>1, <4>1, <4>2 DEF Unfinished
    <3> QED
      BY <3>2, <3>3
  <2>7. CASE Prefork
    <3>1. /\ mem \in CoordinatorState /\ mem # None /\ UNCHANGED disk /\ Task \in Tasks
      BY <1>4, <2>7, TaskType DEF Prefork, Running, IInv, TypeOK
    <3>2. CASE mem' = mem
      BY <1>2, <3>1, <3>2
    <3>3. CASE mem' = [mem EXCEPT !.st[Task] = "parked", !.reason[Task] = "TASK_ERROR"]
      <4>1. CASE s = disk
        BY <1>1, <4>1
      <4>2. CASE s = mem'
        <5>1. /\ s.reason[t] = mem.reason[t] \/ s.reason[t] = "TASK_ERROR"
              /\ s.st[t] = mem.st[t] \/ s.st[t] = "parked"
          BY <3>1, <3>3, <4>2 DEF CoordinatorState, Record
        <5> QED
          BY <1>1, <3>1, <5>1 DEF Unfinished
      <4> QED
        BY <3>1, <4>1, <4>2
    <3> QED
      BY <2>7, <3>2, <3>3 DEF Prefork
  <2>8. CASE SkipPending \/ Dispatch \/ StartIntegrate
    <3>1. /\ disk' = mem' /\ pc \in Running /\ todo # <<>>
          /\ \E x \in {"skipped", "executing"} \cup Unfinished :
                /\ mem' = [mem EXCEPT !.st[Task] = x]
                /\ x \in Unfinished => Handed(mem, Task)
      BY <2>8 DEF SkipPending, Dispatch, StartIntegrate, Visit, Unintegrated, LoopOf, Save,
         Running, Handed, Unfinished
    <3>2. Task \in Tasks /\ mem \in CoordinatorState /\ mem # None
      BY <1>4, <3>1, TaskType DEF IInv, TypeOK
    <3> QED
      BY <1>5, <3>1, <3>2
  <2> QED
    BY <1>10, <2>1, <2>2, <2>3, <2>4, <2>5, <2>6, <2>7, <2>8 DEF Loop
<1>11. CASE Integrate
  <2>1. CASE ReadRefs
    <3>1. pc \in Deciding /\ "MERGE_NOT_FF" \in IntegrationParks
      BY <2>1 DEF ReadRefs, At, Deciding, IntegrationParks
    <3> QED
      BY <1>2, <1>3, <1>8, <2>1, <3>1 DEF ReadRefs, GitError, Exit
  <2>2. CASE NoBranch \/ AbortFails
    BY <1>3, <2>2 DEF NoBranch, AbortFails, GitError, Exit
  <2>3. CASE CompareAndSwap \/ Rebase \/ CleanWorktree
    BY <1>2, <2>3 DEF CompareAndSwap, Rebase, CleanWorktree
  <2>4. CASE LoseRace \/ ReverifyPasses
    BY <1>9, <2>4 DEF LoseRace, ReverifyPasses, AtVerify, At, Deciding
  <2>5. CASE RebaseConflicts \/ RebaseRefused \/ ReverifyFails
    <3>1. /\ pc \in Deciding
          /\ \E why \in IntegrationParks :
                /\ Park(why)
                /\ why = "REBASE_CONFLICT" => RebaseConflicts \/ RebaseRefused
      BY <2>5 DEF RebaseConflicts, RebaseRefused, ReverifyFails, AtRebase, AtVerify,
         At, Deciding, IntegrationParks
    <3> QED
      BY <1>8, <3>1
  <2>6. CASE CleanBranch
    <3>1. disk' = mem' /\ mem' = mem /\ pc \in Running
      BY <2>6 DEF CleanBranch, At, Save, Running
    <3> QED
      BY <1>4, <1>6, <3>1
  <2>7. CASE MarkMerged
    <3>1. /\ pc \in Running /\ pc \in Integrating /\ disk' = mem' /\ mem \in CoordinatorState
          /\ mem # None
      BY <1>4, <2>7 DEF MarkMerged, At, Save, Running, Integrating, Deciding
    <3>2. mem' = [mem EXCEPT !.st[Task] = "merged", !.merged[Task] = taskSha,
                             !.queue = Without(mem.queue, Task)]
      BY <2>7, <3>1 DEF MarkMerged, Save, CoordinatorState, Record
    <3>3. mem'.reason = mem.reason /\ (mem'.st[t] = mem.st[t] \/ mem'.st[t] = "merged")
      BY <3>1, <3>2 DEF CoordinatorState, Record
    <3> QED
      BY <1>1, <3>1, <3>3 DEF Unfinished
  <2> QED
    BY <1>11, <2>1, <2>2, <2>3, <2>4, <2>5, <2>6, <2>7 DEF Integrate
<1>12. ASSUME NEW u \in Tasks, Session(u) PROVE Claim
  <2>1. CASE SessionEdit(u) \/ SessionCommit(u) \/ SessionForks(u)
    BY <1>2, <2>1 DEF SessionEdit, SessionCommit, SessionForks
  <2>2. CASE SessionForkFails(u)
    BY <1>3, <2>2 DEF SessionForkFails, Exit
  <2>3. CASE SessionFails(u)
    <3>1. /\ disk' = mem' /\ mem \in CoordinatorState /\ mem # None
          /\ mem' = [mem EXCEPT !.st[u] = "parked", !.reason[u] = "TASK_ERROR"]
      BY <2>3, SessionOverFacts DEF SessionFails, Save
    <3>2. /\ mem'.reason[t] = mem.reason[t] \/ mem'.reason[t] = "TASK_ERROR"
          /\ mem'.st[t] = mem.st[t] \/ mem'.st[t] = "parked"
      BY <3>1 DEF CoordinatorState, Record
    <3> QED
      BY <1>1, <3>1, <3>2 DEF Unfinished
  <2>4. CASE SessionSucceeds(u)
    <3> DEFINE q == IF u \in Elements(mem.queue) THEN mem.queue ELSE Append(mem.queue, u)
    <3>1. disk' = mem' /\ mem \in CoordinatorState /\ mem # None
      BY <2>4, SessionOverFacts DEF SessionSucceeds, Save
    <3>2. mem' = [mem EXCEPT !.st[u] = "awaiting_merge", !.queue = q]
      BY <2>4, <3>1 DEF SessionSucceeds, Save, CoordinatorState, Record
    <3> HIDE DEF q
    <3>3. mem'.reason = mem.reason /\ (t # u => mem'.st[t] = mem.st[t])
      BY <3>1, <3>2 DEF CoordinatorState, Record
    <3>4. CASE t = u
      BY <2>4, <3>1, <3>3, <3>4
    <3>5. CASE t # u
      BY <1>1, <3>1, <3>3, <3>5
    <3> QED
      BY <3>4, <3>5
  <2> QED
    BY <1>12, <2>1, <2>2, <2>3, <2>4 DEF Session, EndOfSession
<1>13. CASE StartFresh
  <2>1. s = FreshState
    BY <1>13 DEF StartFresh, Begin, Save
  <2>2. s.reason[t] = None /\ s.st[t] = "pending"
    BY <2>1 DEF FreshState
  <2>3. None \notin IntegrationParks /\ None # "REBASE_CONFLICT"
    BY NoneAssumption DEF IntegrationParks, ParkReason
  <2> QED
    BY <2>2, <2>3 DEF Handed, Unfinished
<1>14. CASE StartResume
  <2>1. PICK retry \in RetrySets : disk # None /\ s = Resumed(disk, retry)
    BY <1>14 DEF StartResume, Begin, Save
  <2>2. disk \in CoordinatorState
    BY <2>1 DEF IInv, TypeOK
  <2>3. /\ s.reason[t] = disk.reason[t] \/ s.reason[t] = None
        /\ \/ s.st[t] \in {disk.st[t], "pending"}
           \/ s.st[t] = "awaiting_merge" /\ disk.reason[t] \in IntegrationParks
    BY <2>1, <2>2 DEF Resumed, CoordinatorState, Record
  <2> QED
    BY <1>1, <2>1, <2>3 DEF Handed, Unfinished
<1>15. CASE StartCorrupted \/ Crash
  BY <1>3, <1>15 DEF StartCorrupted, Crash, Exit
<1>16. CASE ExternalCommit \/ RewriteBase \/ (\E u \in Tasks : RemoveWorktree(u))
            \/ UNCHANGED vars
  BY <1>2, <1>16 DEF ExternalCommit, RewriteBase, RemoveWorktree, vars
<1> QED
  BY <1>10, <1>11, <1>12, <1>13, <1>14, <1>15, <1>16 DEF Next

-----------------------------------------------------------------------------
(* The work of the sessions.                                               *)

(* The branch of the task that is integrated, and what _integrate does     *)
(* with it.                                                                *)
Tips ==
    /\ pc = "cas" => branch[Task] = taskSha
    /\ pc \in {"mark", "clean_worktree", "clean_branch"} =>
        branch[Task] # None /\ branch[Task] \subseteq base
    /\ rebasedNow => pc \in Integrating

(* A session that succeeds has committed everything, so that there is      *)
(* nothing else in the worktree of a task to be integrated.                *)
NothingUncommitted ==
    /\ mem # None => \A t \in Tasks : Handed(mem, t) => edits[t] = {}
    /\ disk # None => \A t \in Tasks : Handed(disk, t) => edits[t] = {}
    /\ pc = "clean_worktree" => edits[Task] = {}

(* What was rebased in this call of _integrate was verified since.         *)
RebasedIsVerified ==
    rebasedNow /\ pc \in {"refs", "cas", "rebase"} => verified[Task] = branch[Task]

WInv == Tips /\ NothingUncommitted /\ RebasedIsVerified /\ NoWorkLost

(* Where _integrate begins. *)
LEMMA IntegrateBegins ==
    ASSUME [Next]_vars, pc \notin Integrating
    PROVE  /\ pc' \in Integrating => pc' = "refs"
           /\ rebasedNow' \in {rebasedNow, FALSE}
<1> USE DEF local, Idle
<1>1. CASE Loop
  BY <1>1 DEF Loop, SkipMergedPhase, SkipAfterStop, BeginPhase, Finish, AtPhase, Exit,
     Prefork, PreforkFails, Preforked, EndPhase, Visit, PassOver, SkipPending,
     Dispatch, SessionsOver, StartIntegrate, Integrating, Deciding
<1>2. CASE Integrate
  BY <1>2 DEF Integrate, ReadRefs, NoBranch, CompareAndSwap, LoseRace, Rebase,
     RebaseConflicts, RebaseRefused, AbortFails, ReverifyPasses, ReverifyFails, MarkMerged,
     CleanWorktree, CleanBranch, AtRebase, AtVerify, At, Integrating, Deciding
<1>3. ASSUME NEW t \in Tasks, Session(t)
      PROVE  pc' \notin Integrating /\ rebasedNow' \in {rebasedNow, FALSE}
  BY <1>3 DEF Session, EndOfSession, SessionEdit, SessionCommit, SessionForks, Exit,
     SessionForkFails, SessionSucceeds, SessionFails, SessionOver, InSession, Integrating,
     Deciding
<1>4. CASE StartFresh \/ StartResume \/ StartCorrupted \/ Crash
  BY <1>4 DEF StartFresh, StartResume, StartCorrupted, Crash, Begin, Exit, Integrating,
     Deciding
<1>5. CASE ExternalCommit \/ RewriteBase \/ UNCHANGED vars
  BY <1>5 DEF ExternalCommit, RewriteBase, vars
<1>6. ASSUME NEW t \in Tasks, RemoveWorktree(t)
      PROVE  pc' \notin Integrating /\ rebasedNow' \in {rebasedNow, FALSE}
  BY <1>6 DEF RemoveWorktree
<1> QED
  BY <1>1, <1>2, <1>3, <1>4, <1>5, <1>6 DEF Next

(* How a step of _integrate ends, if not in another of it. *)
LEMMA IntegrateEnds ==
    ASSUME Exit("off") \/ Exit("error") \/ NextTask
    PROVE  pc' \notin Integrating /\ rebasedNow' = FALSE
BY DEF Exit, NextTask, LoopOf, Integrating, Deciding

(* While a task is integrated, a step belongs to that, ends it, or is one  *)
(* of somebody who commits to the base branch.                             *)
LEMMA WhileIntegrating ==
    ASSUME pc \in Integrating, [Next]_vars
    PROVE  Integrate \/ Crash \/ ExternalCommit \/ UNCHANGED vars
<1> USE DEF Integrating, Deciding, Idle
<1>1. ~ Loop
  BY DEF Loop, SkipMergedPhase, SkipAfterStop, BeginPhase, Finish, AtPhase,
     Prefork, PreforkFails, Preforked, EndPhase, Visit, LoopOf, PassOver, SkipPending,
     Dispatch, SessionsOver, StartIntegrate
<1>2. ~ \E t \in Tasks : Session(t)
  BY DEF Session, EndOfSession, SessionEdit, SessionCommit, SessionForks,
     SessionForkFails, SessionSucceeds, SessionFails, SessionOver, InSession
<1>3. ~ (StartFresh \/ StartResume \/ StartCorrupted \/ RewriteBase)
  BY DEF StartFresh, StartResume, StartCorrupted, Start, RewriteBase
<1>4. ~ \E t \in Tasks : RemoveWorktree(t)
  BY DEF RemoveWorktree
<1> QED
  BY <1>1, <1>2, <1>3, <1>4 DEF Next

(* The commit that is about to be merged is that of the task's branch, and *)
(* until that branch is removed its work is in the base branch.            *)
LEMMA TipsStep == IInv /\ OInv /\ Tips /\ [Next]_vars => Tips'
<1> SUFFICES ASSUME IInv, OInv, Tips, [Next]_vars PROVE Tips'
  OBVIOUS
<1>1. CASE pc' \notin Integrating /\ rebasedNow' = FALSE
  BY <1>1 DEF Tips, Integrating, Deciding
<1>2. CASE pc \notin Integrating
  <2>1. rebasedNow = FALSE
    BY <1>2 DEF Tips, IInv, TypeOK
  <2> QED
    BY <1>2, <2>1, IntegrateBegins DEF Tips, Integrating, Deciding
<1>3. CASE pc \in Integrating
  <2>1. /\ Task \in Tasks /\ branch \in [Tasks -> Commit \cup {None}] /\ rebasedNow \in BOOLEAN
    BY <1>3, TaskType DEF IInv, TypeOK, Control
  <2>2. todo' = todo => Task' = Task
    BY DEF Task
  <2>3. CASE UNCHANGED vars \/ ExternalCommit
    BY <2>2, <2>3 DEF vars, ExternalCommit, local, Tips
  <2>4. CASE Crash
    BY <1>1, <2>4, IntegrateEnds DEF Crash
  <2>5. CASE ReadRefs
    <3>1. pc = "refs" /\ branch' = branch /\ base' = base /\ branch[Task] # None
      BY <2>5 DEF ReadRefs, At, git
    <3>2. CASE Park("MERGE_NOT_FF") \/ GitError
      BY <1>1, <3>2, IntegrateEnds DEF Park, GitError
    <3>3. CASE /\ Route(branch[Task], base) # "rebase"
               /\ taskSha' = IF Route(branch[Task], base) = "mark" THEN base ELSE branch[Task]
               /\ Go(Route(branch[Task], base)) /\ UNCHANGED rebasedNow
      <4>1. /\ pc' = Route(branch[Task], base) /\ pc' \in {"mark", "cas"} /\ Task' = Task
            /\ pc' = "mark" => branch[Task] \subseteq base
            /\ pc' = "cas" => taskSha' = branch[Task]
        BY <2>2, <3>3 DEF Go, Route
      <4> QED
        BY <3>1, <3>3, <4>1 DEF Tips, Integrating, Deciding
    <3>4. CASE Go("rebase") /\ UNCHANGED rebasedNow
      BY <3>4 DEF Go, Tips, Integrating, Deciding
    <3> QED
      BY <2>5, <3>2, <3>3, <3>4 DEF ReadRefs, local
  <2>6. CASE NoBranch \/ AbortFails
    BY <1>1, <2>6, IntegrateEnds DEF NoBranch, AbortFails, GitError
  <2>7. CASE CompareAndSwap
    <3>1. /\ pc = "cas" /\ pc' = "mark" /\ base' = taskSha /\ branch' = branch
          /\ Task' = Task
      BY <2>2, <2>7 DEF CompareAndSwap, At, Go
    <3>2. branch[Task] = taskSha /\ taskSha \in Commit
      BY <3>1 DEF Tips, IInv, TypeOK
    <3> QED
      BY <3>1, <3>2, NoneAssumption DEF Tips, Integrating, Deciding
  <2>8. CASE LoseRace \/ ReverifyPasses
    <3>1. Requeue
      BY <2>8 DEF LoseRace, ReverifyPasses
    <3> QED
      BY <1>1, <3>1, IntegrateEnds DEF Requeue, Go, Tips, Integrating, Deciding
  <2>9. CASE Rebase
    BY <2>9 DEF Rebase, Go, Tips, Integrating, Deciding
  <2>10. CASE RebaseConflicts \/ RebaseRefused \/ ReverifyFails
    BY <1>1, <2>10, IntegrateEnds DEF RebaseConflicts, RebaseRefused, ReverifyFails, Park
  <2>11. CASE MarkMerged \/ CleanWorktree
    <3>1. /\ pc \in {"mark", "clean_worktree"} /\ pc' \in {"clean_worktree", "clean_branch"}
          /\ UNCHANGED <<base, branch, rebasedNow>> /\ Task' = Task
      BY <2>2, <2>11 DEF MarkMerged, CleanWorktree, At, Go, git, local
    <3> QED
      BY <3>1 DEF Tips, Integrating, Deciding
  <2>12. CASE CleanBranch
    BY <1>1, <2>12, IntegrateEnds DEF CleanBranch
  <2> QED
    BY <1>3, <2>3, <2>4, <2>5, <2>6, <2>7, <2>8, <2>9, <2>10, <2>11, <2>12,
       WhileIntegrating DEF Integrate
<1> QED
  BY <1>2, <1>3

(* Only a session adds changes that are not committed. *)
LEMMA EditSteps ==
    ASSUME IInv, [Next]_vars, NEW t \in Tasks
    PROVE  edits'[t] \subseteq edits[t] \/ SessionEdit(t)
<1> USE DEF git
<1>1. edits \in [Tasks -> Commit]
  BY DEF IInv, TypeOK
<1>2. CASE Loop
  BY <1>2 DEF Loop, SkipMergedPhase, SkipAfterStop, BeginPhase, Finish, AtPhase,
     Prefork, Fork, PreforkFails, Preforked, EndPhase, Visit, PassOver, SkipPending,
     Dispatch, SessionsOver, StartIntegrate
<1>3. CASE Integrate
  BY <1>1, <1>3 DEF Integrate, ReadRefs, NoBranch, CompareAndSwap, LoseRace, Rebase,
     RebaseConflicts, RebaseRefused, AbortFails, ReverifyPasses, ReverifyFails, MarkMerged,
     CleanWorktree, CleanBranch, AtRebase, AtVerify
<1>4. ASSUME NEW u \in Tasks, Session(u), ~ SessionEdit(t) PROVE edits'[t] \subseteq edits[t]
  <2>1. CASE SessionEdit(u)
    BY <1>1, <1>4, <2>1 DEF SessionEdit
  <2>2. CASE SessionCommit(u)
    BY <1>1, <2>2 DEF SessionCommit
  <2> QED
    BY <1>4, <2>1, <2>2 DEF Session, EndOfSession, SessionForks, SessionForkFails,
       SessionSucceeds, SessionFails, SessionOver, Fork
<1>5. CASE StartFresh \/ StartResume \/ StartCorrupted \/ Crash \/ ExternalCommit
           \/ RewriteBase \/ UNCHANGED vars
  BY <1>5 DEF StartFresh, StartResume, StartCorrupted, Begin, Crash, ExternalCommit,
     RewriteBase, vars
<1>6. ASSUME NEW u \in Tasks, RemoveWorktree(u) PROVE edits'[t] \subseteq edits[t]
  BY <1>1, <1>6 DEF RemoveWorktree
<1> QED
  BY <1>2, <1>3, <1>4, <1>5, <1>6 DEF Next

(* While its session runs, a task has not been handed over. *)
LEMMA EditingIsBefore ==
    ASSUME IInv, OInv, NEW t \in Tasks, SessionEdit(t), [Next]_vars
    PROVE  /\ mem' = mem /\ disk' = disk /\ mem = disk /\ mem # None
           /\ ~ Handed(mem, t) /\ pc' = "sessions"
<1>1. pc = "sessions" /\ t \in sessions /\ UNCHANGED <<mem, disk, pc>>
  BY DEF SessionEdit, InSession, RunningSessions
<1>2. mem \in CoordinatorState /\ mem # None /\ mem.st[t] = "executing" /\ mem = disk
  BY <1>1, RunningFacts DEF Running, IInv, Control, OInv, Synced
<1>3. mem.reason[t] = None
  BY <1>2 DEF CoordinatorState
<1>4. None \notin IntegrationParks
  BY NoneAssumption DEF ParkReason
<1> QED
  BY <1>1, <1>2, <1>3, <1>4 DEF Handed, Unfinished

(* What is to be integrated has nothing that is not committed. *)
LEMMA NothingUncommittedStep ==
    ASSUME ~ LeavesEdits, IInv, OInv, NothingUncommitted, [Next]_vars
    PROVE  NothingUncommitted'
<1>1. ASSUME NEW s \in {mem', disk'}, s # None, NEW t \in Tasks, Handed(s, t)
      PROVE  edits'[t] = {}
  <2>1. CASE SessionEdit(t)
    BY <1>1, <2>1, EditingIsBefore
  <2>2. CASE ~ SessionEdit(t)
    <3>1. edits[t] = {}
      <4>1. CASE SessionSucceeds(t)
        BY <4>1 DEF SessionSucceeds
      <4>2. CASE \E r \in {mem, disk} : r # None /\ Handed(r, t)
        BY <4>2 DEF NothingUncommitted
      <4> QED
        BY <1>1, <4>1, <4>2, RecordSteps
    <3> QED
      BY <2>2, <3>1, EditSteps
  <2> QED
    BY <2>1, <2>2
<1>2. ASSUME pc' = "clean_worktree" PROVE edits'[Task'] = {}
  <2>1. pc \in Integrating
    BY <1>2, IntegrateBegins DEF Integrating, Deciding
  <2>2. CASE UNCHANGED vars \/ ExternalCommit
    BY <1>2, <2>2 DEF vars, ExternalCommit, NothingUncommitted, Task
  <2>3. CASE MarkMerged
    <3>1. /\ pc = "mark" /\ pc \in Running /\ Task' = Task /\ UNCHANGED edits
      BY <2>3 DEF MarkMerged, At, Go, git, Task, Running
    <3>2. mem # None /\ mem.st[Task] = "integrating" /\ Task \in Tasks
      BY <2>1, <3>1, RunningFacts, TaskType DEF IInv, TypeOK, Control, Deciding
    <3> QED
      BY <3>1, <3>2 DEF NothingUncommitted, Handed, Unfinished
  <2>4. CASE Crash \/ NoBranch \/ AbortFails
    BY <1>2, <2>4, IntegrateEnds DEF Crash, NoBranch, AbortFails, GitError, Integrating,
       Deciding
  <2>5. CASE ReadRefs
    BY <1>2, <2>5, IntegrateEnds DEF ReadRefs, Route, Park, GitError, Go, Integrating,
       Deciding
  <2>6. CASE LoseRace \/ ReverifyPasses
    BY <1>2, <2>6, IntegrateEnds DEF LoseRace, ReverifyPasses, Requeue, Go, Integrating,
       Deciding
  <2>7. CASE RebaseConflicts \/ RebaseRefused \/ ReverifyFails \/ CleanBranch
    BY <1>2, <2>7, IntegrateEnds DEF RebaseConflicts, RebaseRefused, ReverifyFails,
       CleanBranch, Park, Integrating, Deciding
  <2>8. CASE CompareAndSwap \/ Rebase \/ CleanWorktree
    BY <1>2, <2>8 DEF CompareAndSwap, Rebase, CleanWorktree, Go
  <2> QED
    BY <2>1, <2>2, <2>3, <2>4, <2>5, <2>6, <2>7, <2>8, WhileIntegrating DEF Integrate
<1> QED
  BY <1>1, <1>2 DEF NothingUncommitted, Handed

(* What is rebased is verified before it can be merged. *)
LEMMA RebasedIsVerifiedStep ==
    ASSUME ~ LeavesEdits, IInv, OInv, Tips, NothingUncommitted, RebasedIsVerified, [Next]_vars
    PROVE  RebasedIsVerified'
<1> SUFFICES ASSUME rebasedNow', pc' \in {"refs", "cas", "rebase"}
             PROVE  verified'[Task'] = branch'[Task']
  BY DEF RebasedIsVerified
<1>1. pc \in Integrating
  BY IntegrateBegins DEF Tips, IInv, TypeOK, Integrating, Deciding
<1>2. ~ (Exit("off") \/ Exit("error") \/ NextTask)
  BY IntegrateEnds
<1>3. CASE UNCHANGED vars \/ ExternalCommit
  BY <1>3 DEF vars, ExternalCommit, local, RebasedIsVerified, Task
<1>4. CASE ReadRefs \/ LoseRace
  <2>1. /\ pc \in {"refs", "cas"} /\ Task' = Task /\ UNCHANGED <<verified, branch, rebasedNow>>
    BY <1>2, <1>4 DEF ReadRefs, LoseRace, At, Requeue, Park, GitError, Go, git, local, Task
  <2> QED
    BY <2>1 DEF RebasedIsVerified
<1>5. CASE ReverifyPasses
  <2>1. /\ pc = "verify" /\ pc \in Running /\ pc \in Deciding /\ Task' = Task /\ UNCHANGED branch
        /\ verified' = [verified EXCEPT ![Task] = branch[Task] \cup edits[Task]]
    BY <1>2, <1>5 DEF ReverifyPasses, AtVerify, At, Requeue, Go, git, Task, Running, Deciding
  <2>2. Task \in Tasks /\ mem # None /\ mem.st[Task] = "integrating"
    BY <1>1, <2>1, RunningFacts, TaskType DEF IInv, TypeOK, Control
  <2>3. edits[Task] = {}
    BY <2>2 DEF NothingUncommitted, Handed, Unfinished
  <2>4. verified'[Task] = branch[Task] \cup {} /\ branch[Task] \in Commit
    BY <2>1, <2>2, <2>3 DEF IInv, TypeOK, Control
  <2> QED
    BY <2>1, <2>4
<1>6. ~ (Crash \/ NoBranch \/ AbortFails)
  BY <1>2 DEF Crash, NoBranch, AbortFails, GitError
<1>7. ~ (RebaseConflicts \/ RebaseRefused \/ ReverifyFails \/ CleanBranch)
  BY <1>2 DEF RebaseConflicts, RebaseRefused, ReverifyFails, CleanBranch, Park
<1>8. ~ (CompareAndSwap \/ Rebase \/ MarkMerged \/ CleanWorktree)
  BY DEF CompareAndSwap, Rebase, MarkMerged, CleanWorktree, Go
<1> QED
  BY <1>1, <1>3, <1>4, <1>5, <1>6, <1>7, <1>8, WhileIntegrating DEF Integrate

(* What a step does to the changes of a task, unless a user removes its    *)
(* worktree.                                                               *)
LEMMA WorkSteps ==
    ASSUME IInv, OInv, Tips, NothingUncommitted, [Next]_vars, UNCHANGED interventions,
           NEW t \in Tasks
    PROVE  /\ \/ made'[t] = made[t]
              \/ made'[t] = made[t] + 1 /\ <<t, made[t] + 1>> \in edits'[t]
           /\ \/ edits[t] \subseteq edits'[t]
              \/ branch'[t] # None /\ edits[t] \subseteq branch'[t]
           /\ branch[t] # None =>
                \/ branch'[t] # None /\ branch[t] \subseteq branch'[t]
                \/ branch[t] \subseteq base'
<1> DEFINE Kept ==
      /\ \/ made'[t] = made[t]
         \/ made'[t] = made[t] + 1 /\ <<t, made[t] + 1>> \in edits'[t]
      /\ \/ edits[t] \subseteq edits'[t]
         \/ branch'[t] # None /\ edits[t] \subseteq branch'[t]
      /\ branch[t] # None =>
           \/ branch'[t] # None /\ branch[t] \subseteq branch'[t]
           \/ branch[t] \subseteq base'
<1>1. /\ branch \in [Tasks -> Commit \cup {None}] /\ edits \in [Tasks -> Commit]
      /\ made \in [Tasks \cup {Ext} -> Nat] /\ t # Ext /\ t \in Tasks \cup {Ext}
      /\ \A c \in Commit : c # None
  BY BoundsAssumption, NoneAssumption DEF IInv, TypeOK
<1>2. CASE UNCHANGED <<branch, edits, made>>
  BY <1>2
<1>3. ASSUME NEW x \in Tasks, Fork(x), UNCHANGED made PROVE Kept
  BY <1>1, <1>3 DEF Fork
<1>4. CASE Loop
  <2>1. CASE Prefork
    <3>1. Task \in Tasks
      BY <2>1, TaskType DEF Prefork, IInv, TypeOK
    <3> QED
      BY <1>2, <1>3, <2>1, <3>1 DEF Prefork, git, budget
  <2> QED
    BY <1>2, <1>4, <2>1 DEF Loop, SkipMergedPhase, SkipAfterStop, BeginPhase, Finish, AtPhase,
       PreforkFails, Preforked, EndPhase, Visit, PassOver, SkipPending, Dispatch,
       SessionsOver, StartIntegrate, git, budget
<1>5. CASE Integrate
  <2>1. CASE Rebase
    <3>1. /\ pc = "rebase" /\ branch' = [branch EXCEPT ![Task] = branch[Task] \cup base]
          /\ UNCHANGED <<edits, made>>
      BY <2>1 DEF Rebase, AtRebase, At
    <3>2. Task \in wt /\ Task \in Tasks /\ branch[Task] \cup base \in Commit
      BY <3>1, TaskType DEF IInv, TypeOK, Control, Integrating, Deciding, Commit
    <3> QED
      BY <1>1, <3>1, <3>2
  <2>2. CASE CleanWorktree
    <3>1. /\ pc = "clean_worktree" /\ UNCHANGED <<branch, made>>
          /\ edits' = edits \/ edits' = [edits EXCEPT ![Task] = {}]
      BY <2>2 DEF CleanWorktree, At
    <3> QED
      BY <1>1, <3>1 DEF NothingUncommitted
  <2>3. CASE CleanBranch
    <3>1. /\ pc = "clean_branch" /\ UNCHANGED <<base, edits, made>>
          /\ branch' = branch \/ branch' = [branch EXCEPT ![Task] = None]
      BY <2>3 DEF CleanBranch, At
    <3> QED
      BY <1>1, <3>1 DEF Tips
  <2>4. CASE ReadRefs \/ NoBranch \/ CompareAndSwap \/ LoseRace \/ RebaseConflicts
             \/ RebaseRefused \/ AbortFails \/ ReverifyPasses \/ ReverifyFails \/ MarkMerged
    BY <1>2, <2>4 DEF ReadRefs, NoBranch, CompareAndSwap, LoseRace, RebaseConflicts,
       RebaseRefused, AbortFails, ReverifyPasses, ReverifyFails, MarkMerged, AtRebase,
       AtVerify, At, git
  <2> QED
    BY <1>5, <2>1, <2>2, <2>3, <2>4 DEF Integrate
<1>6. ASSUME NEW u \in Tasks, Session(u) PROVE Kept
  <2>1. CASE SessionEdit(u)
    BY <1>1, <2>1 DEF SessionEdit
  <2>2. CASE SessionCommit(u)
    <3>1. /\ u \in wt /\ UNCHANGED made /\ edits' = [edits EXCEPT ![u] = {}]
          /\ branch' = [branch EXCEPT ![u] = branch[u] \cup edits[u]]
      BY <2>2 DEF SessionCommit, InSession
    <3>2. branch[u] \cup edits[u] \in Commit
      BY <1>1, <3>1 DEF IInv, Control, Commit
    <3> QED
      BY <1>1, <3>1, <3>2
  <2>3. CASE SessionForks(u)
    BY <1>3, <2>3 DEF SessionForks, budget
  <2>4. CASE SessionForkFails(u) \/ SessionSucceeds(u) \/ SessionFails(u)
    BY <1>2, <2>4 DEF SessionForkFails, SessionSucceeds, SessionFails, SessionOver, git, budget
  <2> QED
    BY <1>6, <2>1, <2>2, <2>3, <2>4 DEF Session, EndOfSession
<1>7. CASE StartFresh \/ StartResume \/ StartCorrupted \/ Crash \/ UNCHANGED vars
  BY <1>2, <1>7 DEF StartFresh, StartResume, StartCorrupted, Start, Begin, Crash, git, vars
<1>8. CASE ExternalCommit
  BY <1>1, <1>8 DEF ExternalCommit
<1>9. CASE RewriteBase \/ \E u \in Tasks : RemoveWorktree(u)
  <2>1. interventions' = interventions + 1 /\ interventions \in Nat
    BY <1>9 DEF RewriteBase, RemoveWorktree, IInv, TypeOK
  <2> QED
    BY <2>1
<1> QED
  BY <1>4, <1>5, <1>6, <1>7, <1>8, <1>9 DEF Next

(* A user's intervention is counted. *)
LEMMA InterventionsCounted ==
    ASSUME IInv, [Next]_vars, interventions' = 0
    PROVE  UNCHANGED interventions
<1> USE DEF budget
<1>1. CASE Loop
  BY <1>1 DEF Loop, SkipMergedPhase, SkipAfterStop, BeginPhase, Finish, AtPhase,
     Prefork, PreforkFails, Preforked, EndPhase, Visit, PassOver, SkipPending, Dispatch,
     SessionsOver, StartIntegrate
<1>2. CASE Integrate
  BY <1>2 DEF Integrate, ReadRefs, NoBranch, CompareAndSwap, LoseRace, Rebase,
     RebaseConflicts, RebaseRefused, AbortFails, ReverifyPasses, ReverifyFails, MarkMerged,
     CleanWorktree, CleanBranch, AtRebase, AtVerify, At
<1>3. ASSUME NEW t \in Tasks, Session(t) PROVE UNCHANGED interventions
  BY <1>3 DEF Session, EndOfSession, SessionEdit, SessionCommit, SessionForks,
     SessionForkFails, SessionSucceeds, SessionFails, SessionOver, InSession
<1>4. CASE StartFresh \/ StartResume \/ StartCorrupted \/ Crash \/ ExternalCommit
           \/ UNCHANGED vars
  BY <1>4 DEF StartFresh, StartResume, StartCorrupted, Start, Begin, Crash, ExternalCommit,
     vars
<1>5. CASE RewriteBase \/ \E t \in Tasks : RemoveWorktree(t)
  BY <1>5 DEF RewriteBase, RemoveWorktree, IInv, TypeOK
<1> QED
  BY <1>1, <1>2, <1>3, <1>4, <1>5 DEF Next

(* No step loses a change. *)
LEMMA NoWorkLostStep ==
    ASSUME IInv, OInv, Tips, NothingUncommitted, NoWorkLost, [Next]_vars
    PROVE  NoWorkLost'
<1> SUFFICES ASSUME interventions' = 0, NEW t \in Tasks, NEW n \in 1..made'[t]
             PROVE  \/ <<t, n>> \in base'
                    \/ branch'[t] # None /\ <<t, n>> \in branch'[t]
                    \/ <<t, n>> \in edits'[t]
  BY DEF NoWorkLost
<1>1. UNCHANGED interventions /\ base \subseteq base' /\ made[t] \in Nat
  BY InterventionsCounted, BaseGrows DEF BaseAdvanced, IInv, TypeOK
<1>2. CASE n \in 1..made[t]
  <2>1. \/ <<t, n>> \in base
        \/ branch[t] # None /\ <<t, n>> \in branch[t]
        \/ <<t, n>> \in edits[t]
    BY <1>1, <1>2 DEF NoWorkLost
  <2> QED
    BY <1>1, <2>1, WorkSteps
<1>3. CASE n \notin 1..made[t]
  <2>1. /\ made'[t] = made[t] + 1 /\ <<t, made[t] + 1>> \in edits'[t]
    BY <1>1, <1>3, WorkSteps
  <2>2. n = made[t] + 1
    BY <1>1, <1>3, <2>1
  <2> QED
    BY <2>1, <2>2
<1> QED
  BY <1>2, <1>3

(* All of it holds in every reachable state. *)
LEMMA WorkInvariance ==
    ASSUME ~ LeavesEdits
    PROVE  Spec => []WInv
<1>1. Init => WInv
  <2> SUFFICES ASSUME Init PROVE WInv
    OBVIOUS
  <2>1. Tips /\ NothingUncommitted /\ RebasedIsVerified
    BY DEF Init, Tips, NothingUncommitted, RebasedIsVerified
  <2>2. \A t \in Tasks : made[t] = 0
    BY DEF Init
  <2> QED
    BY <2>1, <2>2 DEF WInv, NoWorkLost
<1>2. WInv /\ IInv /\ OInv /\ [Next]_vars => WInv'
  BY TipsStep, NothingUncommittedStep, RebasedIsVerifiedStep, NoWorkLostStep DEF WInv
<1> QED
  BY <1>1, <1>2, Invariance, OrderInvariance, PTL DEF Spec

(* I8, for every plan, mode and choice of retries, and for crashes at any  *)
(* point: as long as a session that succeeds has committed what it did,    *)
(* and no user removes a worktree, no change it made is lost.              *)
THEOREM WorkIsKept ==
    ASSUME ~ LeavesEdits
    PROVE  Spec => []NoWorkLost
<1>1. WInv => NoWorkLost
  BY DEF WInv
<1> QED
  BY <1>1, WorkInvariance, PTL

(* I10 within one call of _integrate, for every plan: what was rebased is  *)
(* merged only at the content that was verified after that rebase.         *)
THEOREM RebasesAreVerified ==
    ASSUME ~ LeavesEdits
    PROVE  Spec => VerifiedRebase
<1> DEFINE Verified == CompareAndSwap /\ rebasedNow => verified[Task] = taskSha
<1>1. WInv => Verified
  BY DEF WInv, Tips, RebasedIsVerified, CompareAndSwap, At
<1>2. [][Verified]_vars => VerifiedRebase
  BY PTL DEF VerifiedRebase
<1> QED
  BY <1>1, <1>2, WorkInvariance, PTL DEF Spec, VerifiedRebase

=============================================================================
