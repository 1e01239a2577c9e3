---------------------------- MODULE Coordinator ----------------------------
(***************************************************************************)
(* The C7 phase coordinator: one process that takes the tasks of a         *)
(* manifest phase by phase, runs a C2 session for each, and fast-forwards  *)
(* the base branch to every task branch that verifies.  Its state file is  *)
(* rewritten after each transition, so that a run killed at any point can  *)
(* be resumed.                                                             *)
(*                                                                         *)
(* A commit is modelled by the set of the changes reachable from it, so    *)
(* `git merge-base --is-ancestor a b' is a \subseteq b, and rebasing x     *)
(* onto y yields x \cup y.  A change is <<t, n>>, the n-th change made by  *)
(* a session of task t, or <<Ext, n>>, a commit somebody else put on the   *)
(* base branch.                                                            *)
(*                                                                         *)
(* One coordinator runs at a time: the lock that is meant to ensure it is  *)
(* the subject of module PidLock.                                          *)
(***************************************************************************)
EXTENDS Naturals, Sequences, FiniteSets

CONSTANTS
    Tasks,          \* the task ids of the manifest
    Plan,           \* the execution plan: a sequence of phases, each a sequence of tasks
    Ext,            \* the author of every commit on the base branch that no task made
    None,           \* Python's None
    Modes,          \* the values of --max-parallel a user picks: "serial" or "parallel"
    MaxParallel,    \* the number of worker threads in mode "parallel"
    RetrySets,      \* the values of --retry-parked a user picks
    ResumeFlags,    \* the values of ~--no-resume a user picks
    MaxRequeue,     \* --max-requeue
    LeavesEdits     \* may a successful session leave changes it did not commit?

CONSTANTS           \* bounds that keep the model finite
    MaxStarts,      \* times the coordinator is started
    MaxCrashes,     \* times it is killed
    MaxCommits,     \* changes made per task
    MaxExternal,    \* commits of others to the base branch
    MaxDisturbances, \* crashes and commits of others, altogether
    MaxInterventions \* times a user touches the repository by hand

Phases == 1..Len(Plan)

InPhase(p) == {Plan[p][i] : i \in 1..Len(Plan[p])}

(* plan.py: phases cover the manifest exactly, no task twice. *)
ASSUME PlanAssumption ==
    /\ Plan \in Seq(Seq(Tasks))
    /\ Tasks = UNION {InPhase(p) : p \in Phases}
    /\ \A p, q \in Phases : p # q => InPhase(p) \cap InPhase(q) = {}
    /\ \A p \in Phases : \A i, j \in 1..Len(Plan[p]) :
          i # j => Plan[p][i] # Plan[p][j]

ASSUME BoundsAssumption ==
    /\ Ext \notin Tasks
    /\ Modes \subseteq {"serial", "parallel"}
    /\ RetrySets \subseteq SUBSET Tasks
    /\ ResumeFlags \subseteq BOOLEAN
    /\ LeavesEdits \in BOOLEAN
    /\ {MaxParallel, MaxRequeue, MaxStarts, MaxCrashes, MaxCommits,
        MaxExternal, MaxDisturbances, MaxInterventions} \subseteq Nat

Change == (Tasks \X (1..MaxCommits)) \cup ({Ext} \X (1..MaxExternal))

Commit == SUBSET Change

EarlierThan(t) ==
    UNION {InPhase(q) : q \in {q \in Phases : \E p \in Phases :
                                    q < p /\ t \in InPhase(p)}}

TaskState == {"pending", "executing", "awaiting_merge", "integrating",
              "merged", "parked", "skipped"}

PhaseState == {"pending", "executing", "merged", "parked", "skipped"}

RunStatus == {"in_progress", "all_merged", "stopped"}

IntegrationParks == {"REBASE_CONFLICT", "REVERIFY_FAILED", "MERGE_NOT_FF"}

ParkReason == IntegrationParks \cup {"TASK_FAILED", "TASK_ERROR"}

(* The state file, schema.py: CoordinatorState with its TaskRecords. *)
Record ==
    [st        : [Tasks -> TaskState],
     reason    : [Tasks -> ParkReason \cup {None}],
     merged    : [Tasks -> Commit \cup {None}],
     requeue   : [Tasks -> Nat],
     queue     : Seq(Tasks),
     phase     : [Phases -> PhaseState],
     status    : RunStatus,
     stoppedAt : Nat]

CoordinatorState ==
    {s \in Record : \A t \in Tasks :
        /\ s.st[t] = "parked" <=> s.reason[t] # None
        /\ s.st[t] = "merged" <=> s.merged[t] # None}

ASSUME NoneAssumption ==
    /\ \A c \in Commit : c # None
    /\ None \notin ParkReason
    /\ None \notin CoordinatorState

FreshState ==
    [st        |-> [t \in Tasks |-> "pending"],
     reason    |-> [t \in Tasks |-> None],
     merged    |-> [t \in Tasks |-> None],
     requeue   |-> [t \in Tasks |-> 0],
     queue     |-> <<>>,
     phase     |-> [p \in Phases |-> "pending"],
     status    |-> "in_progress",
     stoppedAt |-> 0]

-----------------------------------------------------------------------------
VARIABLES
    (* the repository, which outlives the process *)
    base,       \* the commit of the base branch
    branch,     \* the commit of each task branch, None where there is no branch
    wt,         \* the tasks that have a worktree
    edits,      \* the changes in each worktree that are not committed
    midRebase,  \* the worktrees a killed process left in the middle of a rebase
    disk,       \* the latest state file, None before the first run
    (* the process *)
    mem,        \* its copy of the state, None while no process runs
    pc,
    mode,
    phase,      \* number of the phase in the loop of _run_phases
    todo,       \* the tasks the current loop has still to visit
    sessions,   \* the tasks whose C2 session is running
    attempts,   \* of _integrate: the local counter
    taskSha,    \* of _integrate: the commits it read, the base and the task's
    baseSha,
    (* history, read by properties and by the bounds only *)
    verified,   \* the content of each worktree when its verify command last passed
    rebasedNow, \* has this call of _integrate rebased its task
    made,       \* the number of commits made by each author
    starts, crashes, interventions

git     == <<base, branch, wt, edits, midRebase>>
local   == <<attempts, taskSha, baseSha, rebasedNow>>
control == <<mode, phase>>
budget  == <<made, starts, crashes, interventions>>
vars    == <<base, branch, wt, edits, midRebase, disk, mem, pc, mode, phase, todo,
             sessions, attempts, taskSha, baseSha, verified,
             rebasedNow, made, starts, crashes, interventions>>

Idle == {"off", "done", "error", "uncaught"}

Running == {"phase", "prefork", "serial", "sessions", "queue",
            "refs", "cas", "rebase", "verify", "mark", "clean_worktree",
            "clean_branch"}

Task == Head(todo)

LoopOf(m) == IF m = "serial" THEN "serial" ELSE "queue"

AnyParked(s, p) == \E t \in InPhase(p) : s.st[t] = "parked"

Elements(s) == {s[i] : i \in 1..Len(s)}

(* list.remove, of a list that holds an element at most once. *)
Without(s, t) ==
    IF t \notin Elements(s) THEN s
    ELSE LET i == CHOOSE i \in 1..Len(s) : s[i] = t
         IN  SubSeq(s, 1, i - 1) \o SubSeq(s, i + 1, Len(s))

(* StateStore.write: the file is replaced atomically. *)
Save(s) ==
    /\ mem' = s
    /\ disk' = s

(* The process ends, normally or by an exception; the state file stays. *)
Exit(where) ==
    /\ pc' = where
    /\ mem' = None
    /\ todo' = <<>>
    /\ sessions' = {}
    /\ mode' = "serial"
    /\ phase' = 1
    /\ attempts' = 0
    /\ taskSha' = {}
    /\ baseSha' = {}
    /\ rebasedNow' = FALSE

Init ==
    /\ base = {}
    /\ branch = [t \in Tasks |-> None]
    /\ wt = {}
    /\ edits = [t \in Tasks |-> {}]
    /\ midRebase = {}
    /\ disk = None
    /\ mem = None
    /\ pc = "off"
    /\ mode = "serial"
    /\ phase = 1
    /\ todo = <<>>
    /\ sessions = {}
    /\ attempts = 0
    /\ taskSha = {}
    /\ baseSha = {}
    /\ verified = [t \in Tasks |-> None]
    /\ rebasedNow = FALSE
    /\ made = [a \in Tasks \cup {Ext} |-> 0]
    /\ starts = 0
    /\ crashes = 0
    /\ interventions = 0

-----------------------------------------------------------------------------
(* Starting: run_coordinator and _maybe_resume.                            *)

MergesIntact(s, tip) ==
    \A t \in Tasks : s.st[t] = "merged" =>
        s.merged[t] # None /\ s.merged[t] \subseteq tip

(* Mutant: the park reason of a retried task is not cleared.               *)
ResumedKeepingReasons(s, retry) ==
    LET retried(t) == s.st[t] = "parked" /\ t \in retry
    IN  [s EXCEPT
            !.st = [t \in Tasks |->
                IF retried(t) THEN "pending"
                ELSE IF s.st[t] = "skipped" THEN "pending" ELSE s.st[t]],
            !.phase = [p \in Phases |->
                IF s.phase[p] = "merged" THEN "merged" ELSE "pending"],
            !.status = "in_progress",
            !.stoppedAt = 0]

Resumed(s, retry) ==
    LET retried(t) == s.st[t] = "parked" /\ t \in retry
    IN  [s EXCEPT
            !.st = [t \in Tasks |->
                CASE retried(t) /\ s.reason[t] \in IntegrationParks -> "awaiting_merge"
                  [] retried(t) /\ s.reason[t] \notin IntegrationParks -> "pending"
                  [] s.st[t] = "skipped" -> "pending"
                  [] OTHER -> s.st[t]],
            !.reason = [t \in Tasks |-> IF retried(t) THEN None ELSE s.reason[t]],
            !.requeue = [t \in Tasks |-> IF retried(t) THEN 0 ELSE s.requeue[t]],
            !.phase = [p \in Phases |->
                IF s.phase[p] = "merged" THEN "merged" ELSE "pending"],
            !.status = "in_progress",
            !.stoppedAt = 0]

Begin(s, m) ==
    /\ Save(s)
    /\ pc' = "phase"
    /\ mode' = m
    /\ phase' = 1
    /\ UNCHANGED <<git, todo, sessions, local, verified>>

Start(resume) ==
    /\ pc \in Idle
    /\ starts < MaxStarts
    /\ starts' = starts + 1
    /\ UNCHANGED <<made, crashes, interventions>>
    /\ resume \in ResumeFlags

StartFresh ==
    \E resume \in BOOLEAN, m \in Modes :
        /\ Start(resume)
        /\ resume => disk = None
        /\ Begin(FreshState, m)

(* Mutant: the merges of the state file are not checked against git.       *)
StartResumeTrusting ==
    \E retry \in RetrySets, m \in Modes :
        /\ Start(TRUE)
        /\ disk # None
        /\ Begin(Resumed(disk, retry), m)

StartResume ==
    \E retry \in RetrySets, m \in Modes :
        /\ Start(TRUE)
        /\ disk # None
        /\ MergesIntact(disk, base)
        /\ Begin(Resumed(disk, retry), m)

(* STATE_CORRUPTED: the base branch has lost a merge the state records. *)
StartCorrupted ==
    /\ Start(TRUE)
    /\ disk # None
    /\ ~ MergesIntact(disk, base)
    /\ Exit("error")
    /\ UNCHANGED <<git, disk, verified>>

-----------------------------------------------------------------------------
(* The loop over the phases: _run_phases.                                  *)

Stopped == mem.status = "stopped"

AllMerged(s, p) == \A t \in InPhase(p) : s.st[t] = "merged"

AtPhase ==
    /\ pc = "phase"
    /\ UNCHANGED <<git, mode, sessions, local, verified, budget>>

SkipMergedPhase ==
    /\ AtPhase
    /\ phase \in Phases
    /\ AllMerged(mem, phase)
    /\ mem' = [mem EXCEPT !.phase[phase] = "merged"]
    /\ phase' = phase + 1
    /\ UNCHANGED <<disk, pc, todo>>

SkipAfterStop ==
    /\ AtPhase
    /\ phase \in Phases
    /\ ~ AllMerged(mem, phase)
    /\ Stopped
    /\ Save([mem EXCEPT
                !.phase[phase] = "skipped",
                !.st = [t \in Tasks |->
                    IF t \in InPhase(phase) /\ mem.st[t] \notin {"merged", "parked"}
                    THEN "skipped" ELSE mem.st[t]]])
    /\ phase' = phase + 1
    /\ UNCHANGED <<pc, todo>>

(* Mutant: the worktrees of every phase are created at once.               *)
BeginPhaseForkingAll ==
    /\ AtPhase
    /\ phase \in Phases
    /\ ~ AllMerged(mem, phase)
    /\ ~ Stopped
    /\ Save([mem EXCEPT !.phase[phase] = "executing"])
    /\ \E order \in [1..Cardinality(Tasks) -> Tasks] :
          Elements(order) = Tasks /\ todo' = order
    /\ pc' = "prefork"
    /\ UNCHANGED phase

BeginPhase ==
    /\ AtPhase
    /\ phase \in Phases
    /\ ~ AllMerged(mem, phase)
    /\ ~ Stopped
    /\ Save([mem EXCEPT !.phase[phase] = "executing"])
    /\ todo' = Plan[phase]
    /\ pc' = "prefork"
    /\ UNCHANGED phase

Finish ==
    /\ pc = "phase"
    /\ phase \notin Phases
    /\ disk' = IF Stopped THEN disk ELSE [mem EXCEPT !.status = "all_merged"]
    /\ Exit("done")
    /\ UNCHANGED <<git, verified, budget>>

(* worktree.py, ensure_worktree.  A worktree that is there is used again.   *)
Fork(t) ==
    /\ t \notin wt
    /\ branch[t] = None
    /\ wt' = wt \cup {t}
    /\ branch' = [branch EXCEPT ![t] = base]
    /\ UNCHANGED <<base, edits, midRebase>>

(* It is called for every pending task before the phase runs.  A worktree  *)
(* in the middle of a rebase has a detached HEAD, which is an error.       *)
Prefork ==
    /\ pc = "prefork"
    /\ todo # <<>>
    /\ \/ mem.st[Task] # "pending" /\ UNCHANGED <<mem, git>>
       \/ mem.st[Task] = "pending" /\ Fork(Task) /\ UNCHANGED mem
       \/ mem.st[Task] = "pending" /\ Task \in wt \ midRebase /\ UNCHANGED <<mem, git>>
       \/ /\ mem.st[Task] = "pending"
          /\ Task \in midRebase
          /\ mem' = [mem EXCEPT !.st[Task] = "parked",
                                !.reason[Task] = "TASK_ERROR"]
          /\ UNCHANGED git
    /\ todo' = Tail(todo)
    /\ UNCHANGED <<disk, pc, control, sessions, local, verified, budget>>

(* `git worktree add -b' fails on a branch that exists, with an exception  *)
(* that nobody catches.                                                    *)
PreforkFails ==
    /\ pc = "prefork"
    /\ todo # <<>>
    /\ mem.st[Task] = "pending"
    /\ Task \notin wt
    /\ branch[Task] # None
    /\ Exit("uncaught")
    /\ UNCHANGED <<git, disk, verified, budget>>

(* The write after the loop; in parallel mode also the one of              *)
(* _execute_phase_parallel, which follows it.                              *)
Preforked ==
    /\ pc = "prefork"
    /\ todo = <<>>
    /\ LET ready == {t \in InPhase(phase) : mem.st[t] \in {"pending", "executing"}}
       IN  IF mode = "serial"
           THEN /\ Save(mem)
                /\ todo' = Plan[phase]
                /\ pc' = "serial"
                /\ UNCHANGED sessions
           ELSE /\ Save([mem EXCEPT !.st = [t \in Tasks |->
                            IF t \in ready THEN "executing" ELSE mem.st[t]]])
                /\ sessions' = ready
                /\ pc' = "sessions"
                /\ UNCHANGED todo
    /\ UNCHANGED <<git, control, local, verified, budget>>

(* Mutant: a parked task does not stop the run.                            *)
EndPhaseRegardless ==
    /\ pc \in {"serial", "queue"}
    /\ todo = <<>>
    /\ Save([mem EXCEPT !.phase[phase] =
                IF AnyParked(mem, phase) THEN "parked" ELSE "merged"])
    /\ phase' = phase + 1
    /\ pc' = "phase"
    /\ UNCHANGED <<git, mode, todo, sessions, local, verified, budget>>

EndPhase ==
    /\ pc \in {"serial", "queue"}
    /\ todo = <<>>
    /\ Save(IF AnyParked(mem, phase)
            THEN [mem EXCEPT !.phase[phase] = "parked",
                             !.status = "stopped",
                             !.stoppedAt = phase]
            ELSE [mem EXCEPT !.phase[phase] = "merged"])
    /\ phase' = phase + 1
    /\ pc' = "phase"
    /\ UNCHANGED <<git, mode, todo, sessions, local, verified, budget>>

-----------------------------------------------------------------------------
(* The loop over the tasks of a phase: _execute_phase_serial, and the      *)
(* second half of _execute_phase_parallel.                                 *)

Visit(loop) ==
    /\ pc = loop
    /\ todo # <<>>
    /\ UNCHANGED <<git, control, verified, budget>>

Unintegrated(t) == mem.st[t] \in {"awaiting_merge", "integrating"}

(* The parallel loop visits a copy of the merge queue. *)
PassedOver(t) ==
    IF mode = "serial" THEN mem.st[t] \in {"merged", "skipped", "parked"}
    ELSE t \notin InPhase(phase) \/ ~ Unintegrated(t)

PassOver ==
    /\ Visit(LoopOf(mode))
    /\ PassedOver(Task)
    /\ todo' = Tail(todo)
    /\ UNCHANGED <<disk, mem, pc, sessions, local>>

(* Once a task of the phase is parked, no pending one is started. *)
SkipPending ==
    /\ Visit("serial")
    /\ mem.st[Task] = "pending"
    /\ AnyParked(mem, phase)
    /\ Save([mem EXCEPT !.st[Task] = "skipped"])
    /\ todo' = Tail(todo)
    /\ UNCHANGED <<pc, sessions, local>>

(* Mutant: pending tasks are started although one of the phase is parked.  *)
DispatchRegardless ==
    /\ Visit("serial")
    /\ mem.st[Task] \in {"pending", "executing"}
    /\ Save([mem EXCEPT !.st[Task] = "executing"])
    /\ sessions' = {Task}
    /\ pc' = "sessions"
    /\ UNCHANGED <<todo, local>>

Dispatch ==
    /\ Visit("serial")
    /\ \/ mem.st[Task] = "executing"
       \/ mem.st[Task] = "pending" /\ ~ AnyParked(mem, phase)
    /\ Save([mem EXCEPT !.st[Task] = "executing"])
    /\ sessions' = {Task}
    /\ pc' = "sessions"
    /\ UNCHANGED <<todo, local>>

StartIntegrate ==
    /\ Visit(LoopOf(mode))
    /\ Unintegrated(Task)
    /\ ~ PassedOver(Task)
    /\ Save([mem EXCEPT !.st[Task] = "integrating"])
    /\ attempts' = mem.requeue[Task]
    /\ pc' = "refs"
    /\ UNCHANGED <<todo, sessions, taskSha, baseSha, rebasedNow>>

-----------------------------------------------------------------------------
(* C2 sessions: _dispatch, _run_c2, _apply_dispatch_result.  Of C2 this    *)
(* module keeps what it does to the branch and how it ends; its retries    *)
(* are the subject of module TaskAttempts.                                 *)

(* At most MaxParallel sessions run; a worker takes the next task in the   *)
(* order of submission.                                                    *)
RunningSessions ==
    LET submittedBefore(t) ==
            {u \in sessions : \E j \in 1..Len(Plan[phase]) : \E i \in 1..(j - 1) :
                                 u = Plan[phase][i] /\ t = Plan[phase][j]}
    IN  {t \in sessions : Cardinality(submittedBefore(t)) < MaxParallel}

(* execute_task begins with ensure_worktree: a task that an earlier run    *)
(* left executing is not among those forked with the phase.                *)
SessionForks(t) ==
    /\ pc = "sessions"
    /\ t \in RunningSessions
    /\ Fork(t)
    /\ UNCHANGED <<disk, mem, pc, control, todo, sessions, local, verified, budget>>

SessionForkFails(t) ==
    /\ pc = "sessions"
    /\ t \in RunningSessions \ wt
    /\ branch[t] # None
    /\ Exit("uncaught")
    /\ UNCHANGED <<git, disk, verified, budget>>

InSession(t) ==
    /\ pc = "sessions"
    /\ t \in RunningSessions \cap wt
    /\ UNCHANGED <<base, wt, midRebase, control, todo, local,
                   starts, crashes, interventions>>

(* external: the agent edits files in the worktree ... *)
SessionEdit(t) ==
    /\ InSession(t)
    /\ made[t] < MaxCommits
    /\ made' = [made EXCEPT ![t] = @ + 1]
    /\ edits' = [edits EXCEPT ![t] = @ \cup {<<t, made[t] + 1>>}]
    /\ UNCHANGED <<branch, disk, mem, pc, sessions, verified>>

(* ... and commits them. *)
SessionCommit(t) ==
    /\ InSession(t)
    /\ edits[t] # {}
    /\ branch' = [branch EXCEPT ![t] = @ \cup edits[t]]
    /\ edits' = [edits EXCEPT ![t] = {}]
    /\ UNCHANGED <<made, disk, mem, pc, sessions, verified>>

SessionOver(t) ==
    /\ InSession(t)
    /\ sessions' = sessions \ {t}
    /\ pc' = IF mode = "serial" THEN "serial" ELSE "sessions"
    /\ UNCHANGED <<branch, edits, made>>

(* The verify command has passed on the content of the worktree. *)
SessionSucceeds(t) ==
    /\ SessionOver(t)
    /\ edits[t] = {} \/ LeavesEdits
    /\ verified' = [verified EXCEPT ![t] = branch[t] \cup edits[t]]
    /\ Save([mem EXCEPT
                !.st[t] = "awaiting_merge",
                !.queue = IF t \in Elements(@) THEN @ ELSE Append(@, t)])

(* RETRY_EXHAUSTED, SAFETY_BLOCKED and the other errors of C2; a           *)
(* TaskOutput with status "failed" has no producer.                        *)
SessionFails(t) ==
    /\ SessionOver(t)
    /\ Save([mem EXCEPT !.st[t] = "parked", !.reason[t] = "TASK_ERROR"])
    /\ UNCHANGED verified

SessionsOver ==
    /\ mode = "parallel"
    /\ pc = "sessions"
    /\ sessions = {}
    /\ todo' = mem.queue
    /\ pc' = "queue"
    /\ UNCHANGED <<git, disk, mem, control, sessions, local, verified, budget>>

-----------------------------------------------------------------------------
(* Integration of one task: _integrate.                                    *)

NextTask ==
    /\ pc' = LoopOf(mode)
    /\ todo' = Tail(todo)
    /\ attempts' = 0
    /\ taskSha' = {}
    /\ baseSha' = {}
    /\ rebasedNow' = FALSE

Park(reason) ==
    /\ Save([mem EXCEPT !.st[Task] = "parked",
                        !.reason[Task] = reason,
                        !.queue = Without(@, Task)])
    /\ NextTask

Go(to) ==
    /\ pc' = to
    /\ UNCHANGED todo

(* GIT_ERROR: CoordinatorAbort ends the run. *)
GitError ==
    /\ Exit("error")
    /\ UNCHANGED disk

At(where) ==
    /\ pc = where
    /\ UNCHANGED <<made, starts, crashes, interventions>>

(* Mutant: the two commits of the ancestry test are swapped.               *)
RouteSwapped(task, onto) ==
    CASE onto \subseteq task -> "mark"
      [] task \subseteq onto /\ ~ onto \subseteq task -> "cas"
      [] OTHER -> "rebase"

(* Where the relation of the two commits leads. *)
Route(task, onto) ==
    CASE task \subseteq onto -> "mark"
      [] onto \subseteq task /\ ~ task \subseteq onto -> "cas"
      [] OTHER -> "rebase"

ReadRefs ==
    /\ At("refs")
    /\ branch[Task] # None
    /\ LET to == Route(branch[Task], base)
       IN  IF to # "rebase"
           THEN /\ taskSha' = IF to = "mark" THEN base ELSE branch[Task]
                /\ baseSha' = base
                /\ Go(to)
                /\ UNCHANGED <<disk, mem, attempts, rebasedNow, control, sessions>>
           ELSE IF attempts >= MaxRequeue
           THEN Park("MERGE_NOT_FF") /\ UNCHANGED <<control, sessions>>
           ELSE IF Task \notin wt
           THEN GitError
           ELSE /\ Go(to)
                /\ UNCHANGED <<disk, mem, local, control, sessions>>
    /\ UNCHANGED <<git, verified>>

NoBranch ==
    /\ At("refs")
    /\ branch[Task] = None
    /\ GitError
    /\ UNCHANGED <<git, verified>>

(* Mutant: update-ref without the old value.                               *)
OverwriteBase ==
    /\ At("cas")
    /\ base' = taskSha
    /\ Go("mark")
    /\ UNCHANGED <<branch, wt, edits, midRebase, disk, mem, control, sessions,
                   local, verified>>

(* integrate.py, ff_advance: update-ref with the old value. *)
CompareAndSwap ==
    /\ At("cas")
    /\ base = baseSha
    /\ base' = taskSha
    /\ Go("mark")
    /\ UNCHANGED <<branch, wt, edits, midRebase, disk, mem, control, sessions,
                   local, verified>>

(* Mutant: the round is recorded, but the local counter stays where it was. *)
RequeueUncounted ==
    /\ Save([mem EXCEPT !.requeue[Task] = attempts + 1])
    /\ Go("refs")
    /\ taskSha' = {}
    /\ baseSha' = {}
    /\ UNCHANGED <<attempts, rebasedNow>>

(* A round that did not merge: counted, saved, and tried again.  When it   *)
(* was the last one allowed, the save of the count and the save of the     *)
(* park are one step here: a resumed run tries the task again after either.*)
Requeue ==
    LET n == attempts + 1
        s == [mem EXCEPT !.requeue[Task] = n]
    IN  IF n > MaxRequeue
        THEN /\ Save([s EXCEPT !.st[Task] = "parked",
                               !.reason[Task] = "MERGE_NOT_FF",
                               !.queue = Without(@, Task)])
             /\ NextTask
        ELSE /\ Save(s)
             /\ attempts' = n
             /\ Go("refs")
             /\ taskSha' = {}
             /\ baseSha' = {}
             /\ UNCHANGED rebasedNow

(* update-ref fails when the base has moved on, and also while another git  *)
(* process holds the lock of the ref: as often as it likes.                *)
LoseRace ==
    /\ At("cas")
    /\ Requeue
    /\ UNCHANGED <<git, control, sessions, verified>>

(* integrate.py, rebase_onto. *)
AtRebase ==
    /\ At("rebase")
    /\ UNCHANGED <<base, wt, edits, control, sessions, verified>>

(* Mutant: no verification after a rebase.                                 *)
RebaseWithoutVerify ==
    /\ AtRebase
    /\ Task \notin midRebase
    /\ branch' = [branch EXCEPT ![Task] = @ \cup base]
    /\ rebasedNow' = TRUE
    /\ Go("refs")
    /\ UNCHANGED <<midRebase, disk, mem, attempts, taskSha, baseSha>>

Rebase ==
    /\ AtRebase
    /\ Task \notin midRebase
    /\ branch' = [branch EXCEPT ![Task] = @ \cup base]
    /\ rebasedNow' = TRUE
    /\ Go("verify")
    /\ UNCHANGED <<midRebase, disk, mem, attempts, taskSha, baseSha>>

RebaseConflicts ==
    /\ AtRebase
    /\ Task \notin midRebase
    /\ Park("REBASE_CONFLICT")
    /\ UNCHANGED <<branch, midRebase>>

(* `git rebase' refuses to start while another rebase is under way; what   *)
(* the abort then undoes is that one.                                      *)
RebaseRefused ==
    /\ AtRebase
    /\ Task \in midRebase
    /\ Park("REBASE_CONFLICT")
    /\ midRebase' = midRebase \ {Task}
    /\ UNCHANGED branch

(* It refuses to start over uncommitted changes too, and then there is     *)
(* nothing to abort.                                                       *)
AbortFails ==
    /\ At("rebase")
    /\ Task \notin midRebase
    /\ edits[Task] # {}
    /\ GitError
    /\ UNCHANGED <<git, verified>>

AtVerify ==
    /\ At("verify")
    /\ UNCHANGED <<git, control, sessions>>

ReverifyPasses ==
    /\ AtVerify
    /\ verified' = [verified EXCEPT ![Task] = branch[Task] \cup edits[Task]]
    /\ Requeue

ReverifyFails ==
    /\ AtVerify
    /\ Park("REVERIFY_FAILED")
    /\ UNCHANGED verified

(* _mark_merged. *)
MarkMerged ==
    /\ At("mark")
    /\ Save([mem EXCEPT !.st[Task] = "merged",
                        !.merged[Task] = taskSha,
                        !.queue = Without(@, Task)])
    /\ Go("clean_worktree")
    /\ UNCHANGED <<git, control, sessions, local, verified>>

(* integrate.py, cleanup_merged: best effort, in two steps. *)
CleanWorktree ==
    /\ At("clean_worktree")
    /\ \/ /\ wt' = wt \ {Task}
          /\ edits' = [edits EXCEPT ![Task] = {}]
          /\ midRebase' = midRebase \ {Task}
       \/ UNCHANGED <<wt, edits, midRebase>>
    /\ Go("clean_branch")
    /\ UNCHANGED <<base, branch, disk, mem, control, sessions, local, verified>>

CleanBranch ==
    /\ At("clean_branch")
    /\ branch' = IF Task \in wt THEN branch ELSE [branch EXCEPT ![Task] = None]
    /\ Save(mem)
    /\ NextTask
    /\ UNCHANGED <<base, wt, edits, midRebase, control, sessions, verified>>

-----------------------------------------------------------------------------
(* What happens to the coordinator and to the repository from outside.     *)

Crash ==
    /\ pc \in Running
    /\ crashes < MaxCrashes /\ crashes + made[Ext] < MaxDisturbances
    /\ crashes' = crashes + 1
    /\ midRebase' \in {midRebase} \cup
           (IF pc = "rebase" THEN {midRebase \cup {Task}} ELSE {})
    /\ Exit("off")
    /\ UNCHANGED <<base, branch, wt, edits, disk, verified, made,
                   starts, interventions>>

ExternalCommit ==
    /\ made[Ext] < MaxExternal /\ crashes + made[Ext] < MaxDisturbances
    /\ made' = [made EXCEPT ![Ext] = @ + 1]
    /\ base' = base \cup {<<Ext, made[Ext] + 1>>}
    /\ UNCHANGED <<branch, wt, edits, midRebase, disk, mem, pc, control, todo,
                   sessions, local, verified, starts, crashes, interventions>>

(* Between two runs a user drops a commit from the base branch ...         *)
RewriteBase ==
    /\ pc \in Idle
    /\ interventions < MaxInterventions
    /\ interventions' = interventions + 1
    /\ \E c \in base : base' = base \ {c}
    /\ UNCHANGED <<branch, wt, edits, midRebase, disk, mem, pc, control, todo,
                   sessions, local, verified, made, starts, crashes>>

(* ... or removes a worktree, with or without its branch.                  *)
RemoveWorktree(t) ==
    /\ pc \in Idle
    /\ t \in wt
    /\ interventions < MaxInterventions
    /\ interventions' = interventions + 1
    /\ wt' = wt \ {t}
    /\ midRebase' = midRebase \ {t}
    /\ edits' = [edits EXCEPT ![t] = {}]
    /\ branch' \in {branch, [branch EXCEPT ![t] = None]}
    /\ UNCHANGED <<base, disk, mem, pc, control, todo, sessions, local,
                   verified, made, starts, crashes>>

-----------------------------------------------------------------------------
Loop ==
    \/ SkipMergedPhase \/ SkipAfterStop \/ BeginPhase \/ Finish
    \/ Prefork \/ PreforkFails \/ Preforked \/ EndPhase
    \/ PassOver \/ SkipPending \/ Dispatch
    \/ SessionsOver \/ StartIntegrate

Integrate ==
    \/ ReadRefs \/ NoBranch \/ CompareAndSwap \/ LoseRace
    \/ Rebase \/ RebaseConflicts \/ RebaseRefused \/ AbortFails
    \/ ReverifyPasses \/ ReverifyFails
    \/ MarkMerged \/ CleanWorktree \/ CleanBranch

EndOfSession(t) ==
    \/ SessionForks(t) \/ SessionForkFails(t)
    \/ SessionSucceeds(t) \/ SessionFails(t)

Session(t) == SessionEdit(t) \/ SessionCommit(t) \/ EndOfSession(t)

Next ==
    \/ StartFresh \/ StartResume \/ StartCorrupted
    \/ Loop
    \/ Integrate
    \/ \E t \in Tasks : Session(t)
    \/ Crash \/ ExternalCommit \/ RewriteBase
    \/ \E t \in Tasks : RemoveWorktree(t)

Spec == Init /\ [][Next]_vars

(* The coordinator goes on with its own steps and with those of git.       *)
(* Nothing is assumed of the verify command, which integrate.py runs       *)
(* without a time limit, nor of a session: C2 kills it at its limit, but   *)
(* TaskAttempts shows three ways in which it never returns.                *)
Fairness == WF_vars(Loop \/ (Integrate /\ pc # "verify"))

FairSpec == Spec /\ Fairness

-----------------------------------------------------------------------------
(* Properties.                                                             *)

TypeOK ==
    /\ base \in Commit
    /\ branch \in [Tasks -> Commit \cup {None}]
    /\ wt \subseteq Tasks
    /\ edits \in [Tasks -> Commit]
    /\ midRebase \subseteq Tasks
    /\ disk \in CoordinatorState \cup {None}
    /\ mem \in CoordinatorState \cup {None}
    /\ pc \in Idle \cup Running
    /\ mode \in {"serial", "parallel"}
    /\ phase \in 1..(Len(Plan) + 1)
    /\ todo \in Seq(Tasks)
    /\ sessions \subseteq Tasks
    /\ attempts \in Nat
    /\ taskSha \in Commit
    /\ baseSha \in Commit
    /\ verified \in [Tasks -> Commit \cup {None}]
    /\ rebasedNow \in BOOLEAN
    /\ made \in [Tasks \cup {Ext} -> Nat]
    /\ starts \in Nat /\ crashes \in Nat /\ interventions \in Nat

(* A task that a running coordinator, or the state file it keeps, calls    *)
(* merged is in the base branch at the commit recorded, whatever crashed   *)
(* or raced before (c7-phase-coordinator.md, I3 and I8).  A base branch    *)
(* rewritten by hand is noticed before a run goes on.                      *)
DurableMerge ==
    disk # None /\ (pc \in Running \/ interventions = 0) => MergesIntact(disk, base)

(* Nothing a session ever made is lost: it is in the base branch, in its   *)
(* task branch or in its worktree (I8).  Needed of the cleanup after a     *)
(* merge, which removes the last two.                                      *)
NoWorkLost ==
    interventions = 0 =>
        \A t \in Tasks : \A n \in 1..made[t] :
            \/ <<t, n>> \in base
            \/ branch[t] # None /\ <<t, n>> \in branch[t]
            \/ <<t, n>> \in edits[t]

(* I5: a session runs, and a worktree is created, only when every task of  *)
(* every earlier phase is merged.                                          *)
PhaseBarrier ==
    pc \in {"prefork", "sessions", "refs"} =>
        \A p \in 1..(phase - 1) : AllMerged(mem, p)

(* AC-1: the worktree a session starts in contains the merged work of all  *)
(* the tasks of the earlier phases.                                        *)
DependenciesVisible ==
    \A t \in sessions \cap wt : \A u \in EarlierThan(t) :
        mem.st[u] = "merged" => mem.merged[u] \subseteq branch[t]

(* The status all_merged of the state file means what it says.             *)
AllMergedIsAll ==
    disk # None /\ disk.status = "all_merged" =>
        \A t \in Tasks : disk.st[t] = "merged"

(* I10: the base branch is advanced only to a commit whose content is that *)
(* at which the task's verify command last passed.                         *)
VerifiedMerge ==
    [][CompareAndSwap => verified[Task] = taskSha]_vars

(* I10 within one call of _integrate: what it has rebased, it has verified *)
(* again, in every run, resumed ones included, as long as sessions commit  *)
(* everything they do.                                                     *)
VerifiedRebase ==
    [][CompareAndSwap /\ rebasedNow => verified[Task] = taskSha]_vars

(* I7: no step of the coordinator takes a commit off the base branch, even *)
(* when somebody else commits to it meanwhile.                             *)
BaseOnlyAdvances ==
    [][interventions' = interventions => base \subseteq base']_vars

(* Fail-stop: in serial mode no task is taken from "pending" once one of   *)
(* its phase is parked, and no task of a later phase is taken up at all.   *)
FailStop ==
    [][\A t \in Tasks :
          mem # None /\ mem' # None /\ starts' = starts
              /\ mem.st[t] = "pending" /\ mem'.st[t] = "executing" =>
              /\ \A p \in 1..(phase - 1) : ~ AnyParked(mem, p)
              /\ mode = "serial" => ~ AnyParked(mem, phase)]_vars

Waiting == pc = "verify" \/ (pc = "sessions" /\ sessions # {})

(* A run ends, however often update-ref fails and the rebases are in vain, *)
(* unless it waits for ever for a session or a verify command that does    *)
(* not end: the requeues of a task are bounded, and no order of the        *)
(* results of the sessions leaves it waiting for one that has come.        *)
RunEnds == pc \in Running ~> (pc \in Idle \/ []Waiting)

(* The state file as the promise of PhasedMerge sees it: tasks land phase  *)
(* by phase, stay landed when a run is resumed, and all_merged and stopped *)
(* are reported truthfully.                                                *)
Promise == INSTANCE PhasedMerge WITH
    landed  <- IF disk = None THEN {} ELSE {t \in Tasks : disk.st[t] = "merged"},
    outcome <- IF disk = None THEN "none" ELSE disk.status

ImplementsPhasedMerge == Promise!Spec

=============================================================================
