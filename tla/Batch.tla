------------------------------- MODULE Batch -------------------------------
(***************************************************************************)
(* The runs of C2 in one repository, side by side: `task batch`, which     *)
(* takes the tasks of tasks.yaml one after the other, `task run`, which    *)
(* takes one, and the coordinator, which merges what it ran and then       *)
(* removes its worktree and branch.  They share the worktrees, one for     *)
(* each task, with a lock file inside, and the artifacts a session reads:  *)
(* the manifest, the specification and the plan, on disk and on the base   *)
(* branch, known here by their version, which is 0 where there are none.   *)
(*                                                                         *)
(* A run may be killed; its agent lives on.  What PidLock says of the      *)
(* locks, TaskAttempts of the attempts and Coordinator of merging is not   *)
(* said again: a lock is judged in one step and taken in another, a session*)
(* passes or does not, a phase of the coordinator has one task, and there  *)
(* may be any number of coordinators.                                      *)
(***************************************************************************)
EXTENDS Integers, Sequences

CONSTANTS
    Procs,          \* the runs
    Tasks,
    Order,          \* the tasks of the manifest, as it lists them
    None,
    Artifacts,      \* bound: the versions <<disk, base>> of the artifacts there may be
    MaxMishaps      \* bound: kills, helpers cut loose and changes of the artifacts

Worktrees == [stray : BOOLEAN, version : Nat, lock : Procs \cup {None}]

ASSUME BatchAssumption ==
    /\ Order \in Seq(Tasks) /\ Order # <<>>
    /\ Artifacts \subseteq Nat \X (Nat \cup {None})
    /\ MaxMishaps \in Nat
    /\ None \notin Nat \cup BOOLEAN \cup {"gated", "ungated"} \cup Procs \cup Worktrees

VARIABLES
    disk,           \* the version of the artifacts in the main checkout
    base,           \* the version on the base branch; None: there is no such branch
    wt,             \* of a task: what is in its worktree's place
    branch,         \* of a task: has its branch commits of its own? None: no branch
    origin,         \* of a task: what origin has of it, or None
    pc,
    kind,           \* "batch", "run", "phase"
    manifest,       \* the version of the manifest it has loaded, or None
    at,             \* the place in Order the run is at
    results,        \* of run_batch: one for each task
    outcome,        \* of the task the run is at, once it is known
    own,            \* has the run itself forked the worktree it has its session in?
    agent,          \* "none", "working", "done"
    gated,          \* history: tasks whose branch, as it is, passed the safety gate
    passed,         \* history: tasks of which something did
    pulled,         \* history: tasks at whose worktree the coordinator was while others were
    orphaned,       \* history: tasks at which an agent, or its helper, is without a run
    overlap,        \* history: tasks whose lock two runs were taking at once
    halfGone,       \* history: tasks of which a killed run left the branch only
    outrun,         \* history: runs that found no worktree before another made one
    edited,         \* history: runs during which the artifacts have changed
    mishaps

artifacts == <<disk, base, edited>>
task == <<at, results, outcome, own>>
history == <<gated, passed, pulled, orphaned, overlap, halfGone, outrun>>
vars == <<artifacts, wt, branch, origin, pc, kind, manifest, task, agent, history, mishaps>>

Ended == {"over", "traceback", "dead"}

(* A run at a task whose worktree it has, or takes itself to have. *)
Using == {"lock", "taking", "spawn", "session", "gate", "push", "pr", "release"}

Running == Using \cup {"precheck", "check_manifest", "prefork", "preadd", "validate",
                       "look", "add", "integrate", "clean", "clean_branch"}

Task(p) == Order[at[p]]

IsWorktree(t) == wt[t] # None /\ ~ wt[t].stray

Init ==
    /\ disk = 1
    /\ base = 1
    /\ wt = [t \in Tasks |-> None]
    /\ branch = [t \in Tasks |-> None]
    /\ origin = [t \in Tasks |-> None]
    /\ pc = [p \in Procs |-> "new"]
    /\ kind = [p \in Procs |-> "batch"]
    /\ manifest = [p \in Procs |-> None]
    /\ at = [p \in Procs |-> 1]
    /\ results = [p \in Procs |-> <<>>]
    /\ outcome = [p \in Procs |-> "none"]
    /\ own = [p \in Procs |-> FALSE]
    /\ agent = [p \in Procs |-> "none"]
    /\ gated = {}
    /\ passed = {}
    /\ pulled = {}
    /\ orphaned = {}
    /\ overlap = {}
    /\ halfGone = {}
    /\ outrun = {}
    /\ edited = {}
    /\ mishaps = 0

-----------------------------------------------------------------------------
(* What comes before the first task.                                       *)

Steps(p, from, to) ==
    /\ pc[p] = from
    /\ pc' = [pc EXCEPT ![p] = to]
    /\ edited' = IF to \in Ended THEN edited \ {p} ELSE edited
    /\ UNCHANGED <<disk, base, mishaps>>

(* A run that is over goes by no manifest. *)
Goes(p, from, to) ==
    /\ Steps(p, from, to)
    /\ manifest' = IF to \in Ended THEN [manifest EXCEPT ![p] = None] ELSE manifest

(* `task run` is given its task, and reads no manifest. *)
StartRun(p) ==
    /\ Goes(p, "new", "validate")
    /\ kind' = [kind EXCEPT ![p] = "run"]
    /\ \E i \in DOMAIN Order : at' = [at EXCEPT ![p] = i]
    /\ UNCHANGED <<wt, branch, origin, results, outcome, own, agent, history>>

(* load_tasks_yaml reads the manifest, once for all tasks, from the main   *)
(* checkout or from elsewhere.                                             *)
LoadManifest(p) ==
    /\ Steps(p, "new", "precheck")
    /\ \E m \in {disk, None} \ {0} : manifest' = [manifest EXCEPT ![p] = m]
    /\ \E k \in {"batch", "phase"} : kind' = [kind EXCEPT ![p] = k]
    /\ UNCHANGED <<wt, branch, origin, task, agent, history>>

(* It is not there, or invalid, or the run is a dry one.                   *)
LoadFails(p) ==
    /\ Goes(p, "new", "over")
    /\ UNCHANGED <<wt, branch, origin, kind, task, agent, history>>

(* Mutant: the files of the main checkout are looked at. *)
VisibleOnDisk == disk >= 1

(* git cat-file -e <base>:<ref>; where the base branch is not known, the   *)
(* files of the main checkout are looked at.                               *)
Visible == IF base = None THEN disk >= 1 ELSE base >= 1

(* precheck_refs_on_base leaves a base branch that is not known to         *)
(* execute_task.                                                           *)
PrecheckRefs(p) ==
    /\ Goes(p, "precheck", IF base = None \/ Visible THEN "check_manifest" ELSE "over")
    /\ UNCHANGED <<wt, branch, origin, kind, task, agent, history>>

(* The coordinator has the worktree of a task before C2 is asked to run it. *)
FirstStep(p) == IF kind[p] = "phase" THEN "prefork" ELSE "validate"

(* _check_manifest_on_base compares the file, which it reads again, with   *)
(* the base branch; a file that is elsewhere it does not check.            *)
ManifestOnBase(p) == manifest[p] = None \/ base = None \/ (base = disk /\ base >= 1)

(* A coordinator may also be refused for another that is at work (PidLock).*)
CheckManifest(p) ==
    /\ \/ ManifestOnBase(p) /\ Goes(p, "check_manifest", FirstStep(p))
       \/ ~ ManifestOnBase(p) /\ Goes(p, "check_manifest", "over")
       \/ kind[p] = "phase" /\ Goes(p, "check_manifest", "over")
    /\ UNCHANGED <<wt, branch, origin, kind, task, agent, history>>

-----------------------------------------------------------------------------
(* A task.                                                                 *)

Skipped(p) == IF kind[p] = "run" THEN <<>> ELSE [i \in 1..(Len(Order) - at[p]) |-> "skipped"]

(* A TaskExecutorError: the tasks that are left are skipped, and the run   *)
(* reports.                                                                *)
TaskFails(p, from) ==
    /\ Goes(p, from, "over")
    /\ results' = [results EXCEPT ![p] = Append(@, "failed") \o Skipped(p)]
    /\ outcome' = [outcome EXCEPT ![p] = "none"]
    /\ own' = [own EXCEPT ![p] = FALSE]
    /\ at' = at

(* execute_task before there is a worktree: high criticality, refs or seeds*)
(* that the base branch does not have, review feedback it cannot read, an  *)
(* unsafe verify command.                                                  *)
Validate(p) ==
    /\ \/ Visible /\ Goes(p, "validate", "look") /\ UNCHANGED task
       \/ TaskFails(p, "validate")
    /\ UNCHANGED <<wt, branch, origin, kind, agent, history>>

(* Mutant: the place of the worktree is not looked at. *)
LookAway(p) ==
    /\ \/ Goes(p, "look", "add")
       \/ Goes(p, "prefork", "preadd")
    /\ UNCHANGED <<task, wt, branch, origin, kind, agent, history>>

(* ensure_worktree: what is there is used again if its branch is the       *)
(* task's.  An agent, or a rebase that was killed, may have left another   *)
(* there; a plain directory shows the branch of the main checkout.         *)
Look(p) ==
    /\ \/ /\ wt[Task(p)] = None
          /\ Goes(p, "look", "add") \/ Goes(p, "prefork", "preadd")
          /\ UNCHANGED task
       \/ /\ IsWorktree(Task(p))
          /\ Goes(p, "look", "lock") \/ Goes(p, "prefork", "validate")
          /\ UNCHANGED task
       \/ /\ wt[Task(p)] # None
          /\ TaskFails(p, "look") \/ TaskFails(p, "prefork")
    /\ UNCHANGED <<wt, branch, origin, kind, agent, history>>

(* The runs other than p that have found nothing in t's place. *)
ToAdd(p, t) == {q \in Procs \ {p} : pc[q] \in {"preadd", "add"} /\ Task(q) = t}

(* git worktree add -b *)
Add(p) ==
    LET t == Task(p)
    IN  /\ base # None /\ wt[t] = None /\ branch[t] = None
        /\ Goes(p, "add", "lock") \/ Goes(p, "preadd", "validate")
        /\ wt' = [wt EXCEPT ![t] = [stray |-> FALSE, version |-> base, lock |-> None]]
        /\ branch' = [branch EXCEPT ![t] = FALSE]
        /\ gated' = gated \ {t}
        /\ own' = [own EXCEPT ![p] = TRUE]
        /\ outrun' = (outrun \ {p}) \cup ToAdd(p, t)
        /\ UNCHANGED <<origin, kind, at, results, outcome, agent,
                       passed, pulled, orphaned, overlap, halfGone>>

(* It fails: a CalledProcessError, which is no error of C2.  The run ends  *)
(* and reports nothing.                                                    *)
AddFails(p) ==
    /\ base = None \/ wt[Task(p)] # None \/ branch[Task(p)] # None
    /\ Goes(p, "add", "traceback") \/ Goes(p, "preadd", "traceback")
    /\ outrun' = outrun \ {p}
    /\ UNCHANGED <<wt, branch, origin, kind, task, agent,
                   gated, passed, pulled, orphaned, overlap, halfGone>>

(* mkdir(parents=True) in the place of a worktree that has gone makes a    *)
(* plain directory, inside the main checkout.                              *)
Place(t) == IF wt[t] = None THEN [stray |-> TRUE, version |-> 0, lock |-> None] ELSE wt[t]

Outruns(p, t) == outrun' = IF wt[t] = None THEN outrun \cup ToAdd(p, t) ELSE outrun

(* Mutant: whoever holds the lock, it is taken over. *)
HeldByNone(p, t) == FALSE

HeldByOther(p, t) ==
    /\ wt[t] # None
    /\ wt[t].lock \notin {None, p}
    /\ pc[wt[t].lock] \in Running

(* The runs other than p that have found the lock of p's task to be free, *)
(* and have yet to take it.                                                *)
Takers(p) == {q \in Procs \ {p} : pc[q] = "taking" /\ Task(q) = Task(p)}

(* acquire_worktree_lock looks whether the lock is there, and whose it is, *)
JudgeLock(p) ==
    /\ ~ HeldByOther(p, Task(p))
    /\ Goes(p, "lock", "taking")
    /\ wt' = [wt EXCEPT ![Task(p)] = Place(Task(p))]
    /\ Outruns(p, Task(p))
    /\ overlap' = IF Takers(p) = {} THEN overlap ELSE overlap \cup {Task(p)}
    /\ UNCHANGED <<branch, origin, kind, task, agent,
                   gated, passed, pulled, orphaned, halfGone>>

(* and then writes its own pid to it, if the directory is still there.     *)
TakeLock(p) ==
    /\ Goes(p, "taking", "spawn")
    /\ wt' = IF wt[Task(p)] = None THEN wt ELSE [wt EXCEPT ![Task(p)].lock = p]
    /\ UNCHANGED <<branch, origin, kind, task, agent, history>>

TakeLockFails(p) ==
    /\ wt[Task(p)] = None
    /\ Goes(p, "taking", "traceback")
    /\ UNCHANGED <<wt, branch, origin, kind, task, agent, history>>

Locked(p) ==
    /\ HeldByOther(p, Task(p))
    /\ TaskFails(p, "lock")
    /\ UNCHANGED <<wt, branch, origin, kind, agent, history>>

(* run_session: its log goes to the worktree, or what is there, and the    *)
(* agent starts.                                                           *)
Spawn(p) ==
    /\ Goes(p, "spawn", "session")
    /\ agent' = [agent EXCEPT ![p] = "working"]
    /\ wt' = [wt EXCEPT ![Task(p)] = Place(Task(p))]
    /\ Outruns(p, Task(p))
    /\ UNCHANGED <<branch, origin, kind, task,
                   gated, passed, pulled, orphaned, overlap, halfGone>>

(* The task is over, the lock yet to be released. *)
HasOutcome(p, from, result) ==
    /\ Goes(p, from, "release")
    /\ outcome' = [outcome EXCEPT ![p] = result]
    /\ own' = [own EXCEPT ![p] = FALSE]
    /\ UNCHANGED <<at, results>>

(* Or about to be, once its branch is pushed. *)
Passes(p, from, to) ==
    /\ Goes(p, from, to)
    /\ outcome' = [outcome EXCEPT ![p] = "success"]
    /\ own' = [own EXCEPT ![p] = FALSE]
    /\ UNCHANGED <<at, results>>

(* The agent is not found, which is an error of C2, or it breaks the pipe  *)
(* its prompt is written to, which is none.                                *)
SpawnFails(p) ==
    /\ \E result \in {"failed", "uncaught"} : HasOutcome(p, "spawn", result)
    /\ wt' = [wt EXCEPT ![Task(p)] = Place(Task(p))]
    /\ Outruns(p, Task(p))
    /\ UNCHANGED <<branch, origin, kind, agent,
                   gated, passed, pulled, orphaned, overlap, halfGone>>

(* Mutant: the diff is not checked. *)
SessionOverUngated(p) ==
    /\ agent[p] = "done"
    /\ agent' = [agent EXCEPT ![p] = "none"]
    /\ \/ HasOutcome(p, "session", "failed")
       \/ Goes(p, "session", "spawn") /\ UNCHANGED task
       \/ kind[p] # "phase" /\ Passes(p, "session", "push")
    /\ UNCHANGED <<wt, branch, origin, kind, history>>

(* The session passed; or it is tried again; or there were enough tries.   *)
SessionOver(p) ==
    /\ agent[p] = "done"
    /\ agent' = [agent EXCEPT ![p] = "none"]
    /\ \/ HasOutcome(p, "session", "failed")
       \/ Goes(p, "session", "spawn") /\ UNCHANGED task
       \/ Goes(p, "session", "gate") /\ UNCHANGED task
    /\ UNCHANGED <<wt, branch, origin, kind, history>>

(* _finalize_success: the diff of whatever branch is checked out there.    *)
(* The coordinator wants nothing pushed, and `task run` has --no-pr.       *)
Gate(p) ==
    LET t == Task(p)
    IN  /\ \/ /\ wt[t] # None
              /\ \/ kind[p] # "phase" /\ Passes(p, "gate", "push")
                 \/ kind[p] # "batch" /\ Passes(p, "gate", "release")
              /\ gated' = IF IsWorktree(t) THEN gated \cup {t} ELSE gated
              /\ passed' = IF IsWorktree(t) THEN passed \cup {t} ELSE passed
           \/ HasOutcome(p, "gate", "failed") /\ UNCHANGED <<gated, passed>>
        /\ UNCHANGED <<wt, branch, origin, kind, agent,
                       pulled, orphaned, overlap, halfGone, outrun>>

(* A push that fails changes nothing; one that succeeds is followed by a   *)
(* pull request, where there is gh.                                        *)
Push(p) ==
    LET t == Task(p)
    IN  /\ \/ Goes(p, "push", "release") /\ origin' = origin
           \/ /\ wt[t] # None /\ branch[t] # None
              /\ Goes(p, "push", "release") \/ Goes(p, "push", "pr")
              /\ origin' = [origin EXCEPT ![t] = IF t \in gated THEN "gated" ELSE "ungated"]
        /\ UNCHANGED <<wt, branch, kind, task, agent, history>>

(* gh is started in the worktree: an OSError if that has gone. *)
OpenPr(p) ==
    /\ HasOutcome(p, "pr", IF wt[Task(p)] = None THEN "uncaught" ELSE "success")
    /\ UNCHANGED <<wt, branch, origin, kind, agent, history>>

Unlocked(p, t) ==
    IF wt[t] # None /\ wt[t].lock = p THEN [wt EXCEPT ![t].lock = None] ELSE wt

(* Mutant: the last task is followed by another. *)
IsLastOffByOne(p) == kind[p] = "run" \/ at[p] > Len(Order)

IsLast(p) == kind[p] = "run" \/ at[p] = Len(Order)

(* On to the next task. *)
Advance(p, from) ==
    /\ Goes(p, from, IF IsLast(p) THEN "over" ELSE FirstStep(p))
    /\ at' = [at EXCEPT ![p] = IF IsLast(p) THEN @ ELSE @ + 1]
    /\ own' = [own EXCEPT ![p] = FALSE]

(* release_worktree_lock removes its own lock only; the coordinator        *)
(* integrates what succeeded.                                              *)
Release(p) ==
    /\ pc[p] = "release"
    /\ wt' = Unlocked(p, Task(p))
    /\ \/ outcome[p] = "failed" /\ TaskFails(p, "release")
       \/ outcome[p] = "uncaught" /\ Goes(p, "release", "traceback") /\ UNCHANGED task
       \/ /\ outcome[p] = "success"
          /\ results' = [results EXCEPT ![p] = Append(@, "success")]
          /\ outcome' = [outcome EXCEPT ![p] = "none"]
          /\ \/ kind[p] # "phase" /\ Advance(p, "release")
             \/ /\ kind[p] = "phase"
                /\ Goes(p, "release", "integrate")
                /\ UNCHANGED <<at, own>>
    /\ UNCHANGED <<branch, origin, kind, agent, history>>

(* Who else works in the worktree of t, a run or a killed run's agent. *)
Others(p, t) ==
    {q \in Procs \ {p} : Task(q) = t /\ (pc[q] \in Using \/ agent[q] = "working")}

Meddles(p, t) == pulled' = IF Others(p, t) = {} THEN pulled ELSE pulled \cup {t}

(* _integrate has no eye for the lock either.  A branch that is behind is  *)
(* rebased, in its worktree, onto the base; what fast-forwards is merged;  *)
(* what does neither, or is not there, is the end of the run.              *)
RebaseOnto(p) ==
    LET t == Task(p)
    IN  /\ Goes(p, "integrate", "integrate")
        /\ base # None /\ IsWorktree(t)
        /\ branch[t]
        /\ wt' = [wt EXCEPT ![t].version = base]
        /\ gated' = gated \ {t}
        /\ Meddles(p, t)
        /\ UNCHANGED <<branch, origin, kind, task, agent,
                       passed, orphaned, overlap, halfGone, outrun>>

Merge(p) ==
    /\ branch[Task(p)] # None
    /\ Goes(p, "integrate", "clean")
    /\ UNCHANGED <<wt, branch, origin, kind, task, agent, history>>

Park(p) ==
    /\ Goes(p, "integrate", "over")
    /\ UNCHANGED <<wt, branch, origin, kind, task, agent, history>>

(* cleanup_merged, which has no eye for the lock: git worktree remove      *)
(* --force, whose failure is ignored, then git branch -D, which refuses    *)
(* while there is a worktree.                                              *)
CleanWorktree(p) ==
    LET t == Task(p)
    IN  /\ Goes(p, "clean", "clean_branch")
        /\ \/ UNCHANGED <<wt, pulled>>
           \/ /\ IsWorktree(t)
              /\ wt' = [wt EXCEPT ![t] = None]
              /\ Meddles(p, t)
        /\ UNCHANGED <<branch, origin, kind, task, agent,
                       gated, passed, orphaned, overlap, halfGone, outrun>>

CleanBranch(p) ==
    /\ Advance(p, "clean_branch")
    /\ \/ IsWorktree(Task(p)) /\ UNCHANGED <<branch, gated>>
       \/ /\ ~ IsWorktree(Task(p))
          /\ branch' = [branch EXCEPT ![Task(p)] = None]
          /\ gated' = gated \ {Task(p)}
    /\ UNCHANGED <<wt, origin, kind, results, outcome, agent,
                   passed, pulled, orphaned, overlap, halfGone, outrun>>

-----------------------------------------------------------------------------
Mishap == mishaps < MaxMishaps /\ mishaps' = mishaps + 1

(* external: agents, also those of runs that were killed, and helpers that *)
(* an agent has cut loose; in a plain directory they have no branch of the *)
(* task.                                                                   *)

Commits(t) ==
    /\ IsWorktree(t)
    /\ branch' = [branch EXCEPT ![t] = TRUE]
    /\ gated' = gated \ {t}
    /\ UNCHANGED <<artifacts, wt, origin, pc, kind, manifest, task, agent,
                   passed, pulled, orphaned, overlap, halfGone, outrun, mishaps>>

AgentCommits(p) == agent[p] = "working" /\ Commits(Task(p))

AgentExits(p) ==
    /\ agent[p] = "working"
    /\ agent' = [agent EXCEPT ![p] = IF pc[p] = "dead" THEN "none" ELSE "done"]
    /\ \/ UNCHANGED <<orphaned, mishaps>>
       \/ Mishap /\ orphaned' = orphaned \cup {Task(p)}
    /\ UNCHANGED <<artifacts, wt, branch, origin, pc, kind, manifest, task,
                   gated, passed, pulled, overlap, halfGone, outrun>>

HelperCommits == \E t \in orphaned : Commits(t)

(* kill -9 of a run. *)
Crash(p) ==
    /\ pc[p] \in Running
    /\ Mishap
    /\ pc' = [pc EXCEPT ![p] = "dead"]
    /\ orphaned' = IF agent[p] = "working" THEN orphaned \cup {Task(p)} ELSE orphaned
    /\ halfGone' = IF pc[p] = "clean_branch" THEN halfGone \cup {Task(p)} ELSE halfGone
    /\ manifest' = [manifest EXCEPT ![p] = None]
    /\ edited' = edited \ {p}
    /\ outrun' = outrun \ {p}
    /\ UNCHANGED <<disk, base, wt, branch, origin, kind, task, agent,
                   gated, passed, pulled, overlap>>

(* The artifacts are edited, or removed, in the main checkout, and the base*)
(* branch comes to have others, or none, from there or from elsewhere.     *)
Change ==
    /\ Mishap
    /\ \E other \in Artifacts \ {<<disk, base>>} : disk' = other[1] /\ base' = other[2]
    /\ edited' = edited \cup {p \in Procs : pc[p] \in Running}
    /\ UNCHANGED <<wt, branch, origin, pc, kind, manifest, task, agent, history>>

-----------------------------------------------------------------------------
RunBatch(p) == LoadManifest(p) \/ LoadFails(p) \/ PrecheckRefs(p) \/ CheckManifest(p)

EnsureWorktree(p) == Look(p) \/ Add(p) \/ AddFails(p)

AcquireLock(p) == JudgeLock(p) \/ TakeLock(p) \/ TakeLockFails(p) \/ Locked(p)

Attempts(p) == Spawn(p) \/ SpawnFails(p) \/ SessionOver(p)

FinalizeSuccess(p) == Gate(p) \/ Push(p) \/ OpenPr(p)

ExecuteTask(p) ==
    \/ Validate(p) \/ EnsureWorktree(p) \/ AcquireLock(p)
    \/ Attempts(p) \/ FinalizeSuccess(p) \/ Release(p)

Integrate(p) == RebaseOnto(p) \/ Merge(p) \/ Park(p) \/ CleanWorktree(p) \/ CleanBranch(p)

Run(p) == StartRun(p) \/ RunBatch(p) \/ ExecuteTask(p) \/ Integrate(p)

Agent(p) == AgentCommits(p) \/ AgentExits(p)

Next == (\E p \in Procs : Run(p) \/ Agent(p) \/ Crash(p)) \/ HelperCommits \/ Change

Spec == Init /\ [][Next]_vars

-----------------------------------------------------------------------------
TypeOK ==
    /\ disk \in Nat
    /\ base \in Nat \cup {None}
    /\ wt \in [Tasks -> Worktrees \cup {None}]
    /\ branch \in [Tasks -> BOOLEAN \cup {None}]
    /\ \A t \in Tasks : IsWorktree(t) => branch[t] # None
    /\ origin \in [Tasks -> {None, "gated", "ungated"}]
    /\ pc \in [Procs -> Running \cup Ended \cup {"new"}]
    /\ kind \in [Procs -> {"batch", "run", "phase"}]
    /\ manifest \in [Procs -> Nat \cup {None}]
    /\ at \in [Procs -> DOMAIN Order]
    /\ results \in [Procs -> Seq({"success", "failed", "skipped"})]
    /\ outcome \in [Procs -> {"none", "success", "failed", "uncaught"}]
    /\ own \in [Procs -> BOOLEAN]
    /\ agent \in [Procs -> {"none", "working", "done"}]
    /\ gated \subseteq Tasks /\ passed \subseteq Tasks
    /\ pulled \subseteq Tasks /\ orphaned \subseteq Tasks /\ overlap \subseteq Tasks
    /\ halfGone \subseteq Tasks
    /\ outrun \subseteq Procs /\ edited \subseteq Procs
    /\ mishaps \in Nat

(* Where what follows makes exceptions: two runs were taking the lock at   *)
(* once, the coordinator was at the worktree with others in it, or somebody*)
(* is there whose run is over.                                             *)
Disturbed == pulled \cup orphaned \cup overlap

(* I2 and I8 of c2-task-executor.md: an agent works in a worktree, never   *)
(* in the main checkout, with the lock of its run on it, and no other agent*)
(* works there - but for the exceptions named above.                       *)
SessionIsAlone ==
    \A p \in Procs :
        agent[p] = "working" /\ Task(p) \notin Disturbed =>
            /\ IsWorktree(Task(p))
            /\ wt[Task(p)].lock = p
            /\ \A q \in Procs \ {p} : Task(q) = Task(p) => agent[q] # "working"

(* What a session reads has been committed: a worktree that its own run has*)
(* made has the artifacts, in the version of the manifest that the run goes*)
(* by, wherever the checks of run_batch and execute_task fall - as long as *)
(* nobody changes them while the run is on, and the manifest is in the     *)
(* repository.  A worktree that is used again has what it has.             *)
InputsAreCommitted ==
    \A p \in Procs :
        pc[p] = "session" /\ own[p] /\ p \notin edited /\ Task(p) \notin pulled =>
            /\ wt[Task(p)].version >= 1
            /\ manifest[p] \in {None, wt[Task(p)].version}

(* I9: nothing is pushed that did not pass the safety gate, in whatever    *)
(* order other runs of the task come and go - but for the same exceptions. *)
PushedIsGated ==
    \A t \in Tasks \ Disturbed : origin[t] # "ungated"

(* The report of a batch: tasks that succeeded, each of which passed the   *)
(* gate in some run, then at most one that failed, and the rest skipped.   *)
ReportIsTrue ==
    \A p \in Procs :
        kind[p] # "run" =>
            /\ \A i \in DOMAIN results[p] :
                /\ results[p][i] = "success" => Order[i] \in pulled \cup passed
                /\ results[p][i] # "success" =>
                        \A j \in DOMAIN results[p] : j > i => results[p][j] = "skipped"
            /\ Len(results[p]) <= Len(Order)

(* What leaves the machine, and what the user is told, has been through    *)
(* the gate (_finalize_success, run_batch).                                *)
ResultsAreEarned == PushedIsGated /\ ReportIsTrue

(* A run ends with a traceback, and the results of its earlier tasks are   *)
(* lost, only if its agent or gh could not be started; or for want of a    *)
(* base branch; or another run made the worktree first, or is between the  *)
(* removal of the worktree and that of the branch, or was killed there.    *)
TracebackIsExplained ==
    [][\A p \in Procs :
        pc'[p] = "traceback" /\ pc[p] \in {"add", "preadd"} =>
            \/ base = None
            \/ p \in outrun \/ Task(p) \in halfGone
            \/ \E q \in Procs \ {p} : pc[q] = "clean_branch" /\ Task(q) = Task(p)]_vars

=============================================================================
