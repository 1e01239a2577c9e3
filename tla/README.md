# A TLA+ model of suiyin-flow

suiyin-flow runs AI coding sessions on a git repository. A feature is cut into
tasks; the tasks are planned into phases, carried out by headless agent sessions
in worktrees of their own, integrated into a feature branch, verified, reviewed,
and at last merged to main. Nearly everything is a Python process that calls git
and agents and keeps its state in files, so the questions worth a model are:
what a killed run leaves behind, what two runs do to each other, what changes
between a check and what rests on it, and whether a run ever ends.

The modules here are written from `src/src/suiyin_flow`. `PROJECT.json` maps
every definition to the lines it stands for, lists the hazards with the
properties about them, and the disagreements found between code and documents.

1. [The system](#1-the-system)
2. [Modules](#2-modules)
3. [Runs of TLC](#3-runs-of-tlc)
4. [Proofs](#4-proofs)
5. [Findings](#5-findings)
6. [What is not modelled](#6-what-is-not-modelled)
7. [Plan](#7-plan)

## 1. The system

| Component | State it keeps | Operations | Interacts with |
|---|---|---|---|
| C1 planning (`c1_planning`) | the plan block in `tasks.yaml` | `plan run`: cycle search, phases by fixpoint, semantic pass, write | read by C7; one AI session |
| C7 coordinator (`c7_coordinator`) | state file (task, phase and run status), base branch | start, resume, retry; per task: session, verify, rebase, compare-and-swap, cleanup | C2 sessions in threads, git, other committers, C7 lock |
| C2 executor (`c2_executor`) | task branch and worktree, worktree lock, cost ledger | attempts, session with watchdog, retry, adoption, push | agent process, its children, C7, batch or the command line |
| C2 batch (`c2_executor/batch.py`) | results of the tasks | load the manifest, precheck it against the base branch, run task after task until one fails | C2 executor, and other runs in the same worktrees |
| Pid locks (`c7_coordinator/lock.py`, `c2_executor/worktree.py`) | a file with a pid | acquire, take over, release | other processes by the file system |
| Lanes and build slots (`lane`) | directories with a lease file each | acquire, reclaim, release | other processes by the file system |
| Close harness (`close_harness`) | block file, verify worktree, report | the eight steps of `close run`, `block`, `unblock` | C4, C5, C6, acgate, authz, seamlint, mutation |
| C4 verify, C5 reviewer | reports stamped with a tree | verify; fetch diff, stamp, review | git, gh, one AI session |
| C6 gate (`c6_gate`) | remote and local main | rules, R1 recovery, fetch, push, update-ref | reports of C4 and C5, gh, other pushers |
| acgate (`acgate`) | `ac-manifest.yaml`: hashes of frozen tests | `run` between two refs, `freeze` | close harness, test author |
| Test author (`testauthor`) | a branch and worktree per run | session, path check, red check, freeze, report | one AI session, acgate |
| Mutation probe (`mutation`) | throwaway worktrees, verdict | baseline of each test command, then each mutant in a worktree of its own | close harness, services the tests use |
| authz, seamlint | none | static checks of a diff and a manifest | close harness |

What makes each of them hard, and what makes it correct:

* **C7** may be killed between any two steps and resumed, while others commit to
  the base branch. Merged work must stay merged and be what was verified; nothing
  a session made may be lost; phases must wait for one another; a run must end.
* **Pid locks** and **lanes** are built of file system calls none of which is
  atomic with the next. At most one process may hold each, holders must not lose
  what is theirs, and what a dead process held must come back.
* **C2** has four threads of control: main thread, watchdog, agent, and what the
  agent leaves behind, each of which may come between any two calls of the others. Success must be earned, no agent may outlive its attempt.
* **Batch, single runs and coordinator** share the worktrees, and the artifacts that
  a user edits meanwhile. An agent must be alone in its worktree and read what was
  committed; what is pushed and reported must have passed the gate.
* **Closing** looks its branches up afresh in every step, with no lock. What is
  pushed must be what was verified, reviewed and approved, while everything moves.
* **Planning** pushes tasks back until nothing clashes. It must reach a fixpoint,
  and the fixpoint must be a plan that C7 accepts and may run in parallel.
* **The mutation probe** rests its verdict on a baseline that may be out of date by
  the time of the mutants, and must leave nothing behind.
* **Frozen tests** pass through many hands (author, red command, freeze, tasks,
  rebases, closings) and must be worth on main what they were when they were frozen.

## 2. Modules

| Module | Models | Kind |
|---|---|---|
| `PhasedMerge` | what C7 promises of the base branch | abstract specification |
| `Coordinator` | `statemachine.py`, `integrate.py`, `state.py`, `worktree.py` | implements `PhasedMerge` |
| `PidLock` | `lock.py`, the lock part of `worktree.py` | system call by system call |
| `LaneLease` | `allocator.py`, `semaphore.py` | system call by system call |
| `TaskAttempts` | `c2_executor/cli.py`, `session.py`, `retry.py`, `costlog.py` | one C2 run |
| `Batch` | `batch.py`, `prompt.py`, `worktree.py`, the order of `execute_task`, the cleanup of `integrate.py` | concurrent runs of C2 and C7 |
| `Close` | `harness.py`, `blocks.py`, C5's run, C6's gate | concurrent runs of closing |
| `Planning` | `planner.py`, `semantic.py`, `writer.py`, `plan.py` | from `tasks.yaml` to what C7 runs |
| `FrozenTests` | `testauthor/runner.py`, `acgate/gate.py`, harness step 1 | author, feature and main |
| `MutationProbe` | `mutation/runner.py` | one probe and its surroundings |
| `MC*` | small instances for TLC | |
| `*Proofs` | theorems | |

`Coordinator` takes for granted what `PidLock` and `TaskAttempts` are about: that
one coordinator runs, and that a session ends. `Planning` shows what `Coordinator`
assumes of its plan (`PlanAssumption`). `Close` leaves open what acgate says;
`FrozenTests` says what it says, `MutationProbe` what the mutation step says. `Batch`
composes what the three modules of C2 and C7 leave out: it judges the lock in one
step and takes it in another (`PidLock` has the calls), lets a session pass or fail
(`TaskAttempts`), gives the coordinator phases of one task (`Coordinator`), and asks
what these runs do to each other in the worktrees they share.

### Coordinator

A commit is the set of changes reachable from it, so that "is an ancestor of" is
`\subseteq` and a rebase is a union. `base` and `branch` are the refs, `wt` and
`edits` the worktrees, committed and not; `disk` is the state file and `mem` the
copy of a running coordinator, which is lost in a crash while `disk` is not. `pc`
walks through the loop (`Loop`: resuming, phases, dispatch) and through
`_integrate` (`Integrate`), one action per git command or save, since a crash can
fall between any two. Sessions are threads: they fork a worktree, edit, commit and
end in any order (`Session`). Outside stand `Crash`, `ExternalCommit` and a user
who resets the base branch or drops a worktree between runs.

### PidLock and LaneLease

Both go call by call, because that is where the trouble is. In `PidLock` a file is
an inode: a process that has opened it goes on writing to it after the name is
unlinked. To acquire is to create, or to open, read the pid, judge whether it lives,
open and write; to release, to open, compare and unlink; between any two of them
anybody may release, take over or die. In `LaneLease` directory and file are
separate, both by name; a lease is read, then its writer and its age are judged, and
a reclaiming process may act on a judgement that is no longer true. The ghost
`overlap` remembers whether two acquisitions have overlapped, and `raced` the lanes
at which a lease was reclaimed that was not a dead process's by then, or by two at
once: that is what each scheme cannot survive. `met` is the set of processes that
have held the lock since the process that is looking found it there.

### TaskAttempts

`Main` is the main thread, from the attempt's ledger row over the start of the agent
(`Spawn`), the prompt (`WritePrompt`, or `PromptFails`), the start of the timer
(`StartTimer`) and the reading of the output (`EndOfOutput`, or `ReadFails` and the
`Unwind` of the `finally`) to judgement, adoption and push. `Watchdog` is the timer
thread, which finds the agent running (`TimeIsUp`), sets its flag (`SetTimedOut`) and
kills (`KillTree`): the agent may exit with an answer, and the main thread judge it,
in between. The agent and its helpers share the standard output. The run may be
killed and started again.

### Batch

Each process is a `task batch`, a `task run` or a coordinator, which takes a task
from the checks of its inputs over worktree, lock, agent, gate and push to the
release of the lock; the coordinator makes the worktree beforehand and removes it
with its branch afterwards. An artifact is known by its version, on disk (`disk`),
on the base branch (`base`) and in each worktree (`wt`), so that reading an old one
shows; the artifacts may be edited, removed or committed at any time (`Change`), and
the manifest may lie outside the repository, where its check is skipped
(`CheckManifest`). What stands in a worktree's place may be a plain directory, made by
`mkdir(parents=True)` after the worktree has gone. A lock is judged (`JudgeLock`), then
taken (`TakeLock`), and two runs may do both at once; the coordinator rebases a branch
in its worktree (`RebaseOnto`) and removes it with no eye for the lock. A killed run's
agent works on, and so may a helper of an agent that has exited (`HelperCommits`).
History variables remember what the properties except: worktrees at which the
coordinator was while others were in them (`pulled`), agents or helpers without a run
(`orphaned`), locks that two were taking at once (`overlap`), branches left without
worktree (`halfGone`), runs that were overtaken in making a worktree (`outrun`), and
runs during which the artifacts have changed (`edited`).

### MutationProbe

The catalog is arbitrary: at which commits a mutant applies, at which its command
passes, at which it sees the mutant. The probe makes a worktree, edits, tests and
drops it, first for each command, then for each mutant; every lookup of the
reference is of what it is then. The branch may move and a service fail
(`disturbed`); git may fail, a file may be unreadable, a command's output may be no
text, and each raises out of its step through the `finally` that removes the worktree;
and the probe may be killed.

### Close

A commit is `[f, o]`: how many commits of the feature and of others it has. Each
process is one `close run` or one `gate run` by hand with reports of earlier runs.
Every action is one step of the harness or one command of the gate; each looks up
its ref when it runs, as git does. The diff for the authorization is taken, the file it
goes to opened, and then written, since all runs for a feature share that file. The
feature branch is added to or rebased, main
is pushed to by others, gh fails, the pull request lags, the block file is set,
lifted or damaged, and runs are killed.

### Planning

Tasks are numbered in the order of the file; what two tasks write is reduced to
whether they overlap. `tasks.yaml` may hold a plan already, by hand or from an earlier
run; the coordinator goes by it after a dry run or a failed write, or if nobody plans
anew, and looks at its tasks and their dependencies, but not at overlaps. The cycle search is the three-colour depth-first search of
`detect_cycle`, a step at a time; `compute_phases` is modelled a task at a time,
twice, before and after the semantic pass, whose answer is any set of pairs.

### FrozenTests

A tree holds, for each test file, the set of its lines (a definition and an assertion
for each target, a skip that acgate knows, one that it does not, and a line that
begins with two dashes, whose removal acgate takes for a header); the version of each
specification; evidence for changed projections; the manifest; who has written
elsewhere; and what was moved under the test paths, which `git diff --name-only` does
not list where it was. `mains` is the history of main at the origin, `local` how much
of it the local main has, `base` how much the feature contains: acgate reads the local
main, a difference is from where the feature has left it, and a close pushes to the
origin's. `author` is the branch of the author's run and `work` its worktree.

The run is the pipeline of `run_author`: worktree, session, listed paths, red command,
verdict, and the freeze in its three steps, which writes entries, then pins, then
commits, and may fail or be cut off after each. Session and red command write and
commit what they like, entries of the manifest too. acgate is begun and judged in two
steps, with anything in between and after: tasks edit and freeze, the author's branch is
handed over, other features reach main, the local main is fetched, the feature rebased,
and the close pushes the feature as it is then.

## 3. Runs of TLC

`CHECK_DEADLOCK FALSE` stands in every configuration because all these programs
end, and a finished run has no further step. No state constraint is used: bounds
are guards on what the surroundings do (crashes, commits, edits), never on what
the program does.

| Run | States | Shows |
|---|---|---|
| `CoordinatorSerial` | @CS@ | Serial mode, two starts, resumed or afresh, retrying all parked tasks or none, one crash anywhere, one foreign commit, one intervention |
| `CoordinatorParallel` | @CP@ | Both modes, sessions with up to two commits each that may leave edits behind, with a crash, and with update-ref refused any number of times; liveness and refinement |
| `CoordinatorRetryIntegration` | | violation: `AllMergedIsAll` (finding) |
| `CoordinatorCrashAfterRebase` | | violation: `VerifiedMerge` (finding) |
| `PidLock` | @PL@ | Three processes, two crashes, all interleavings |
| `LaneLease` | @LL@ | Three processes, two lanes, two crashes, slow writers and ageing leases |
| `TaskAttempts` | @TA@ | Two retries, two runs, one crash |
| `Close` | @CL@ | Two runs of any kind, two feature commits, one foreign push, one pull request |
| `Planning` | @PN@ | All graphs on three tasks, two tasks with any plan in the file already, all ordered four-task manifests with all overlaps, one of five |
| `FrozenTests` | @FT@ | Two targets in one file; a busy run of the author alone, one handed over to a feature that goes on, and a feature with two or three edits of its own, with and without other features on main; any number of rebases, fetches and closings within these |
| `Batch` | @BA@ | Two runs of any kind, two tasks, two versions of the artifacts, one commit for each task branch; one mishap: a run killed, a helper cut loose, or the artifacts changed |
| `MutationProbe` | @MP@ | Two mutants, one or two commands, two commits, one failure of a service |

**Bounds.** Two tasks side by side and one that depends on them is the smallest
plan in which siblings race, one parks while the other integrates, and a later
phase has something to wait for. One crash is enough for each property about a
single resumption, two starts are needed to resume. `CoordinatorSerial` has a foreign
commit beside the crash. `CoordinatorParallel` has none (`MaxExternal = 0`), because
update-ref may be refused in it without one, by a lock on the ref, any number of times
(`LoseRace`): what ends the run is then the limit of requeues and nothing else. `PidLock` needs three processes: two that take over from a dead one.
`LaneLease` needs the third to take what a reclaimer believes dead, and the second
lane to pass on to. `Close` needs two runs to share the diff file and to overtake
each other's update-ref. Four tasks are needed for a conflict split to meet a
dependency the other way round; the fifth for `Overtaken`. `FrozenTests` needs
two targets in one file with different specifications so that a channel opened
for one excuses the other, and starts both with and without a frozen test on main. Its
four budgets (`MCBudgets`) say who may still edit how often: two edits of the session
and one of the red command, in one run, for what a verdict means; an edit of the
session and one of a task; two of tasks and one of another feature, for a main that
moves; and three of tasks, which is what it takes to weaken a test, freeze it as it is
and weaken it again.

`Batch` needs two runs for each way to meet (in making, using and removing a
worktree), two tasks for one to be skipped or to come after a success, and two
versions for a worktree to be out of date (`Artifacts`: an edit on disk, artifacts that
are not committed, a base branch that is not known); each mishap leads to exceptions of
its own, and `MaxMishaps` lets one happen. Its theorems hold for any number. In
`MutationProbe` two mutants with two commands are what a baseline can confuse, and
the second commit is what the branch can move to.

**Symmetry** is used in `PidLock`, `LaneLease`, `Close`, `Batch` (runs) and
`MutationProbe` (commands), where it permutes what the module never tells apart,
and where there is no liveness property.

**Fairness.** `Coordinator`: weak fairness of its one thread, but for the verify
command, which `integrate.py` runs without a time limit, and none of the sessions, which
may never return in three ways; `RunEnds` therefore excepts a run that waits for a
session or for a verify command for ever (`Waiting`). What is left to it are the
requeues, whatever update-ref does, and the results of sessions that come in any order.
`TaskAttempts`: weak fairness of the timer and of those steps of the main thread that
end in time (`Timely`), none of the agent, its helpers or the remote; `RunEnds` names
the three waits that nothing bounds: an agent that does not read its prompt, before there
is a timer; a helper that holds the output of an agent that has exited; and git push or
gh. `Planning`: weak fairness of its one thread, whose session has a timeout. `Close`,
`FrozenTests`, `Batch` and `MutationProbe` state none: verify command, red command and
test commands run without a timeout.

### Properties

*Coordinator.* `DurableMerge`: what memory or state file calls merged is in the
base branch. `NoWorkLost`: everything a session committed is in base, branch or
worktree. `PhaseBarrier`, `DependenciesVisible`: a session starts after, and on top
of, all earlier phases. `VerifiedRebase`: what a run rebased it verified before
merging. `BaseOnlyAdvances`. `FailStop`: after a park no sibling starts in serial
mode. `RunEnds`. `ImplementsPhasedMerge`: the state file, mapped to the abstract
specification, does nothing else.

*PidLock.* `ExclusiveUnlessOverlap`: two holders only after two overlapping
acquisitions. `RefusedOnlyByHolder`: a process is refused only for another that is
alive at the refusal and has held the lock since the refused found it there; that it
still has it is not promised, for it may release it after its pid was read.

*LaneLease.* `HoldersUndisturbed`: at a lane where no reclaim was raced, a holder's
lease and its tmp directory are its own, whatever races at others, though a process
that has raced at one lane goes on to those. `DeadLeasesReclaimed`: a process that passes
such a lane over leaves no dead lease there.

*TaskAttempts.* `SuccessIsEarned`: adopted only with exit code 0, an answer that
passed and a success in the ledger, wherever the timer's check, flag and kill fall.
`AgentReaped`: no agent runs on when an attempt is judged or the run has ended, unless
it was killed, or an exception came between the start of the agent and the timer's.
`RunEnds`.

*Batch.* `SessionIsAlone`: an agent works in a worktree, with its run's lock on it
and no other agent there, unless two were taking that lock at once, the coordinator was
there with others, or somebody was left there by a run that is over (`Disturbed`).
`InputsAreCommitted`: in a worktree that its own run has made, every session reads
committed artifacts in the version of the manifest that the run goes by, although the
checks are lookups at different times, as long as nobody changes them while the run is on
and the manifest is in the repository. `ResultsAreEarned`: what is pushed passed the gate,
with the exceptions of `SessionIsAlone`, and reports are true. `TracebackIsExplained`:
a run fails to make a worktree only for one of four named reasons.

*MutationProbe.* `VerdictIsEvidence`: undisturbed, a pass means that each mutant
applies, its command passes without it and fails with it, and a fail the contrary.
`NothingLeft`: worktrees go, however the probe ends, but for those whose removal failed
and the one in use when it was killed.

*Close.* `MergeIsChecked`: verify and review tickets are of the pushed tree, and the
diff the reviewer read, fetched before its ticket was stamped, is of the pushed tree.
`AuthzIsCurrent`: what authorization judges is the branch as it was when the run began,
or later, unless the file is just being written, or another run wrote into it a diff it
had taken before. `NothingHalfMerged`: the local main never runs ahead of the origin's,
and reports are true. `BlockHolds`.

*Planning.* `ScheduleIsSound`: no two tasks that overlap share a phase of a plan that is
made, and the coordinator takes it; whichever plan it goes by, no task comes before its
dependency, and none that overlap run side by side unless a plan that was in the file
already says so. `DiagnosesAreRight`: the cycle search agrees with a definition of
acyclic graphs that knows no search, and no task is later than dependencies and splits
ask for. `Ends`.

*FrozenTests.* `FrozenTestsKept`: a test that is frozen on the main acgate has read
loses no line that acgate can see, and is not skipped in a form it knows, by the close
that acgate has let pass, if the feature has not moved since acgate began, and however
main has; unless a specification in its file changed, evidence was given, or the
checkout's manifest does not list it. `VerdictIsEarned`: a pass means, for what the red
command has not written and nobody moved under the test paths, tests and nothing else, a
new entry, no entry gone, and every pin taken of the branch itself; a run that fails has
frozen nothing itself, and one that is cut off in the freeze nothing, or all of that.

Each of these has at least one mutant in `PROJECT.json`: a plausible bug in one
mapped definition, written beside it, under which TLC finds the property violated.

## 4. Proofs

All theorems hold for every value of the constants that meets the modules' named
assumptions: any plan, any number of processes, tasks, lanes, commits and crashes.
Some theorems about the coordinator have a hypothesis on the constants besides; each
is named in its statement and explained below. Every property of a passing run is
stated by a theorem, but for those that need fairness.

| Module | Theorems |
|---|---|
| `CoordinatorProofs` | `TypeCorrectness`, `MergesAreDurable`, `BaseAdvances`, `ParkedTasksStopTheRun`; under a hypothesis `PhasesAreBarriers`, `AllMergedIsTrue`, `KeepsThePromise` (the refinement), `SessionsSeeTheirDependencies`, `WorkIsKept`, `RebasesAreVerified` |
| `PidLockProofs` | `TypeCorrectness`, `LockExcludes`, `RefusalsAreJustified`, `ReleasesAreOwn` |
| `LaneLeaseProofs` | `TypeCorrectness`, `HoldersStayUndisturbed`, `DeadLeasesGo` |
| `TaskAttemptsProofs` | `TypeCorrectness`, `SuccessesAreEarned`, `AgentsAreReaped` |
| `BatchProofs` | `TypeCorrectness`, `SessionsAreAlone`, `InputsWereCommitted`, `ResultsWereEarned`, `TracebacksAreExplained` |
| `CloseProofs` | `TypeCorrectness`, `MergesAreChecked`, `AuthzIsRecent`, `MergesAreWhole`, `BlocksHold`, `RemoteAdvances` |
| `PlanningProofs` | `TypeCorrectness`, `SchedulesAreSound`, `DiagnosesStayRight` |
| `AcceptanceProofs` | of FrozenTests: `TypeCorrectness`, `TestsStayFrozen`, `VerdictsAreEarned`; of MutationProbe: `ProbeTypeCorrectness`, `VerdictsAreEvidence`, `ProbeLeavesNothing` |

How they go:

* **Coordinator.** `DurableMerge` is inductive only with `Control`, which says what
  the local variables of `_integrate` are at each `pc`: between the advance of the
  base and the save, the task in hand is in the base though no record says so, and
  the saved state never claims more than memory did. Base only grows except by
  intervention, which needs an idle coordinator, and resuming looks again (`IInv`).

  `OInv`, on top of it, is the order of a run: memory and state file say the same
  whenever the loop looks at a phase (`Synced`); only the phase at hand has tasks in
  motion, and none before it is parked; what a loop over the tasks has behind it is
  settled, because every task that was passed over had a reason (`SkipsExplained`,
  `LoopDone`); and a task still to be merged is in the merge queue (`Queues`). With it
  follow the barrier, the stop at a parked task, the meaning of all_merged and each step
  of the refinement: a step of the coordinator is one of `PhasedMerge`'s or changes
  neither the landed tasks nor the outcome. `Based` adds that a worktree with a session
  holds every merge of the earlier phases.

  `WInv` follows the commits: a session's edits are committed when it has succeeded,
  and the tip of a branch that is about to go is in the base (`Tips`), so that
  nothing is lost; a rebased commit is merged only when it is the one that was
  verified.

  The hypotheses are the boundaries of what the code does. `QueueIsRight`, serial mode
  or no `--retry-parked`, is exactly what finding 1 breaks: the merge queue is read in
  parallel mode only, and only a retry takes a task out of step with it.
  `ResumeFlags \subseteq {TRUE}`, no `--no-resume`, is what finding 3 breaks.
  `~ LeavesEdits`, sessions that succeed have committed what they did, is what C2's
  prompt asks of them; without it a cleanup removes edits, and a verification in the
  worktree sees files the commit has not. The runs that check these properties meet the
  hypotheses of their theorems: `CoordinatorSerial` is serial and leaves no edits;
  `CoordinatorParallel` retries nothing and always resumes.
* **PidLock.** `Meets`: the pid a process has read is of one that has held the lock
  since, or is dead, so that whoever is refused was refused by one of `met`. `Exclusive`:
  as long as no two acquisitions have overlapped, what a process at each call knows of
  the file (created it, judged it, rewrote it) is so.
* **LaneLease.** `Orderly`, of each lane that is not raced: directory and file belong to
  the process that is between mkdir and rmdir there, and one process at most removes
  them, for a dead one. No step at one lane touches another, so that the invariant is
  kept lane by lane.
* **TaskAttempts.** The timer is armed only while output is read, the agent lives only
  under the eyes of the main thread, and what was judged a success is not taken back:
  a late timer finds the agent gone (`TimerIsHeard`, `AgentIsWatched`, `Judged`).
* **Batch.** Five invariants, each from those before it. `Locks`: agents belong to
  sessions or to killed runs, plain directories stand only where a worktree was pulled, a
  run between lock and release has its worktree and its lock, and whoever takes a lock
  finds nobody inside and no other taker, at tasks that are not `Disturbed`. `Fresh`: as
  long as the artifacts stay, what a run has seen of them is so, and the worktree it
  forked has them. `GatedAtPush`: nothing comes between gate and push. `SoFar`: a run
  that goes on has seen successes only. `Traces`: how a branch and its worktree come
  apart. Most steps are those of one run that touch nothing shared (`Quiet`), and keep
  all five by one lemma.
* **Close.** `IInv` has one conjunct per process, saying which refs its tickets
  lie between. Refs only advance, so every other process's step keeps it (`Frame`);
  what a process sees is squeezed between two lookups of the same tree, so that
  the diff that was reviewed is the one that is pushed. `AInv` follows the shared file:
  what comes into it is in the hands of a run between its diff and its writing.
* **Planning.** `Layered`: a pass that has changed nothing has seen only what is
  right, so when a whole pass has changed nothing all of it is; a plan that was in the
  file before has passed the coordinator's own checks. Renumbering maps N
  distinct phases one to one into 1..N and is therefore onto. The diagnoses are a second
  invariant (`DInv`): each task on the stack depends on the next; what is black depends
  on black only, and every set of black tasks has one that depends on no other of it,
  since a task turns black when all it depends on is. This is where the induction over
  paths would be; as an invariant of the steps it needs none. Phases only grow between
  resets, so that a task above 1 is either in `splits` or at most one above one of its
  dependencies, and the last pass over the dependencies says at least one.
* **MutationProbe.** `ProbeInv` says what the probe has settled at each step: commands
  no longer to be checked are green (`BaselineIsGreen`), every mutant up to the one at
  hand has an outcome (`UpToHere`), and each outcome has its grounds in the commit
  probed (`Grounded`), as long as that is what the reference is (`Undisturbed`).
* **FrozenTests.** `GateSaw` says what acgate has looked at as long as it is current:
  the feature, where that has left the main acgate reads, and the findings about these
  two, whatever main does meanwhile. A silent gate has then seen every weakening, by
  cases on what happened to a file: a line that went is a kind of its own, unknown, or
  hidden behind a stale entry that blocks. `Known` follows branch and worktree of the
  author's run from session to verdict: each is `Sound` but for what the red command
  writes, the two differ in that only (`Together`), the worktree is `Complete` once the
  entries are in it, and `Pinned` once the hashes are.

Only model-checked: what needs fairness, which is `RunEnds` of `Coordinator`, `RunEnds`
of `TaskAttempts` and `Ends` of `Planning`. Proved beyond what passing runs check:
`AllMergedIsTrue` (its run is the one of finding 1, outside the hypothesis),
`ReleasesAreOwn` and `RemoteAdvances`.

## 5. Findings

With a counterexample of TLC:

1. `CoordinatorRetryIntegration`: in parallel mode `--retry-parked` of a task parked
   in integration is in no queue; the run passes it over and reports all_merged.
2. `CoordinatorCrashAfterRebase`: killed between rebase and verification, a resumed
   run fast-forwards to what nobody verified.

Named as exceptions in properties, or hypotheses of theorems; TLC finds a violation without each:

3. After `--no-resume` a task that was parked before starts in its old worktree, without
   what its dependencies have merged since, although the comment at the fork says that
   worktrees start from the base of now (`ResumeFlags \subseteq {TRUE}` of
   `SessionsSeeTheirDependencies`; `CoordinatorParallel` with both flags finds it).
4. The lock file is empty for a moment, and an empty file counts as stale; two
   processes can hold the lock (`overlap` in `ExclusiveUnlessOverlap` and in the
   properties of `Batch`).
5. The coordinator rebases a branch in a worktree where a `task run` is at work, and its
   cleanup takes the worktree from under it; the next step of that run then works in a
   plain directory inside the main checkout (`pulled`).
6. A killed run's agent goes on, and a second one joins it; so may a helper of an agent
   that has exited, behind the gate's back (`orphaned`).
7. A worktree that is used again may be older than the artifacts that were checked
   (`own` in `InputsAreCommitted`).
8. A batch ends in a traceback, without a report of its earlier tasks, when a worktree
   cannot be made (`TracebackIsExplained` names when).
9. A service that fails after the baseline, or a branch that moves, makes the mutation
   probe pass for no reason (`disturbed`).
10. Two reclaimers of one lane, or one with a judgement out of date, remove a lease that
    is alive (`raced`).
11. Of two closings at once, one may write an older diff into the file that the other's
    authorization then judges (`AuthzIsCurrent`).
12. What the red command writes is frozen or committed unchecked (`check.wrote`), and what
    is moved under the test paths is not seen to have gone (`moved`; `VerdictIsEarned`).
13. acgate does not see the removal of a line that begins with two dashes, nor a skip in a
    form it does not know (`Dashes` and `OtherSkip` in `FrozenTestsKept`); it judges the
    feature before other steps of closing, and the push is of what the feature is by then
    (`gate.current`), onto a main of the origin that it may not have read (`gate.upto`);
    and it goes by the manifest of the checkout (`gate.manifest`).

Seen while modelling, told in `PROJECT.json` with quotations: closing compares the
manifest with main, where tests frozen on the feature are not yet, so that their first
closing is blocked as stale; a timeout is never retried; a pull request's older head
may be reviewed; acgate, authz and mutation may look at an older head than what is
merged; update-ref without the old value; no report after an error of a close run; the
semantic pass can loosen a plan; a recorded split can be overtaken; order within a
phase; one red check for all targets.

## 6. What is not modelled

* **In the modelled parts.** C7: `--dry-run`, a changed manifest. C2: the
  prompt, the parsing of stream-json, which patterns the safety gate knows, an origin
  that moves on its own. Close: what acgate, authz, seamlint and mutation find
  (left open), the parsing of reviews, the review of a remote pull request alone.
  FrozenTests: moved lines (a file is a set of lines), entries without test names,
  evidence whose name contains another entry's number, several author runs at once, a
  handover to a feature that has moved, whose merge is its users' business.
* **Pure functions of text, without state:** authz, seamlint, the verdict of C4, the
  parser of findings, the overlap of paths. Unit tests reach them.
* **No behaviour over time:** command lines, templates, hooks, schemas, prompts.
* **Known hazards without a property:** a task whose rebase was killed is parked for a
  conflict it does not have, and an agent that closes its input ends the batch with a
  traceback (both modelled; the code promises nothing else); `verify_cmd` and the red
  command have no time limit.
* **Known hazards without a model:** `write_plan` rewrites `tasks.yaml` after its
  marker and loses a concurrent edit; `verify --target pr` verifies the checkout and
  stamps HEAD's tree after the run; `Finding(**f)` raises on a malformed finding;
  two `block`/`unblock` commands share one temporary name; acgate
  resolves its refs anew for each git call; the author's report names a tree that
  was resolved before the worktree was made; pids are reused by the system.
* **Out of reach of the prover:** liveness, ENABLED, and inductions over data; these
  stay with TLC.

## 7. Plan

Done, in the order of importance: coordinator and its promise, locks, lanes, C2
run, closing, planning, frozen tests, the runs side by side, the mutation probe;
proofs of every safety property that a passing run checks, and of the refinement of
`PhasedMerge`.

What a next step would be:

1. `MergePath`: an abstract specification of closing (only a tree that passed every
   step reaches main) with `Close` shown to implement it, the exceptions named.
2. `BlockFile`: concurrent `block` and `unblock` through one temporary name.
3. `tasks.yaml` whose tasks, and not only whose plan, are edited between planning and the
   coordinator's start.
4. Theorems for what `CoordinatorCrashAfterRebase` leaves open: `VerifiedMerge` for runs
   that are never killed and never retried.
