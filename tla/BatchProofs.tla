---------------------------- MODULE BatchProofs ----------------------------
(***************************************************************************)
(* Proofs about Batch, for any number of runs, tasks, versions and mishaps.*)
(* The invariants are proved one after the other, each from those before   *)
(* it: who is in a worktree and with what lock (Locks), what a worktree is *)
(* forked from (Fresh), what the gate has seen of a branch that is about to*)
(* be pushed (GatedAtPush), what a run has reported so far (SoFar), and how*)
(* a worktree and its branch may have come apart (Traces).                 *)
(***************************************************************************)
EXTENDS Batch, SequenceTheorems, TLAPS

(* An agent is that of a session, or of a run that was killed.             *)
AgentIsOfSession ==
    \A p \in Procs :
        /\ agent[p] # "none" => pc[p] \in {"session", "dead"}
        /\ agent[p] = "working" /\ pc[p] = "dead" => Task(p) \in orphaned

(* A plain directory is there only where the coordinator has pulled a      *)
(* worktree away.                                                          *)
StraysArePulled == \A t \in Tasks : wt[t] # None /\ ~ IsWorktree(t) => t \in pulled

(* In the worktree, with the lock it has taken. *)
Inside == Using \ {"lock", "taking"}

(* A run at work has its worktree, and once it has taken the lock, the     *)
(* lock is its own.                                                        *)
Held(p) ==
    /\ pc[p] \in Using /\ Task(p) \notin pulled => IsWorktree(Task(p))
    /\ pc[p] \in Inside /\ Task(p) \notin Disturbed => wt[Task(p)].lock = p

WorktreeIsHeld == \A p \in Procs : Held(p)

(* Whoever takes the lock finds nobody inside, and no other taker. *)
NobodyIn ==
    \A p, q \in Procs :
        /\ p # q /\ pc[p] = "taking" /\ Task(q) = Task(p) /\ Task(p) \notin Disturbed
        => pc[q] \notin Inside \cup {"taking"}

Locks == AgentIsOfSession /\ StraysArePulled /\ WorktreeIsHeld /\ NobodyIn

(* Past the look at the base branch. *)
Checked == Running \ {"precheck", "check_manifest"}

Seen == Using \cup {"look", "add"}

(* As long as nobody changes the artifacts, what a run has seen of them is *)
(* so, and the worktree it has forked has them as they are.                *)
IsFresh(p) ==
    /\ pc[p] = "new" => manifest[p] = None /\ ~ own[p]
    /\ pc[p] \in Running /\ p \notin edited =>
        /\ manifest[p] \in {None, disk}
        /\ pc[p] \in Checked => ManifestOnBase(p)
        /\ pc[p] \in Seen => Visible
        /\ own[p] => /\ base # None
                     /\ IsWorktree(Task(p)) => wt[Task(p)].version = base

Fresh == \A p \in Procs : IsFresh(p)

(* Nothing comes between the gate and the push. *)
GatedAtPush ==
    \A p \in Procs : pc[p] = "push" /\ Task(p) \notin Disturbed => Task(p) \in gated

HasPassed(t) == t \in pulled \cup passed

(* Where the task that a run is at is in its results already. *)
Integrating == {"integrate", "clean", "clean_branch"}

(* How many of its tasks are done. *)
Done(p) == IF pc[p] \in Integrating THEN at[p] ELSE at[p] - 1

(* The outcome is that of the task the run is at. *)
OutcomeFits(p) ==
    /\ pc[p] = "new" => kind[p] # "run"
    /\ pc[p] \in Integrating \cup {"new"} => outcome[p] = "none"
    /\ pc[p] \in {"push", "pr"} => outcome[p] = "success"
    /\ outcome[p] = "success" => HasPassed(Task(p))

(* A run that goes on has seen nothing but successes. *)
CountFits(p) ==
    kind[p] # "run" /\ pc[p] \in {"new"} \cup Running =>
        /\ Len(results[p]) = Done(p)
        /\ \A i \in DOMAIN results[p] : results[p][i] = "success"

SoFar == \A p \in Procs : OutcomeFits(p) /\ CountFits(p)

(* ReportIsTrue, of one run. *)
TrueReport(p) ==
    kind[p] # "run" =>
        /\ \A i \in DOMAIN results[p] :
            /\ results[p][i] = "success" => HasPassed(Order[i])
            /\ results[p][i] # "success" =>
                    \A j \in DOMAIN results[p] : j > i => results[p][j] = "skipped"
        /\ Len(results[p]) <= Len(Order)

(* A branch without a worktree is one that a cleanup is removing, or was. *)
HalvesAreExplained ==
    \A t \in Tasks :
        branch[t] # None /\ wt[t] = None =>
            t \in halfGone \/ \E q \in Procs : pc[q] = "clean_branch" /\ Task(q) = t

(* What a run has found missing is missing, or it was outrun. *)
FoundMissing ==
    \A p \in Procs : pc[p] \in {"add", "preadd"} => p \in outrun \/ wt[Task(p)] = None

Traces == HalvesAreExplained /\ FoundMissing

-----------------------------------------------------------------------------
LEMMA OrderFacts ==
    /\ Len(Order) \in Nat \ {0} /\ DOMAIN Order = 1..Len(Order)
    /\ \A i \in 1..Len(Order) : Order[i] \in Tasks
BY BatchAssumption

LEMMA TaskType == TypeOK => \A p \in Procs : at[p] \in 1..Len(Order) /\ Task(p) \in Tasks
BY OrderFacts DEF TypeOK, Task

LEMMA SkippedType ==
    TypeOK => \A p \in Procs : Skipped(p) \in Seq({"success", "failed", "skipped"})
<1> SUFFICES ASSUME TypeOK, NEW p \in Procs
             PROVE  Skipped(p) \in Seq({"success", "failed", "skipped"})
  OBVIOUS
<1>1. Len(Order) - at[p] \in Nat
  BY TaskType, OrderFacts
<1> QED
  BY <1>1 DEF Skipped

(* A worktree with another lock. *)
LEMMA Relocked ==
    ASSUME NEW w \in Worktrees, NEW l \in Procs \cup {None}
    PROVE  /\ [w EXCEPT !.lock = l] \in Worktrees
           /\ [w EXCEPT !.lock = l].lock = l
           /\ [w EXCEPT !.lock = l].stray = w.stray
           /\ [w EXCEPT !.lock = l].version = w.version
BY DEF Worktrees

(* A directory that mkdir leaves is no worktree, and one that is there is  *)
(* left as it is.                                                          *)
LEMMA Places ==
    ASSUME TypeOK, NEW t \in Tasks
    PROVE  /\ Place(t) \in Worktrees
           /\ wt[t] = None => Place(t).stray /\ Place(t).lock = None
           /\ wt[t] # None => Place(t) = wt[t]
<1>1. CASE wt[t] = None
  BY <1>1 DEF Place, Worktrees
<1>2. CASE wt[t] # None
  BY <1>2 DEF Place, TypeOK
<1> QED
  BY <1>1, <1>2

-----------------------------------------------------------------------------
(* What a step of a run does to the runs, without EXCEPT.                  *)

Results == {"success", "failed", "skipped"}

Outcomes == {"none", "success", "failed", "uncaught"}

(* The other runs stay as they are, and the types are right. *)
Apart(p) ==
    /\ \A q \in Procs \ {p} :
        /\ pc'[q] = pc[q] /\ kind'[q] = kind[q] /\ manifest'[q] = manifest[q]
        /\ at'[q] = at[q] /\ results'[q] = results[q] /\ outcome'[q] = outcome[q]
        /\ own'[q] = own[q] /\ agent'[q] = agent[q]
        /\ q \in edited' <=> q \in edited
    /\ pc' \in [Procs -> Running \cup Ended \cup {"new"}]
    /\ kind' \in [Procs -> {"batch", "run", "phase"}]
    /\ manifest' \in [Procs -> Nat \cup {None}]
    /\ at' \in [Procs -> DOMAIN Order]
    /\ results' \in [Procs -> Seq(Results)]
    /\ outcome' \in [Procs -> Outcomes]
    /\ own' \in [Procs -> BOOLEAN]
    /\ agent' \in [Procs -> {"none", "working", "done"}]
    /\ edited' \subseteq Procs
    /\ UNCHANGED <<disk, base, mishaps>>

LEMMA Going ==
    ASSUME TypeOK, NEW p \in Procs, NEW from, NEW to \in Running \cup Ended, Goes(p, from, to)
    PROVE  /\ pc[p] = from /\ pc'[p] = to
           /\ \A q \in Procs \ {p} : pc'[q] = pc[q] /\ manifest'[q] = manifest[q]
                                     /\ (q \in edited' <=> q \in edited)
           /\ to \notin Ended => manifest' = manifest /\ edited' = edited
           /\ pc' \in [Procs -> Running \cup Ended \cup {"new"}]
           /\ manifest' \in [Procs -> Nat \cup {None}]
           /\ edited' \subseteq Procs
           /\ UNCHANGED <<disk, base, mishaps>>
BY DEF Goes, Steps, TypeOK

LEMMA Sets ==
    /\ Running \cap (Ended \cup {"new"}) = {} /\ "new" \notin Ended
    /\ Inside \subseteq Using /\ Using \subseteq Seen /\ Seen \subseteq Checked
    /\ Checked \subseteq Running
BY DEF Running, Ended, Using, Inside, Seen, Checked

(* Where nothing but its place changes. *)
LEMMA OnlyGoing ==
    ASSUME TypeOK, NEW p \in Procs, NEW from, NEW to \in Running \cup Ended, Goes(p, from, to),
           UNCHANGED <<kind, task, agent>>
    PROVE  Apart(p)
BY Going DEF Apart, TypeOK, task, Results, Outcomes

LEMMA TaskFailsDoes ==
    ASSUME TypeOK, NEW p \in Procs, NEW from, TaskFails(p, from), UNCHANGED <<kind, agent>>
    PROVE  /\ pc[p] = from /\ pc'[p] = "over" /\ outcome'[p] = "none" /\ own'[p] = FALSE
           /\ results'[p] = Append(results[p], "failed") \o Skipped(p)
           /\ at' = at
           /\ Apart(p)
<1>1. Append(results[p], "failed") \o Skipped(p) \in Seq(Results)
  BY SkippedType DEF TypeOK, Results
<1>2. /\ results'[p] = Append(results[p], "failed") \o Skipped(p)
      /\ results' \in [Procs -> Seq(Results)]
      /\ \A q \in Procs \ {p} : results'[q] = results[q]
  BY <1>1 DEF TaskFails, TypeOK, Results
<1>3. /\ outcome'[p] = "none" /\ own'[p] = FALSE /\ at' = at
      /\ outcome' \in [Procs -> Outcomes] /\ own' \in [Procs -> BOOLEAN]
      /\ \A q \in Procs \ {p} : outcome'[q] = outcome[q] /\ own'[q] = own[q]
  BY DEF TaskFails, TypeOK, Outcomes
<1>4. Goes(p, from, "over") /\ "over" \in Running \cup Ended
  BY DEF TaskFails, Ended
<1> QED
  BY <1>2, <1>3, <1>4, Going DEF Apart, TypeOK

LEMMA HasOutcomeDoes ==
    ASSUME TypeOK, NEW p \in Procs, NEW from, NEW result \in Outcomes,
           HasOutcome(p, from, result), UNCHANGED <<kind, agent>>
    PROVE  /\ pc[p] = from /\ pc'[p] = "release" /\ outcome'[p] = result /\ own'[p] = FALSE
           /\ UNCHANGED <<at, results, manifest, edited>>
           /\ Apart(p)
<1>1. Goes(p, from, "release") /\ "release" \in Running \ Ended
  BY DEF HasOutcome, Running, Using, Ended
<1> QED
  BY <1>1, Going DEF HasOutcome, Apart, TypeOK, Results, Outcomes

LEMMA PassesDoes ==
    ASSUME TypeOK, NEW p \in Procs, NEW from, NEW to \in Running \ Ended,
           Passes(p, from, to), UNCHANGED <<kind, agent>>
    PROVE  /\ pc[p] = from /\ pc'[p] = to /\ outcome'[p] = "success" /\ own'[p] = FALSE
           /\ UNCHANGED <<at, results, manifest, edited>>
           /\ Apart(p)
BY Going DEF Passes, Apart, TypeOK, Results, Outcomes

LEMMA AdvanceDoes ==
    ASSUME TypeOK, NEW p \in Procs, NEW from, Advance(p, from), UNCHANGED <<kind, agent>>,
           results' \in [Procs -> Seq(Results)], outcome' \in [Procs -> Outcomes],
           \A q \in Procs \ {p} : results'[q] = results[q] /\ outcome'[q] = outcome[q]
    PROVE  /\ pc[p] = from /\ pc'[p] \in {"over", "prefork", "validate"} /\ own'[p] = FALSE
           /\ pc'[p] = "over" => at' = at
           /\ pc'[p] # "over" => /\ kind[p] # "run" /\ at'[p] = at[p] + 1
                                 /\ manifest' = manifest /\ edited' = edited
           /\ Apart(p)
<1>1. /\ {"over", "prefork", "validate"} \subseteq Running \cup Ended
      /\ "prefork" \notin Ended /\ "validate" \notin Ended
  BY DEF Running, Using, Ended
<1>2. Goes(p, from, IF IsLast(p) THEN "over" ELSE FirstStep(p))
  BY DEF Advance
<1>3. /\ FirstStep(p) \in {"prefork", "validate"}
      /\ (IF IsLast(p) THEN "over" ELSE FirstStep(p)) \in {"over", "prefork", "validate"}
  BY DEF FirstStep
<1>4. /\ at'[p] = IF IsLast(p) THEN at[p] ELSE at[p] + 1
      /\ \A q \in Procs \ {p} : at'[q] = at[q]
      /\ IsLast(p) => at' = at
      /\ at' \in [Procs -> DOMAIN Order]
  <2>1. (IF IsLast(p) THEN at[p] ELSE at[p] + 1) \in DOMAIN Order
    BY TaskType, OrderFacts DEF IsLast
  <2>2. at' = [at EXCEPT ![p] = IF IsLast(p) THEN at[p] ELSE at[p] + 1]
    BY DEF Advance
  <2> QED
    BY <2>1, <2>2 DEF TypeOK
<1>5. /\ own'[p] = FALSE /\ own' \in [Procs -> BOOLEAN]
      /\ \A q \in Procs \ {p} : own'[q] = own[q]
  BY DEF Advance, TypeOK
<1>6. /\ pc[p] = from /\ pc'[p] = (IF IsLast(p) THEN "over" ELSE FirstStep(p))
      /\ \A q \in Procs \ {p} : pc'[q] = pc[q] /\ manifest'[q] = manifest[q]
                                /\ (q \in edited' <=> q \in edited)
      /\ pc'[p] \notin Ended => manifest' = manifest /\ edited' = edited
      /\ pc' \in [Procs -> Running \cup Ended \cup {"new"}]
      /\ manifest' \in [Procs -> Nat \cup {None}]
      /\ edited' \subseteq Procs
      /\ UNCHANGED <<disk, base, mishaps>>
  BY <1>1, <1>2, <1>3, Going
<1>7. IsLast(p) \/ kind[p] # "run"
  BY DEF IsLast
<1> QED
  BY <1>1, <1>3, <1>4, <1>5, <1>6, <1>7 DEF Apart, TypeOK

(* The lock is given back, and nothing else of the worktree.               *)
LEMMA UnlockedDoes ==
    ASSUME TypeOK, NEW p \in Procs, wt' = Unlocked(p, Task(p))
    PROVE  /\ wt' \in [Tasks -> Worktrees \cup {None}]
           /\ \A t \in Tasks :
                /\ IsWorktree(t)' = IsWorktree(t)
                /\ wt[t] = None => wt'[t] = None
                /\ wt[t] # None => /\ wt'[t] # None
                                   /\ wt'[t].version = wt[t].version
                                   /\ wt[t].lock # p => wt'[t].lock = wt[t].lock
<1>1. Task(p) \in Tasks
  BY TaskType
<1>2. CASE wt[Task(p)] # None /\ wt[Task(p)].lock = p
  <2>1. wt[Task(p)] \in Worktrees
    BY <1>1, <1>2 DEF TypeOK
  <2> DEFINE w == [wt[Task(p)] EXCEPT !.lock = None]
  <2>2. /\ w \in Worktrees /\ w # None
        /\ w.stray = wt[Task(p)].stray /\ w.version = wt[Task(p)].version
    BY <2>1, Relocked, BatchAssumption
  <2>3. wt' = [wt EXCEPT ![Task(p)] = w]
    BY <1>2 DEF Unlocked
  <2> HIDE DEF w
  <2>4. wt'[Task(p)] = w /\ \A t \in Tasks \ {Task(p)} : wt'[t] = wt[t]
    BY <1>1, <2>3 DEF TypeOK
  <2>5. wt' \in [Tasks -> Worktrees \cup {None}]
    BY <2>2, <2>3 DEF TypeOK
  <2>6. ASSUME NEW t \in Tasks
        PROVE  /\ IsWorktree(t)' = IsWorktree(t)
               /\ wt[t] = None => wt'[t] = None
               /\ wt[t] # None => /\ wt'[t] # None
                                  /\ wt'[t].version = wt[t].version
                                  /\ wt[t].lock # p => wt'[t].lock = wt[t].lock
    <3>1. CASE t # Task(p)
      BY <2>4, <3>1 DEF IsWorktree
    <3>2. CASE t = Task(p)
      BY <1>2, <2>2, <2>4, <3>2 DEF IsWorktree
    <3> QED
      BY <3>1, <3>2
  <2> QED
    BY <2>5, <2>6
<1>3. CASE ~ (wt[Task(p)] # None /\ wt[Task(p)].lock = p)
  <2>1. wt' = wt
    BY <1>3 DEF Unlocked
  <2>2. wt' \in [Tasks -> Worktrees \cup {None}]
    BY <2>1 DEF TypeOK
  <2>3. \A t \in Tasks : IsWorktree(t)' = IsWorktree(t)
    BY <2>1 DEF IsWorktree
  <2> QED
    BY <2>1, <2>2, <2>3
<1> QED
  BY <1>2, <1>3

-----------------------------------------------------------------------------
(* Steps of a run that nobody else takes notice of: where it goes, what it *)
(* has loaded, and what it reports.                                        *)

Shared == <<wt, branch, origin, gated, passed, pulled, orphaned, overlap, halfGone>>

(* The agent is gone, or there was none. *)
AgentGone(p) ==
    \/ agent'[p] = "none"
    \/ agent'[p] = agent[p] /\ pc[p] \notin {"session", "dead"}

(* It is inside, or comes to the lock of a worktree it has seen. *)
GoesInside(p) ==
    pc'[p] \in Using =>
        /\ Task(p)' = Task(p)
        /\ pc'[p] # "push"
        /\ \/ pc[p] \in Inside /\ pc'[p] \in Inside
           \/ pc'[p] = "lock" /\ IsWorktree(Task(p))

(* What it knows of the artifacts it has known, or sees now. *)
StaysFresh(p) ==
    /\ pc'[p] # "new"
    /\ pc'[p] \in Running =>
        /\ p \in edited' <=> p \in edited
        /\ own'[p] => own[p] /\ Task(p)' = Task(p) /\ pc[p] \in Running
        /\ \/ manifest'[p] = None
           \/ pc[p] = "new" /\ manifest'[p] = disk /\ pc'[p] \notin Checked
           \/ /\ pc[p] \in Running /\ manifest'[p] = manifest[p]
              /\ pc'[p] \in Checked => pc[p] \in Checked \/ ManifestOnBase(p)
        /\ pc'[p] \in Seen => pc[p] \in Seen \/ Visible

(* It goes on with what it has to report. *)
KeepsReport(p) ==
    /\ results'[p] = results[p]
    /\ kind'[p] # "run" => kind[p] # "run" \/ pc[p] = "new"
    /\ pc'[p] \in Running => pc[p] \in {"new"} \cup Running
    /\ pc'[p] \in Running /\ kind'[p] # "run" => Done(p)' = Done(p)

KeepsOutcome(p) ==
    /\ pc'[p] \in Integrating => outcome'[p] = "none"
    /\ pc'[p] \notin {"push", "pr"}
    /\ outcome'[p] = "success" => outcome[p] = "success" /\ Task(p)' = Task(p)

Reports(p) ==
    \/ KeepsReport(p) /\ KeepsOutcome(p)
    \/ TaskFails(p, pc[p]) /\ pc[p] \in Running \ Integrating /\ kind' = kind

FindsMissing(p) ==
    /\ pc'[p] \in {"add", "preadd"} => wt[Task(p)] = None /\ Task(p)' = Task(p)
    /\ outrun' \in {outrun, outrun \ {p}}
    /\ pc[p] # "clean_branch"

Quiet(p) ==
    /\ Apart(p)
    /\ AgentGone(p)
    /\ GoesInside(p)
    /\ StaysFresh(p)
    /\ Reports(p)
    /\ FindsMissing(p)
    /\ UNCHANGED Shared

(* Of a run that goes, or fails, from a place without an agent. *)
LEMMA QuietGoing ==
    ASSUME TypeOK, SoFar, NEW p \in Procs,
           NEW from \in Running \ (Inside \cup {"clean", "clean_branch"}), NEW to \in Running \cup Ended,
           Goes(p, from, to), UNCHANGED <<kind, task, agent, Shared>>,
           outrun' \in {outrun, outrun \ {p}},
           to \in Using => to = "lock" /\ IsWorktree(Task(p)),
           to \in Checked => from \in Checked \/ ManifestOnBase(p),
           to \in Seen => from \in Seen \/ Visible,
           from = "integrate" => to \in {"over", "clean"},
           from # "integrate" => to \notin Integrating,
           to \in {"add", "preadd"} => wt[Task(p)] = None
    PROVE  Quiet(p)
<1>1. /\ pc[p] = from /\ pc'[p] = to
      /\ to \notin Ended => manifest' = manifest /\ edited' = edited
      /\ Apart(p)
  BY Going, OnlyGoing
<1>2. Task(p)' = Task(p)
  BY DEF Task, task
<1>3. from \notin {"session", "dead"} /\ to # "new" /\ to \notin {"push", "pr"} /\ from # "new"
  BY Sets DEF Inside, Running, Using, Ended
<1>4. AgentGone(p) /\ GoesInside(p) /\ FindsMissing(p)
  BY <1>1, <1>2, <1>3 DEF AgentGone, GoesInside, FindsMissing
<1>5. StaysFresh(p)
  <2>1. CASE to \in Ended
    BY <1>1, <1>3, <2>1, Sets DEF StaysFresh
  <2>2. CASE to \notin Ended
    BY <1>1, <1>2, <1>3, <2>2, Sets DEF StaysFresh, task
  <2> QED
    BY <2>1, <2>2
<1>6. KeepsReport(p) /\ KeepsOutcome(p)
  <2>1. /\ results' = results /\ outcome' = outcome /\ at' = at /\ kind' = kind
    BY DEF task
  <2>2. to \in Running => (to \in Integrating <=> from \in Integrating)
    BY DEF Integrating, Ended, Running
  <2>3. to \in Running => Done(p)' = Done(p)
    BY <1>1, <2>1, <2>2 DEF Done
  <2>4. to \in Integrating => outcome[p] = "none"
    BY <1>1 DEF SoFar, OutcomeFits, Integrating, Ended
  <2> QED
    BY <1>1, <1>2, <1>3, <2>1, <2>3, <2>4 DEF KeepsReport, KeepsOutcome
<1> QED
  BY <1>1, <1>4, <1>5, <1>6 DEF Quiet, Reports

(* Of a run that gives its task up. *)
LEMMA QuietFailing ==
    ASSUME TypeOK, NEW p \in Procs, NEW from \in Running \ (Inside \cup Integrating),
           TaskFails(p, from), UNCHANGED <<kind, agent, outrun, Shared>>
    PROVE  Quiet(p)
<1>1. /\ pc[p] = from /\ pc'[p] = "over" /\ outcome'[p] = "none" /\ at' = at
      /\ Apart(p)
  BY TaskFailsDoes
<1>2. "over" \notin Running \cup {"new"} /\ from \notin {"session", "dead", "clean_branch"}
  BY Sets DEF Ended, Inside, Running, Using, Integrating
<1>3. AgentGone(p) /\ GoesInside(p) /\ FindsMissing(p) /\ StaysFresh(p)
  BY <1>1, <1>2, Sets DEF AgentGone, GoesInside, FindsMissing, StaysFresh
<1> QED
  BY <1>1, <1>3 DEF Quiet, Reports

(* Of a run whose agent is done. *)
LEMMA QuietSession ==
    ASSUME TypeOK, NEW p \in Procs, SessionOver(p)
    PROVE  Quiet(p)
<1>1. /\ agent'[p] = "none" /\ \A q \in Procs \ {p} : agent'[q] = agent[q]
      /\ agent' \in [Procs -> {"none", "working", "done"}]
      /\ UNCHANGED <<kind, outrun, Shared>>
  BY DEF SessionOver, TypeOK, history, Shared
<1>2. /\ pc[p] = "session" /\ pc'[p] \in {"release", "spawn", "gate"}
      /\ outcome'[p] = "success" => outcome[p] = "success"
      /\ own'[p] => own[p]
      /\ UNCHANGED <<at, results, manifest, edited>>
      /\ Apart(p)
  <2>1. CASE HasOutcome(p, "session", "failed")
    <3>1. Goes(p, "session", "release") /\ "release" \in Running \ Ended
      BY <2>1 DEF HasOutcome, Running, Using, Ended
    <3>2. /\ outcome'[p] = "failed" /\ own'[p] = FALSE /\ UNCHANGED <<at, results>>
          /\ outcome' \in [Procs -> Outcomes] /\ own' \in [Procs -> BOOLEAN]
          /\ \A q \in Procs \ {p} : outcome'[q] = outcome[q] /\ own'[q] = own[q]
      BY <2>1 DEF HasOutcome, TypeOK, Outcomes
    <3> QED
      BY <1>1, <3>1, <3>2, Going DEF Apart, TypeOK, Results
  <2>2. CASE (Goes(p, "session", "spawn") \/ Goes(p, "session", "gate")) /\ UNCHANGED task
    <3>1. {"spawn", "gate"} \subseteq Running \ Ended
      BY DEF Running, Using, Ended
    <3> QED
      BY <1>1, <2>2, <3>1, Going DEF Apart, TypeOK, Results, Outcomes, task
  <2> QED
    BY <2>1, <2>2 DEF SessionOver
<1>3. Task(p)' = Task(p)
  BY <1>2 DEF Task
<1>4. /\ {pc[p], pc'[p]} \subseteq Inside /\ pc'[p] \notin Integrating \cup {"push", "pr", "new"}
      /\ pc[p] \notin Integrating /\ pc'[p] \notin {"add", "preadd"}
  BY <1>2 DEF Inside, Using, Integrating
<1>5. AgentGone(p) /\ GoesInside(p) /\ FindsMissing(p)
  <2>1. AgentGone(p)
    BY <1>1 DEF AgentGone
  <2>2. GoesInside(p)
    BY <1>2, <1>3, <1>4 DEF GoesInside
  <2>3. FindsMissing(p)
    BY <1>1, <1>2 DEF FindsMissing
  <2> QED
    BY <2>1, <2>2, <2>3
<1>6. StaysFresh(p)
  BY <1>2, <1>3, <1>4, Sets DEF StaysFresh
<1>7. KeepsReport(p) /\ KeepsOutcome(p)
  BY <1>1, <1>2, <1>3, <1>4, Sets DEF KeepsReport, KeepsOutcome, Done
<1> QED
  BY <1>1, <1>2, <1>5, <1>6, <1>7 DEF Quiet, Reports

LEMMA QuietPr ==
    ASSUME TypeOK, SoFar, NEW p \in Procs, OpenPr(p)
    PROVE  Quiet(p)
<1>1. PICK result \in {"uncaught", "success"} : HasOutcome(p, "pr", result)
  BY DEF OpenPr
<1>2. /\ UNCHANGED <<kind, agent, outrun, Shared>>
      /\ result \in Outcomes
  BY DEF OpenPr, history, Shared, Outcomes
<1>3. /\ pc[p] = "pr" /\ pc'[p] = "release" /\ own'[p] = FALSE
      /\ UNCHANGED <<at, results, manifest, edited>>
      /\ Apart(p)
  BY <1>1, <1>2, HasOutcomeDoes
<1>4. Task(p)' = Task(p) /\ outcome[p] = "success"
  BY <1>3 DEF Task, SoFar, OutcomeFits
<1>5. /\ {pc[p], pc'[p]} \subseteq Inside /\ pc'[p] \notin Integrating \cup {"push", "pr", "new"}
      /\ pc[p] \notin Integrating \cup {"session", "dead"} /\ pc'[p] \notin {"add", "preadd"}
  BY <1>3 DEF Inside, Using, Integrating
<1>6. AgentGone(p) /\ GoesInside(p) /\ FindsMissing(p)
  BY <1>2, <1>3, <1>4, <1>5 DEF AgentGone, GoesInside, FindsMissing
<1>7. StaysFresh(p)
  BY <1>3, <1>4, <1>5, Sets DEF StaysFresh
<1>8. KeepsReport(p) /\ KeepsOutcome(p)
  BY <1>2, <1>3, <1>4, <1>5, Sets DEF KeepsReport, KeepsOutcome, Done
<1> QED
  BY <1>2, <1>3, <1>6, <1>7, <1>8 DEF Quiet, Reports

(* Of a run that begins. *)
LEMMA QuietStart ==
    ASSUME TypeOK, SoFar, Fresh, NEW p \in Procs, StartRun(p) \/ LoadManifest(p) \/ LoadFails(p)
    PROVE  Quiet(p)
<1>1. pc[p] = "new" /\ manifest[p] = None /\ ~ own[p] /\ outcome[p] = "none" /\ kind[p] # "run"
  BY DEF StartRun, LoadManifest, LoadFails, Goes, Steps, Fresh, IsFresh, SoFar, OutcomeFits
<1>2. UNCHANGED <<results, outcome, own, agent, outrun, Shared>>
  BY DEF StartRun, LoadManifest, LoadFails, task, history, Shared
<1>3. /\ {"validate", "precheck", "over"} \subseteq (Running \cup Ended) \ (Using \cup Integrating)
      /\ {"validate", "precheck"} \subseteq Running \ (Ended \cup Seen)
      /\ "precheck" \notin Checked
  BY DEF Running, Using, Ended, Integrating, Seen, Checked
<1>4. /\ pc'[p] \in {"validate", "precheck", "over"} /\ Apart(p)
      /\ pc'[p] = "validate" => kind'[p] = "run" /\ manifest' = manifest
      /\ pc'[p] = "precheck" => manifest'[p] \in {None, disk} /\ at' = at
      /\ pc'[p] # "over" => edited' = edited
  <2>1. CASE StartRun(p)
    <3>1. Goes(p, "new", "validate")
      BY <2>1 DEF StartRun
    <3>2. /\ kind'[p] = "run" /\ kind' \in [Procs -> {"batch", "run", "phase"}]
          /\ at' \in [Procs -> DOMAIN Order]
          /\ \A q \in Procs \ {p} : at'[q] = at[q] /\ kind'[q] = kind[q]
      BY <2>1 DEF StartRun, TypeOK
    <3> QED
      BY <1>2, <1>3, <3>1, <3>2, Going DEF Apart, TypeOK, Results, Outcomes
  <2>2. CASE LoadManifest(p)
    <3>1. /\ pc'[p] = "precheck" /\ pc' \in [Procs -> Running \cup Ended \cup {"new"}]
          /\ edited' = edited
          /\ \A q \in Procs \ {p} : pc'[q] = pc[q]
          /\ UNCHANGED <<disk, base, mishaps>>
      BY <1>3, <2>2 DEF LoadManifest, Steps, TypeOK
    <3>2. /\ kind' \in [Procs -> {"batch", "run", "phase"}]
          /\ manifest'[p] \in {disk, None} /\ manifest' \in [Procs -> Nat \cup {None}]
          /\ \A q \in Procs \ {p} : manifest'[q] = manifest[q] /\ kind'[q] = kind[q]
          /\ at' = at
      BY <2>2 DEF LoadManifest, TypeOK, task
    <3> QED
      BY <1>2, <3>1, <3>2 DEF Apart, TypeOK, Results, Outcomes
  <2>3. CASE LoadFails(p)
    <3>1. Goes(p, "new", "over") /\ UNCHANGED <<kind, task, agent>>
      BY <2>3 DEF LoadFails
    <3> QED
      BY <1>3, <3>1, Going, OnlyGoing
  <2> QED
    BY <2>1, <2>2, <2>3
<1>5. pc'[p] \notin Using \cup Integrating \cup {"new", "push", "pr", "add", "preadd"}
  BY <1>3, <1>4, Sets DEF Using, Running, Ended
<1>6. AgentGone(p) /\ GoesInside(p) /\ FindsMissing(p)
  BY <1>1, <1>2, <1>5 DEF AgentGone, GoesInside, FindsMissing
<1>7. StaysFresh(p)
  BY <1>1, <1>2, <1>3, <1>4, <1>5, Sets DEF StaysFresh, Ended
<1>8. KeepsReport(p) /\ KeepsOutcome(p)
  <2>1. pc[p] \notin Integrating
    BY <1>1 DEF Integrating
  <2>2. pc'[p] \in Running /\ kind'[p] # "run" => at' = at
    BY <1>4, Sets DEF Ended
  <2> QED
    BY <1>1, <1>2, <1>5, <2>1, <2>2 DEF KeepsReport, KeepsOutcome, Done
<1> QED
  BY <1>2, <1>4, <1>6, <1>7, <1>8 DEF Quiet, Reports

Silent(p) ==
    \/ StartRun(p) \/ RunBatch(p) \/ Validate(p) \/ Look(p) \/ AddFails(p)
    \/ TakeLockFails(p) \/ Locked(p) \/ SessionOver(p) \/ OpenPr(p) \/ Merge(p) \/ Park(p)

LEMMA SilentIsQuiet ==
    ASSUME TypeOK, SoFar, Fresh, NEW p \in Procs, Silent(p)
    PROVE  Quiet(p)
<1>1. CASE StartRun(p) \/ LoadManifest(p) \/ LoadFails(p)
  BY <1>1, QuietStart
<1>2. CASE SessionOver(p) \/ OpenPr(p)
  BY <1>2, QuietSession, QuietPr
<1> DEFINE Spots == {"precheck", "check_manifest", "validate", "look", "prefork", "add",
                       "preadd", "lock", "taking", "integrate"}
<1>3. Spots \subseteq Running \ (Inside \cup {"clean", "clean_branch"})
  BY DEF Running, Using, Inside
<1>4. {"over", "traceback"} \subseteq Ended /\ {"over", "traceback"} \cap (Checked \cup Integrating) = {}
  BY DEF Ended, Checked, Running, Using, Integrating
<1>5. CASE PrecheckRefs(p) \/ CheckManifest(p)
  <2>1. PICK from, to : /\ Goes(p, from, to)
                        /\ \/ from = "precheck" /\ to \in {"check_manifest", "over"}
                           \/ from = "check_manifest" /\ to = "over"
                           \/ /\ from = "check_manifest" /\ to \in {"prefork", "validate"}
                              /\ ManifestOnBase(p)
    BY <1>5 DEF PrecheckRefs, CheckManifest, FirstStep
  <2>2. UNCHANGED <<kind, task, agent, outrun, Shared>>
    BY <1>5 DEF PrecheckRefs, CheckManifest, history, Shared
  <2>3. /\ {"check_manifest", "prefork", "validate"} \subseteq Running \ (Seen \cup Integrating)
        /\ "check_manifest" \notin Checked
    BY DEF Running, Seen, Using, Checked, Integrating
  <2> QED
    BY <1>3, <1>4, <2>1, <2>2, <2>3, QuietGoing, Sets
<1>6. CASE Validate(p) \/ Look(p) \/ Locked(p)
  <2>1. UNCHANGED <<kind, agent, outrun, Shared>>
    BY <1>6 DEF Validate, Look, Locked, history, Shared
  <2>2. CASE \E from \in {"validate", "look", "prefork", "lock"} : TaskFails(p, from)
    <3>1. {"validate", "look", "prefork", "lock"} \subseteq Running \ (Inside \cup Integrating)
      BY DEF Running, Using, Inside, Integrating
    <3> QED
      BY <2>1, <2>2, <3>1, QuietFailing
  <2>3. CASE /\ UNCHANGED task
             /\ \/ Goes(p, "validate", "look") /\ Visible
                \/ Goes(p, "look", "add") /\ wt[Task(p)] = None
                \/ Goes(p, "prefork", "preadd") /\ wt[Task(p)] = None
                \/ Goes(p, "look", "lock") /\ IsWorktree(Task(p))
                \/ Goes(p, "prefork", "validate")
    <3>1. /\ {"validate", "look", "add", "preadd", "lock"} \subseteq Running \ (Integrating \cup Ended)
          /\ {"validate", "look", "prefork"} \subseteq Checked
          /\ {"validate", "preadd"} \cap Seen = {} /\ "look" \in Seen
          /\ {"validate", "look", "add", "preadd"} \cap Using = {}
      BY DEF Running, Using, Checked, Integrating, Seen, Ended
    <3> QED
      BY <1>3, <2>1, <2>3, <3>1, QuietGoing
  <2> QED
    BY <1>6, <2>2, <2>3 DEF Validate, Look, Locked
<1>7. CASE AddFails(p) \/ TakeLockFails(p)
  <2>1. PICK from \in {"add", "preadd", "taking"} : Goes(p, from, "traceback")
    BY <1>7 DEF AddFails, TakeLockFails
  <2>2. UNCHANGED <<kind, task, agent, Shared>> /\ outrun' \in {outrun, outrun \ {p}}
    BY <1>7 DEF AddFails, TakeLockFails, history, Shared
  <2> QED
    BY <1>3, <1>4, <2>1, <2>2, QuietGoing, Sets
<1>8. CASE Merge(p) \/ Park(p)
  <2>1. PICK to \in {"over", "clean"} : Goes(p, "integrate", to)
    BY <1>8 DEF Merge, Park
  <2>2. UNCHANGED <<kind, task, agent, outrun, Shared>>
    BY <1>8 DEF Merge, Park, history, Shared
  <2>3. "clean" \in Running \ (Using \cup Seen) /\ "integrate" \in Checked
    BY DEF Running, Using, Seen, Checked
  <2> QED
    BY <1>3, <1>4, <2>1, <2>2, <2>3, QuietGoing, Sets
<1> QED
  BY <1>1, <1>2, <1>5, <1>6, <1>7, <1>8 DEF Silent, RunBatch

-----------------------------------------------------------------------------
(* Steps that others take notice of, without EXCEPT.                       *)

(* The worktrees of the other tasks stay as they are. *)
OnlyAt(t) == \A u \in Tasks \ {t} : wt'[u] = wt[u] /\ IsWorktree(u)' = IsWorktree(u)

SameTasks == \A q \in Procs : Task(q)' = Task(q)

LEMMA AddDoes ==
    ASSUME TypeOK, NEW p \in Procs, Add(p)
    PROVE  /\ \/ pc[p] = "add" /\ pc'[p] = "lock"
              \/ pc[p] = "preadd" /\ pc'[p] = "validate"
           /\ base # None /\ wt[Task(p)] = None /\ branch[Task(p)] = None
           /\ wt' \in [Tasks -> Worktrees \cup {None}]
           /\ IsWorktree(Task(p))' /\ wt'[Task(p)].version = base
           /\ OnlyAt(Task(p)) /\ SameTasks
           /\ branch' \in [Tasks -> BOOLEAN \cup {None}] /\ branch'[Task(p)] = FALSE
           /\ \A t \in Tasks \ {Task(p)} : branch'[t] = branch[t]
           /\ gated' = gated \ {Task(p)}
           /\ outrun' = (outrun \ {p}) \cup ToAdd(p, Task(p))
           /\ own'[p] = TRUE
           /\ Apart(p)
           /\ UNCHANGED <<origin, kind, manifest, edited, at, results, outcome, agent,
                          passed, pulled, orphaned, overlap, halfGone>>
<1>1. {"lock", "validate"} \subseteq Running \ Ended
  BY DEF Running, Using, Ended
<1>2. /\ base # None /\ wt[Task(p)] = None /\ branch[Task(p)] = None
      /\ gated' = gated \ {Task(p)}
      /\ outrun' = (outrun \ {p}) \cup ToAdd(p, Task(p))
      /\ UNCHANGED <<origin, kind, at, results, outcome, agent,
                     passed, pulled, orphaned, overlap, halfGone>>
  BY DEF Add
<1>3. Task(p) \in Tasks /\ SameTasks
  BY <1>2, TaskType DEF SameTasks, Task
<1> DEFINE w == [stray |-> FALSE, version |-> base, lock |-> None]
<1>4. w \in Worktrees /\ w # None /\ ~ w.stray /\ w.version = base
  <2>1. base \in Nat
    BY <1>2 DEF TypeOK
  <2>2. w \in Worktrees /\ ~ w.stray /\ w.version = base
    BY <2>1 DEF Worktrees
  <2> QED
    BY <2>2, BatchAssumption
<1>5. wt' = [wt EXCEPT ![Task(p)] = w]
  BY DEF Add
<1> HIDE DEF w
<1>6. /\ wt'[Task(p)] = w /\ wt' \in [Tasks -> Worktrees \cup {None}]
      /\ \A t \in Tasks \ {Task(p)} : wt'[t] = wt[t]
  BY <1>3, <1>4, <1>5 DEF TypeOK
<1>7. IsWorktree(Task(p))' /\ OnlyAt(Task(p))
  BY <1>3, <1>4, <1>6 DEF IsWorktree, OnlyAt, SameTasks
<1>8. /\ branch' \in [Tasks -> BOOLEAN \cup {None}] /\ branch'[Task(p)] = FALSE
      /\ \A t \in Tasks \ {Task(p)} : branch'[t] = branch[t]
  BY <1>3 DEF Add, TypeOK
<1>9. /\ own'[p] = TRUE /\ own' \in [Procs -> BOOLEAN]
      /\ \A q \in Procs \ {p} : own'[q] = own[q]
  BY DEF Add, TypeOK
<1>10. /\ Apart(p)
       /\ UNCHANGED <<manifest, edited>>
       /\ \/ pc[p] = "add" /\ pc'[p] = "lock"
          \/ pc[p] = "preadd" /\ pc'[p] = "validate"
  BY <1>1, <1>2, <1>9, Going DEF Add, Apart, TypeOK, Results, Outcomes
<1> QED
  BY <1>2, <1>3, <1>4, <1>6, <1>7, <1>8, <1>9, <1>10

(* JudgeLock, Spawn and SpawnFails: what is in the place stays, or a plain *)
(* directory comes there.                                                  *)
Puts(p) ==
    /\ wt' \in [Tasks -> Worktrees \cup {None}]
    /\ wt[Task(p)] = None => /\ wt'[Task(p)] # None /\ ~ IsWorktree(Task(p))'
                             /\ outrun' = outrun \cup ToAdd(p, Task(p))
    /\ wt[Task(p)] # None => wt' = wt /\ outrun' = outrun
    /\ OnlyAt(Task(p)) /\ SameTasks

LEMMA PutsDoes ==
    ASSUME TypeOK, NEW p \in Procs, wt' = [wt EXCEPT ![Task(p)] = Place(Task(p))],
           Outruns(p, Task(p)), UNCHANGED at
    PROVE  Puts(p)
<1>1. Task(p) \in Tasks /\ SameTasks
  BY TaskType DEF SameTasks, Task
<1>2. /\ wt'[Task(p)] = Place(Task(p))
      /\ wt' \in [Tasks -> Worktrees \cup {None}]
      /\ \A t \in Tasks \ {Task(p)} : wt'[t] = wt[t]
  BY <1>1, Places DEF TypeOK
<1>3. wt[Task(p)] # None => wt' = wt
  BY <1>1, Places DEF TypeOK
<1>4. wt[Task(p)] = None => wt'[Task(p)] # None /\ ~ IsWorktree(Task(p))'
  BY <1>1, <1>2, Places, BatchAssumption DEF IsWorktree, SameTasks
<1> QED
  BY <1>1, <1>2, <1>3, <1>4 DEF Puts, Outruns, OnlyAt, IsWorktree

LEMMA JudgeLockDoes ==
    ASSUME TypeOK, NEW p \in Procs, JudgeLock(p)
    PROVE  /\ pc[p] = "lock" /\ pc'[p] = "taking" /\ ~ HeldByOther(p, Task(p))
           /\ Puts(p) /\ Apart(p)
           /\ overlap' = IF Takers(p) = {} THEN overlap ELSE overlap \cup {Task(p)}
           /\ UNCHANGED <<branch, origin, kind, manifest, edited, at, results, outcome, own, agent,
                          gated, passed, pulled, orphaned, halfGone>>
<1>1. "taking" \in Running \ Ended /\ Goes(p, "lock", "taking")
  BY DEF JudgeLock, Running, Using, Ended
<1>2. UNCHANGED <<kind, task, agent>>
  BY DEF JudgeLock
<1> QED
  BY <1>1, <1>2, Going, OnlyGoing, PutsDoes DEF JudgeLock, task

LEMMA TakeLockDoes ==
    ASSUME TypeOK, NEW p \in Procs, TakeLock(p)
    PROVE  /\ pc[p] = "taking" /\ pc'[p] = "spawn"
           /\ wt' \in [Tasks -> Worktrees \cup {None}]
           /\ wt[Task(p)] = None => wt' = wt
           /\ wt[Task(p)] # None => /\ wt'[Task(p)] # None /\ wt'[Task(p)].lock = p
                                    /\ wt'[Task(p)].version = wt[Task(p)].version
           /\ IsWorktree(Task(p))' = IsWorktree(Task(p))
           /\ OnlyAt(Task(p)) /\ SameTasks /\ Apart(p)
           /\ UNCHANGED <<branch, origin, kind, manifest, edited, at, results, outcome, own, agent,
                          gated, passed, pulled, orphaned, overlap, halfGone, outrun>>
<1>1. "spawn" \in Running \ Ended /\ Goes(p, "taking", "spawn")
  BY DEF TakeLock, Running, Using, Ended
<1>2. UNCHANGED <<branch, origin, kind, task, agent, history>>
  BY DEF TakeLock
<1>3. Task(p) \in Tasks /\ SameTasks
  BY <1>2, TaskType DEF SameTasks, Task, task
<1>4. /\ wt' \in [Tasks -> Worktrees \cup {None}]
      /\ wt[Task(p)] = None => wt' = wt
      /\ wt[Task(p)] # None => /\ wt'[Task(p)] # None /\ wt'[Task(p)].lock = p
                               /\ wt'[Task(p)].version = wt[Task(p)].version
                               /\ wt'[Task(p)].stray = wt[Task(p)].stray
      /\ \A t \in Tasks \ {Task(p)} : wt'[t] = wt[t]
  <2>1. CASE wt[Task(p)] = None
    BY <2>1 DEF TakeLock, TypeOK
  <2>2. CASE wt[Task(p)] # None
    <3> DEFINE w == [wt[Task(p)] EXCEPT !.lock = p]
    <3>1. wt[Task(p)] \in Worktrees
      BY <1>3, <2>2 DEF TypeOK
    <3>2. /\ w \in Worktrees /\ w # None /\ w.lock = p
          /\ w.stray = wt[Task(p)].stray /\ w.version = wt[Task(p)].version
      BY <3>1, Relocked, BatchAssumption
    <3>3. wt' = [wt EXCEPT ![Task(p)] = w]
      BY <2>2 DEF TakeLock
    <3> HIDE DEF w
    <3> QED
      BY <1>3, <2>2, <3>2, <3>3 DEF TypeOK
  <2> QED
    BY <2>1, <2>2
<1>5. IsWorktree(Task(p))' = IsWorktree(Task(p)) /\ OnlyAt(Task(p))
  BY <1>3, <1>4 DEF IsWorktree, OnlyAt, SameTasks
<1> QED
  BY <1>1, <1>2, <1>3, <1>4, <1>5, Going, OnlyGoing DEF task, history

LEMMA SpawnDoes ==
    ASSUME TypeOK, NEW p \in Procs, Spawn(p)
    PROVE  /\ pc[p] = "spawn" /\ pc'[p] = "session" /\ agent'[p] = "working"
           /\ Puts(p) /\ Apart(p)
           /\ UNCHANGED <<branch, origin, kind, manifest, edited, at, results, outcome, own,
                          gated, passed, pulled, orphaned, overlap, halfGone>>
<1>1. "session" \in Running \ Ended /\ Goes(p, "spawn", "session")
  BY DEF Spawn, Running, Using, Ended
<1>2. /\ UNCHANGED <<branch, origin, kind, task, gated, passed, pulled, orphaned, overlap, halfGone>>
      /\ agent'[p] = "working" /\ \A q \in Procs \ {p} : agent'[q] = agent[q]
      /\ agent' \in [Procs -> {"none", "working", "done"}]
  BY DEF Spawn, TypeOK
<1>3. Puts(p)
  BY <1>2, PutsDoes DEF Spawn, task
<1> QED
  BY <1>1, <1>2, <1>3, Going DEF Apart, TypeOK, Results, Outcomes, task

LEMMA SpawnFailsDoes ==
    ASSUME TypeOK, NEW p \in Procs, SpawnFails(p)
    PROVE  /\ pc[p] = "spawn" /\ pc'[p] = "release" /\ outcome'[p] \in {"failed", "uncaught"}
           /\ own'[p] = FALSE
           /\ Puts(p) /\ Apart(p)
           /\ UNCHANGED <<branch, origin, kind, manifest, edited, at, results, agent,
                          gated, passed, pulled, orphaned, overlap, halfGone>>
<1>1. PICK result \in {"failed", "uncaught"} : HasOutcome(p, "spawn", result)
  BY DEF SpawnFails
<1>2. UNCHANGED <<branch, origin, kind, agent, gated, passed, pulled, orphaned, overlap, halfGone>>
  BY DEF SpawnFails
<1>3. result \in Outcomes
  BY DEF Outcomes
<1>4. /\ pc[p] = "spawn" /\ pc'[p] = "release" /\ outcome'[p] = result /\ own'[p] = FALSE
      /\ UNCHANGED <<at, results, manifest, edited>>
      /\ Apart(p)
  BY <1>1, <1>2, <1>3, HasOutcomeDoes
<1>5. Puts(p)
  BY <1>4, PutsDoes DEF SpawnFails
<1> QED
  BY <1>2, <1>4, <1>5

LEMMA GateDoes ==
    ASSUME TypeOK, NEW p \in Procs, Gate(p)
    PROVE  /\ pc[p] = "gate" /\ pc'[p] \in {"push", "release"} /\ own'[p] = FALSE
           /\ \/ /\ outcome'[p] = "success" /\ wt[Task(p)] # None
                 /\ IsWorktree(Task(p)) => /\ gated' = gated \cup {Task(p)}
                                           /\ passed' = passed \cup {Task(p)}
                 /\ ~ IsWorktree(Task(p)) => UNCHANGED <<gated, passed>>
              \/ outcome'[p] = "failed" /\ pc'[p] = "release" /\ UNCHANGED <<gated, passed>>
           /\ SameTasks /\ Apart(p)
           /\ UNCHANGED <<wt, branch, origin, kind, manifest, edited, at, results, agent,
                          pulled, orphaned, overlap, halfGone, outrun>>
<1>1. UNCHANGED <<wt, branch, origin, kind, agent, pulled, orphaned, overlap, halfGone, outrun>>
  BY DEF Gate
<1>2. {"push", "release"} \subseteq Running \ Ended /\ "failed" \in Outcomes
  BY DEF Running, Using, Ended, Outcomes
<1>3. CASE /\ Passes(p, "gate", "push") \/ Passes(p, "gate", "release")
           /\ wt[Task(p)] # None
           /\ gated' = IF IsWorktree(Task(p)) THEN gated \cup {Task(p)} ELSE gated
           /\ passed' = IF IsWorktree(Task(p)) THEN passed \cup {Task(p)} ELSE passed
  BY <1>1, <1>2, <1>3, PassesDoes DEF SameTasks, Task
<1>4. CASE HasOutcome(p, "gate", "failed") /\ UNCHANGED <<gated, passed>>
  BY <1>1, <1>2, <1>4, HasOutcomeDoes DEF SameTasks, Task
<1> QED
  BY <1>3, <1>4 DEF Gate

LEMMA PushDoes ==
    ASSUME TypeOK, NEW p \in Procs, Push(p)
    PROVE  /\ pc[p] = "push" /\ pc'[p] \in {"pr", "release"}
           /\ origin' \in [Tasks -> {None, "gated", "ungated"}]
           /\ \A t \in Tasks : origin'[t] = "ungated" =>
                    origin[t] = "ungated" \/ (t = Task(p) /\ t \notin gated)
           /\ SameTasks /\ Apart(p)
           /\ UNCHANGED <<wt, branch, kind, manifest, edited, at, results, outcome, own, agent,
                          gated, passed, pulled, orphaned, overlap, halfGone, outrun>>
<1>1. UNCHANGED <<wt, branch, kind, task, agent, history>>
  BY DEF Push
<1>2. {"pr", "release"} \subseteq Running \ Ended
  BY DEF Running, Using, Ended
<1>3. PICK to \in {"pr", "release"} : Goes(p, "push", to)
  BY DEF Push
<1>4. Task(p) \in Tasks
  BY TaskType
<1>5. /\ origin' \in [Tasks -> {None, "gated", "ungated"}]
      /\ \A t \in Tasks : origin'[t] = "ungated" =>
                origin[t] = "ungated" \/ (t = Task(p) /\ t \notin gated)
  BY <1>4 DEF Push, TypeOK
<1> QED
  BY <1>1, <1>2, <1>3, <1>5, Going, OnlyGoing DEF SameTasks, Task, task, history

(* A release has failed, as an exception or not, or goes on. *)
LEMMA ReleaseDoes ==
    ASSUME TypeOK, NEW p \in Procs, Release(p)
    PROVE  /\ pc[p] = "release" /\ wt' = Unlocked(p, Task(p))
           /\ pc'[p] \in {"over", "traceback", "prefork", "validate", "integrate"}
           /\ \/ TaskFails(p, "release")
              \/ pc'[p] = "traceback" /\ UNCHANGED <<at, results, outcome, own>>
              \/ /\ outcome[p] = "success" /\ outcome'[p] = "none"
                 /\ results'[p] = Append(results[p], "success")
                 /\ pc'[p] \in {"over", "prefork", "validate", "integrate"}
                 /\ pc'[p] \in {"over", "integrate"} => at' = at
                 /\ pc'[p] \in {"prefork", "validate"} => kind[p] # "run" /\ at'[p] = at[p] + 1
           /\ pc'[p] \in {"prefork", "validate"} => own'[p] = FALSE
           /\ pc'[p] = "integrate" => own'[p] = own[p] /\ Task(p)' = Task(p)
           /\ pc'[p] \notin Ended => manifest' = manifest /\ edited' = edited
           /\ Apart(p)
           /\ UNCHANGED <<branch, origin, kind, agent, history>>
<1>1. UNCHANGED <<branch, origin, kind, agent, history>> /\ wt' = Unlocked(p, Task(p))
  BY DEF Release
<1>2. /\ {"over", "traceback"} \subseteq Ended /\ "integrate" \in Running \ Ended
  BY DEF Running, Using, Ended
<1>3. CASE TaskFails(p, "release")
  BY <1>1, <1>2, <1>3, TaskFailsDoes
<1>4. CASE Goes(p, "release", "traceback") /\ UNCHANGED task
  BY <1>1, <1>2, <1>4, Going, OnlyGoing DEF task
<1>5. CASE /\ outcome[p] = "success"
           /\ results' = [results EXCEPT ![p] = Append(@, "success")]
           /\ outcome' = [outcome EXCEPT ![p] = "none"]
           /\ \/ Advance(p, "release")
              \/ Goes(p, "release", "integrate") /\ UNCHANGED <<at, own>>
  <2>1. Append(results[p], "success") \in Seq(Results)
    BY DEF TypeOK, Results
  <2>2. /\ results'[p] = Append(results[p], "success") /\ outcome'[p] = "none"
        /\ results' \in [Procs -> Seq(Results)] /\ outcome' \in [Procs -> Outcomes]
        /\ \A q \in Procs \ {p} : results'[q] = results[q] /\ outcome'[q] = outcome[q]
    BY <1>5, <2>1 DEF TypeOK, Results, Outcomes
  <2>3. CASE Advance(p, "release")
    BY <1>1, <1>2, <1>5, <2>2, <2>3, AdvanceDoes
  <2>4. CASE Goes(p, "release", "integrate") /\ UNCHANGED <<at, own>>
    BY <1>1, <1>2, <1>5, <2>2, <2>4, Going DEF Apart, TypeOK, Task
  <2> QED
    BY <1>5, <2>3, <2>4
<1> QED
  BY <1>3, <1>4, <1>5 DEF Release

LEMMA RebaseDoes ==
    ASSUME TypeOK, NEW p \in Procs, RebaseOnto(p)
    PROVE  /\ pc[p] = "integrate" /\ pc' = pc
           /\ base # None /\ IsWorktree(Task(p)) /\ IsWorktree(Task(p))'
           /\ wt' \in [Tasks -> Worktrees \cup {None}]
           /\ wt'[Task(p)] # None /\ wt'[Task(p)].version = base
           /\ wt'[Task(p)].lock = wt[Task(p)].lock
           /\ gated' = gated \ {Task(p)} /\ Meddles(p, Task(p))
           /\ OnlyAt(Task(p)) /\ SameTasks /\ Apart(p)
           /\ UNCHANGED <<branch, origin, kind, manifest, edited, at, results, outcome, own, agent,
                          passed, orphaned, overlap, halfGone, outrun>>
<1>1. /\ base # None /\ IsWorktree(Task(p)) /\ gated' = gated \ {Task(p)} /\ Meddles(p, Task(p))
      /\ UNCHANGED <<branch, origin, kind, task, agent, passed, orphaned, overlap, halfGone, outrun>>
  BY DEF RebaseOnto
<1>2. "integrate" \in Running \ Ended /\ Goes(p, "integrate", "integrate")
  BY DEF RebaseOnto, Running, Using, Ended
<1>3. Task(p) \in Tasks /\ SameTasks
  BY <1>1, TaskType DEF SameTasks, Task, task
<1> DEFINE w == [wt[Task(p)] EXCEPT !.version = base]
<1>4. /\ w \in Worktrees /\ w # None /\ w.version = base
      /\ w.stray = wt[Task(p)].stray /\ w.lock = wt[Task(p)].lock
  <2>1. wt[Task(p)] \in Worktrees /\ base \in Nat
    BY <1>1, <1>3 DEF TypeOK, IsWorktree
  <2>2. /\ w \in Worktrees /\ w.version = base
        /\ w.stray = wt[Task(p)].stray /\ w.lock = wt[Task(p)].lock
    BY <2>1 DEF Worktrees
  <2> QED
    BY <2>2, BatchAssumption
<1>5. wt' = [wt EXCEPT ![Task(p)] = w]
  BY DEF RebaseOnto
<1> HIDE DEF w
<1>6. /\ wt'[Task(p)] = w /\ wt' \in [Tasks -> Worktrees \cup {None}]
      /\ \A t \in Tasks \ {Task(p)} : wt'[t] = wt[t]
  BY <1>3, <1>4, <1>5 DEF TypeOK
<1>7. IsWorktree(Task(p))' /\ OnlyAt(Task(p))
  BY <1>1, <1>3, <1>4, <1>6 DEF IsWorktree, OnlyAt, SameTasks
<1>8. pc' = pc
  BY <1>2 DEF Goes, Steps, TypeOK
<1> QED
  BY <1>1, <1>2, <1>3, <1>4, <1>6, <1>7, <1>8, Going, OnlyGoing DEF task

LEMMA CleanWorktreeDoes ==
    ASSUME TypeOK, NEW p \in Procs, CleanWorktree(p)
    PROVE  /\ pc[p] = "clean" /\ pc'[p] = "clean_branch"
           /\ wt' \in [Tasks -> Worktrees \cup {None}]
           /\ \/ UNCHANGED <<wt, pulled>>
              \/ wt'[Task(p)] = None /\ Meddles(p, Task(p))
           /\ OnlyAt(Task(p)) /\ SameTasks /\ Apart(p)
           /\ UNCHANGED <<branch, origin, kind, manifest, edited, at, results, outcome, own, agent,
                          gated, passed, orphaned, overlap, halfGone, outrun>>
<1>1. UNCHANGED <<branch, origin, kind, task, agent, gated, passed, orphaned, overlap, halfGone, outrun>>
  BY DEF CleanWorktree
<1>2. "clean_branch" \in Running \ Ended /\ Goes(p, "clean", "clean_branch")
  BY DEF CleanWorktree, Running, Using, Ended
<1>3. Task(p) \in Tasks /\ SameTasks
  BY <1>1, TaskType DEF SameTasks, Task, task
<1>4. /\ wt' \in [Tasks -> Worktrees \cup {None}]
      /\ \/ UNCHANGED <<wt, pulled>>
         \/ wt'[Task(p)] = None /\ Meddles(p, Task(p))
      /\ \A t \in Tasks \ {Task(p)} : wt'[t] = wt[t]
  BY <1>3 DEF CleanWorktree, TypeOK
<1>5. OnlyAt(Task(p))
  BY <1>4 DEF OnlyAt, IsWorktree
<1> QED
  BY <1>1, <1>2, <1>3, <1>4, <1>5, Going, OnlyGoing DEF task

LEMMA CleanBranchDoes ==
    ASSUME TypeOK, NEW p \in Procs, CleanBranch(p)
    PROVE  /\ pc[p] = "clean_branch" /\ pc'[p] \in {"over", "prefork", "validate"} /\ own'[p] = FALSE
           /\ \/ IsWorktree(Task(p)) /\ UNCHANGED <<branch, gated>>
              \/ /\ ~ IsWorktree(Task(p)) /\ branch'[Task(p)] = None
                 /\ gated' = gated \ {Task(p)}
           /\ branch' \in [Tasks -> BOOLEAN \cup {None}]
           /\ \A t \in Tasks \ {Task(p)} : branch'[t] = branch[t]
           /\ pc'[p] = "over" => at' = at
           /\ pc'[p] # "over" => /\ kind[p] # "run" /\ at'[p] = at[p] + 1
                                 /\ manifest' = manifest /\ edited' = edited
           /\ Apart(p)
           /\ UNCHANGED <<wt, origin, kind, results, outcome, agent,
                          passed, pulled, orphaned, overlap, halfGone, outrun>>
<1>1. UNCHANGED <<wt, origin, kind, results, outcome, agent,
                  passed, pulled, orphaned, overlap, halfGone, outrun>>
  BY DEF CleanBranch
<1>2. Task(p) \in Tasks
  BY TaskType
<1>3. /\ \/ IsWorktree(Task(p)) /\ UNCHANGED <<branch, gated>>
         \/ /\ ~ IsWorktree(Task(p)) /\ branch'[Task(p)] = None
            /\ gated' = gated \ {Task(p)}
      /\ branch' \in [Tasks -> BOOLEAN \cup {None}]
      /\ \A t \in Tasks \ {Task(p)} : branch'[t] = branch[t]
  BY <1>2 DEF CleanBranch, TypeOK
<1>4. Advance(p, "clean_branch") /\ results' \in [Procs -> Seq(Results)] /\ outcome' \in [Procs -> Outcomes]
  BY <1>1 DEF CleanBranch, TypeOK, Results, Outcomes
<1> QED
  BY <1>1, <1>3, <1>4, AdvanceDoes

Locals == <<pc, kind, manifest, at, results, outcome, own>>

LEMMA CommitsDoes ==
    ASSUME TypeOK, NEW t \in Tasks, Commits(t)
    PROVE  /\ branch' \in [Tasks -> BOOLEAN \cup {None}]
           /\ \A u \in Tasks : branch'[u] = None <=> branch[u] = None
           /\ gated' = gated \ {t} /\ SameTasks
           /\ UNCHANGED <<artifacts, Locals, agent, wt, origin, mishaps,
                          passed, pulled, orphaned, overlap, halfGone, outrun>>
<1>1. branch[t] # None
  BY DEF Commits, TypeOK
<1>2. /\ branch' = [branch EXCEPT ![t] = TRUE] /\ gated' = gated \ {t}
      /\ UNCHANGED <<artifacts, Locals, agent, wt, origin, mishaps,
                     passed, pulled, orphaned, overlap, halfGone, outrun>>
  BY DEF Commits, Locals, task
<1>3. TRUE # None
  BY BatchAssumption
<1> QED
  BY <1>1, <1>2, <1>3 DEF TypeOK, SameTasks, Task, Locals

LEMMA AgentExitsDoes ==
    ASSUME TypeOK, NEW p \in Procs, AgentExits(p)
    PROVE  /\ agent[p] = "working" /\ agent'[p] = IF pc[p] = "dead" THEN "none" ELSE "done"
           /\ agent' \in [Procs -> {"none", "working", "done"}]
           /\ \A q \in Procs \ {p} : agent'[q] = agent[q]
           /\ orphaned' \in {orphaned, orphaned \cup {Task(p)}} /\ mishaps' \in Nat /\ SameTasks
           /\ UNCHANGED <<artifacts, Locals, wt, branch, origin,
                          gated, passed, pulled, overlap, halfGone, outrun>>
<1>1. /\ agent[p] = "working"
      /\ orphaned' \in {orphaned, orphaned \cup {Task(p)}}
      /\ UNCHANGED <<artifacts, Locals, wt, branch, origin,
                     gated, passed, pulled, overlap, halfGone, outrun>>
  BY DEF AgentExits, Locals, task
<1>2. /\ agent'[p] = IF pc[p] = "dead" THEN "none" ELSE "done"
      /\ agent' \in [Procs -> {"none", "working", "done"}]
      /\ \A q \in Procs \ {p} : agent'[q] = agent[q]
  BY DEF AgentExits, TypeOK
<1>3. mishaps' \in Nat
  BY DEF AgentExits, Mishap, TypeOK
<1> QED
  BY <1>1, <1>2, <1>3 DEF SameTasks, Task, Locals

LEMMA CrashDoes ==
    ASSUME TypeOK, NEW p \in Procs, Crash(p)
    PROVE  /\ pc[p] \in Running /\ pc'[p] = "dead"
           /\ \A q \in Procs \ {p} : pc'[q] = pc[q] /\ manifest'[q] = manifest[q]
                                     /\ (q \in edited' <=> q \in edited)
           /\ pc' \in [Procs -> Running \cup Ended \cup {"new"}]
           /\ manifest' \in [Procs -> Nat \cup {None}] /\ edited' \subseteq Procs
           /\ orphaned' = IF agent[p] = "working" THEN orphaned \cup {Task(p)} ELSE orphaned
           /\ halfGone' = IF pc[p] = "clean_branch" THEN halfGone \cup {Task(p)} ELSE halfGone
           /\ outrun' = outrun \ {p} /\ mishaps' \in Nat /\ SameTasks
           /\ UNCHANGED <<disk, base, wt, branch, origin, kind, at, results, outcome, own, agent,
                          gated, passed, pulled, overlap>>
<1>1. /\ pc[p] \in Running
      /\ orphaned' = IF agent[p] = "working" THEN orphaned \cup {Task(p)} ELSE orphaned
      /\ halfGone' = IF pc[p] = "clean_branch" THEN halfGone \cup {Task(p)} ELSE halfGone
      /\ outrun' = outrun \ {p}
      /\ UNCHANGED <<disk, base, wt, branch, origin, kind, at, results, outcome, own, agent,
                     gated, passed, pulled, overlap>>
  BY DEF Crash, task
<1>2. /\ pc'[p] = "dead" /\ pc' \in [Procs -> Running \cup Ended \cup {"new"}]
      /\ \A q \in Procs \ {p} : pc'[q] = pc[q]
  BY DEF Crash, TypeOK, Ended
<1>3. /\ manifest' \in [Procs -> Nat \cup {None}] /\ edited' \subseteq Procs
      /\ \A q \in Procs \ {p} : manifest'[q] = manifest[q] /\ (q \in edited' <=> q \in edited)
  BY DEF Crash, TypeOK
<1>4. mishaps' \in Nat
  BY DEF Crash, Mishap, TypeOK
<1> QED
  BY <1>1, <1>2, <1>3, <1>4 DEF SameTasks, Task

LEMMA ChangeDoes ==
    ASSUME TypeOK, Change
    PROVE  /\ disk' \in Nat /\ base' \in Nat \cup {None} /\ mishaps' \in Nat
           /\ edited' = edited \cup {p \in Procs : pc[p] \in Running}
           /\ SameTasks
           /\ UNCHANGED <<Locals, agent, wt, branch, origin, history>>
<1>1. PICK other \in Artifacts : disk' = other[1] /\ base' = other[2]
  BY DEF Change
<1>2. disk' \in Nat /\ base' \in Nat \cup {None}
  BY <1>1, BatchAssumption
<1>3. /\ edited' = edited \cup {p \in Procs : pc[p] \in Running}
      /\ UNCHANGED <<Locals, agent, wt, branch, origin, history>> /\ mishaps' \in Nat
  BY DEF Change, Mishap, Locals, task, TypeOK
<1> QED
  BY <1>2, <1>3 DEF SameTasks, Task, Locals

-----------------------------------------------------------------------------
IInv == /\ TypeOK /\ Locks /\ Fresh /\ GatedAtPush /\ PushedIsGated
        /\ SoFar /\ ReportIsTrue /\ Traces

(* The steps there are. *)
LEMMA Cases ==
    ASSUME IInv, [Next]_vars
    PROVE  \/ \E p \in Procs :
                \/ Quiet(p) \/ Add(p) \/ JudgeLock(p) \/ TakeLock(p) \/ Spawn(p) \/ SpawnFails(p)
                \/ Gate(p) \/ Push(p) \/ Release(p)
                \/ RebaseOnto(p) \/ CleanWorktree(p) \/ CleanBranch(p)
                \/ AgentCommits(p) \/ AgentExits(p) \/ Crash(p)
           \/ \E t \in orphaned : Commits(t)
           \/ Change
           \/ UNCHANGED vars
<1>1. ASSUME NEW p \in Procs, Silent(p)
      PROVE  Quiet(p)
  BY <1>1, SilentIsQuiet DEF IInv
<1>2. CASE \E p \in Procs : Run(p)
  BY <1>1, <1>2 DEF Run, ExecuteTask, EnsureWorktree, AcquireLock, Attempts,
     FinalizeSuccess,
                    Integrate, Silent
<1>3. CASE \E p \in Procs : Agent(p) \/ Crash(p)
  BY <1>3 DEF Agent
<1>4. CASE HelperCommits
  BY <1>4 DEF HelperCommits
<1> QED
  BY <1>2, <1>3, <1>4 DEF Next

SharedTypes ==
    /\ wt \in [Tasks -> Worktrees \cup {None}]
    /\ branch \in [Tasks -> BOOLEAN \cup {None}]
    /\ \A t \in Tasks : IsWorktree(t) => branch[t] # None
    /\ origin \in [Tasks -> {None, "gated", "ungated"}]

HistoryTypes ==
    /\ gated \subseteq Tasks /\ passed \subseteq Tasks
    /\ pulled \subseteq Tasks /\ orphaned \subseteq Tasks /\ overlap \subseteq Tasks
    /\ halfGone \subseteq Tasks
    /\ outrun \subseteq Procs

LEMMA TypesKept == ASSUME IInv, [Next]_vars PROVE TypeOK'
<1>0. TypeOK /\ SharedTypes /\ HistoryTypes
  BY DEF IInv, TypeOK, SharedTypes, HistoryTypes
<1>a. \A p \in Procs : Task(p) \in Tasks
  BY <1>0, TaskType
<1>b. ASSUME NEW p \in Procs, Apart(p), HistoryTypes', SharedTypes'
      PROVE  TypeOK'
  BY <1>b, <1>0 DEF TypeOK, Apart, Results, Outcomes, HistoryTypes, SharedTypes
<1>1. ASSUME NEW p \in Procs, Quiet(p) PROVE TypeOK'
  <2>1. SharedTypes'
    BY <1>0, <1>1 DEF Quiet, Shared, SharedTypes, IsWorktree
  <2>2. HistoryTypes'
    BY <1>0, <1>1 DEF Quiet, Shared, HistoryTypes, FindsMissing
  <2> QED
    BY <1>b, <1>1, <2>1, <2>2 DEF Quiet
<1>c. ASSUME NEW p \in Procs, Puts(p), UNCHANGED <<branch, origin>>
      PROVE  SharedTypes'
  <2>1. ASSUME NEW t \in Tasks, IsWorktree(t)' PROVE branch[t] # None
    <3>1. CASE t = Task(p)
      <4>1. wt[t] # None
        BY <1>c, <2>1, <3>1 DEF Puts, SameTasks, IsWorktree
      <4>2. wt' = wt
        BY <1>c, <3>1, <4>1 DEF Puts
      <4> QED
        BY <1>0, <2>1, <4>2 DEF IsWorktree, SharedTypes
    <3>2. CASE t # Task(p)
      BY <1>0, <1>c, <2>1, <3>2 DEF Puts, OnlyAt, SharedTypes
    <3> QED
      BY <3>1, <3>2
  <2> QED
    BY <1>0, <1>c, <2>1 DEF Puts, SharedTypes
<1>d. ASSUME NEW p \in Procs, Puts(p)
      PROVE  outrun' \subseteq Procs
  BY <1>0, <1>d DEF Puts, ToAdd, HistoryTypes
<1>2. ASSUME NEW p \in Procs, Add(p) PROVE TypeOK'
  <2>1. SharedTypes'
    BY <1>0, <1>a, <1>2, AddDoes, BatchAssumption DEF SharedTypes, OnlyAt
  <2>2. HistoryTypes'
    BY <1>0, <1>a, <1>2, AddDoes DEF HistoryTypes, ToAdd
  <2> QED
    BY <1>0, <1>b, <1>2, <2>1, <2>2, AddDoes
<1>3. ASSUME NEW p \in Procs, JudgeLock(p) PROVE TypeOK'
  BY <1>0, <1>a, <1>b, <1>c, <1>d, <1>3, JudgeLockDoes DEF HistoryTypes
<1>4. ASSUME NEW p \in Procs, TakeLock(p) PROVE TypeOK'
  <2>1. SharedTypes'
    BY <1>0, <1>a, <1>4, TakeLockDoes DEF SharedTypes, OnlyAt, SameTasks, IsWorktree
  <2>2. HistoryTypes'
    BY <1>0, <1>a, <1>4, TakeLockDoes DEF HistoryTypes
  <2> QED
    BY <1>0, <1>b, <1>4, <2>1, <2>2, TakeLockDoes
<1>5. ASSUME NEW p \in Procs, Spawn(p) PROVE TypeOK'
  BY <1>0, <1>a, <1>b, <1>c, <1>d, <1>5, SpawnDoes DEF HistoryTypes
<1>6. ASSUME NEW p \in Procs, SpawnFails(p) PROVE TypeOK'
  BY <1>0, <1>a, <1>b, <1>c, <1>d, <1>6, SpawnFailsDoes DEF HistoryTypes
<1>7. ASSUME NEW p \in Procs, Gate(p) PROVE TypeOK'
  <2>1. SharedTypes'
    BY <1>0, <1>a, <1>7, GateDoes DEF SharedTypes, IsWorktree
  <2>2. HistoryTypes'
    BY <1>0, <1>a, <1>7, GateDoes DEF HistoryTypes
  <2> QED
    BY <1>0, <1>b, <1>7, <2>1, <2>2, GateDoes
<1>8. ASSUME NEW p \in Procs, Push(p) PROVE TypeOK'
  <2>1. SharedTypes'
    BY <1>0, <1>a, <1>8, PushDoes DEF SharedTypes, IsWorktree
  <2>2. HistoryTypes'
    BY <1>0, <1>a, <1>8, PushDoes DEF HistoryTypes
  <2> QED
    BY <1>0, <1>b, <1>8, <2>1, <2>2, PushDoes
<1>9. ASSUME NEW p \in Procs, Release(p) PROVE TypeOK'
  <2>1. SharedTypes'
    BY <1>0, <1>a, <1>9, ReleaseDoes, UnlockedDoes DEF SharedTypes
  <2>2. HistoryTypes'
    BY <1>0, <1>a, <1>9, ReleaseDoes, UnlockedDoes DEF HistoryTypes, history
  <2> QED
    BY <1>0, <1>b, <1>9, <2>1, <2>2, ReleaseDoes, UnlockedDoes
<1>10. ASSUME NEW p \in Procs, RebaseOnto(p) PROVE TypeOK'
  <2>1. SharedTypes'
    BY <1>0, <1>a, <1>10, RebaseDoes DEF SharedTypes, OnlyAt
  <2>2. HistoryTypes'
    BY <1>0, <1>a, <1>10, RebaseDoes DEF HistoryTypes, Meddles
  <2> QED
    BY <1>0, <1>b, <1>10, <2>1, <2>2, RebaseDoes
<1>11. ASSUME NEW p \in Procs, CleanWorktree(p) PROVE TypeOK'
  <2>1. SharedTypes'
    BY <1>0, <1>a, <1>11, CleanWorktreeDoes DEF SharedTypes, OnlyAt, IsWorktree
  <2>2. HistoryTypes'
    BY <1>0, <1>a, <1>11, CleanWorktreeDoes DEF HistoryTypes, Meddles
  <2> QED
    BY <1>0, <1>b, <1>11, <2>1, <2>2, CleanWorktreeDoes
<1>12. ASSUME NEW p \in Procs, CleanBranch(p) PROVE TypeOK'
  <2>1. SharedTypes'
    BY <1>0, <1>a, <1>12, CleanBranchDoes DEF SharedTypes, IsWorktree
  <2>2. HistoryTypes'
    BY <1>0, <1>a, <1>12, CleanBranchDoes DEF HistoryTypes
  <2> QED
    BY <1>0, <1>b, <1>12, <2>1, <2>2, CleanBranchDoes
<1>e. ASSUME NEW t \in Tasks, Commits(t) PROVE TypeOK'
  <2>1. SharedTypes'
    BY <1>0, <1>e, CommitsDoes DEF SharedTypes, IsWorktree
  <2>2. HistoryTypes'
    BY <1>0, <1>e, CommitsDoes DEF HistoryTypes
  <2> QED
    BY <1>0, <1>e, <2>1, <2>2, CommitsDoes DEF TypeOK, HistoryTypes, SharedTypes, Locals,
       artifacts
<1>13. ASSUME NEW p \in Procs, AgentCommits(p) PROVE TypeOK'
  BY <1>a, <1>e, <1>13 DEF AgentCommits
<1>14. ASSUME NEW t \in orphaned, Commits(t) PROVE TypeOK'
  BY <1>0, <1>e, <1>14 DEF HistoryTypes
<1>15. ASSUME NEW p \in Procs, AgentExits(p) PROVE TypeOK'
  <2>1. SharedTypes'
    BY <1>0, <1>15, AgentExitsDoes DEF SharedTypes, IsWorktree
  <2>2. HistoryTypes'
    BY <1>0, <1>a, <1>15, AgentExitsDoes DEF HistoryTypes
  <2> QED
    BY <1>0, <1>15, <2>1, <2>2, AgentExitsDoes
    DEF TypeOK, HistoryTypes, SharedTypes, Locals, artifacts
<1>16. ASSUME NEW p \in Procs, Crash(p) PROVE TypeOK'
  <2>1. SharedTypes'
    BY <1>0, <1>16, CrashDoes DEF SharedTypes, IsWorktree
  <2>2. HistoryTypes'
    BY <1>0, <1>a, <1>16, CrashDoes DEF HistoryTypes
  <2> QED
    BY <1>0, <1>16, <2>1, <2>2, CrashDoes DEF TypeOK, HistoryTypes, SharedTypes
<1>17. ASSUME Change PROVE TypeOK'
  BY <1>0, <1>17, ChangeDoes DEF TypeOK, Locals, history, IsWorktree
<1>18. ASSUME UNCHANGED vars PROVE TypeOK'
  BY <1>0, <1>18 DEF TypeOK, vars, artifacts, task, history, IsWorktree
<1> QED
  BY <1>1, <1>2, <1>3, <1>4, <1>5, <1>6, <1>7, <1>8, <1>9, <1>10, <1>11, <1>12,
     <1>13, <1>14, <1>15, <1>16, <1>17, <1>18, Cases

LEMMA Types == IInv => TypeOK /\ SharedTypes /\ HistoryTypes /\ \A p \in Procs : Task(p) \in Tasks
BY TaskType DEF IInv, TypeOK, SharedTypes, HistoryTypes

(* What has been noted stays noted. *)
Grows ==
    /\ pulled \subseteq pulled' /\ orphaned \subseteq orphaned' /\ overlap \subseteq overlap'
    /\ passed \subseteq passed' /\ halfGone \subseteq halfGone'

LEMMA HistoryGrows == ASSUME IInv, [Next]_vars PROVE Grows
<1>0. TypeOK /\ \A p \in Procs : Task(p) \in Tasks
  BY Types
<1>1. ASSUME NEW p \in Procs, Quiet(p) PROVE Grows
  BY <1>0, <1>1
  DEF Grows, Quiet, Apart, Shared
<1>2. ASSUME NEW p \in Procs, Add(p) PROVE Grows
  BY <1>0, <1>2, AddDoes
  DEF Grows, Apart
<1>3. ASSUME NEW p \in Procs, JudgeLock(p) PROVE Grows
  BY <1>0, <1>3, JudgeLockDoes
  DEF Grows, Apart
<1>4. ASSUME NEW p \in Procs, TakeLock(p) PROVE Grows
  BY <1>0, <1>4, TakeLockDoes
  DEF Grows, Apart
<1>5. ASSUME NEW p \in Procs, Spawn(p) PROVE Grows
  BY <1>0, <1>5, SpawnDoes
  DEF Grows, Apart
<1>6. ASSUME NEW p \in Procs, SpawnFails(p) PROVE Grows
  BY <1>0, <1>6, SpawnFailsDoes
  DEF Grows, Apart
<1>7. ASSUME NEW p \in Procs, Gate(p) PROVE Grows
  BY <1>0, <1>7, GateDoes
  DEF Grows, Apart
<1>8. ASSUME NEW p \in Procs, Push(p) PROVE Grows
  BY <1>0, <1>8, PushDoes
  DEF Grows, Apart
<1>9. ASSUME NEW p \in Procs, Release(p) PROVE Grows
  BY <1>0, <1>9, ReleaseDoes
  DEF Grows, Apart, history
<1>10. ASSUME NEW p \in Procs, RebaseOnto(p) PROVE Grows
  BY <1>0, <1>10, RebaseDoes
  DEF Grows, Apart, Meddles
<1>11. ASSUME NEW p \in Procs, CleanWorktree(p) PROVE Grows
  BY <1>0, <1>11, CleanWorktreeDoes
  DEF Grows, Apart, Meddles
<1>12. ASSUME NEW p \in Procs, CleanBranch(p) PROVE Grows
  BY <1>0, <1>12, CleanBranchDoes
  DEF Grows, Apart
<1>13. ASSUME NEW p \in Procs, AgentCommits(p) PROVE Grows
  BY <1>0, <1>13, CommitsDoes
  DEF Grows, AgentCommits, Locals, artifacts
<1>14. ASSUME NEW t \in orphaned, Commits(t) PROVE Grows
  <2>1. t \in Tasks
    BY Types, <1>14 DEF HistoryTypes
  <2> QED
    BY <1>0, <2>1, <1>14, CommitsDoes DEF Grows
<1>15. ASSUME NEW p \in Procs, AgentExits(p) PROVE Grows
  BY <1>0, <1>15, AgentExitsDoes
  DEF Grows, Locals, artifacts
<1>16. ASSUME NEW p \in Procs, Crash(p) PROVE Grows
  BY <1>0, <1>16, CrashDoes
  DEF Grows
<1>17. ASSUME Change PROVE Grows
  BY <1>0, <1>17, ChangeDoes
  DEF Grows, Locals, history
<1>18. ASSUME UNCHANGED vars PROVE Grows
  BY <1>0, <1>18
  DEF Grows, vars, artifacts, task, history
<1> QED
  BY <1>1, <1>2, <1>3, <1>4, <1>5, <1>6, <1>7, <1>8, <1>9,
     <1>10, <1>11, <1>12, <1>13, <1>14, <1>15, <1>16, <1>17, <1>18, Cases

(* Who is disturbed stays so. *)
LEMMA DisturbedGrows == Grows => Disturbed \subseteq Disturbed'
BY DEF Grows, Disturbed

LEMMA AgentsKept == ASSUME IInv, [Next]_vars PROVE AgentIsOfSession'
<1>0. TypeOK /\ AgentIsOfSession /\ \A p \in Procs : Task(p) \in Tasks
  BY Types DEF IInv, Locks
<1>a. ASSUME NEW p \in Procs, Apart(p), agent' = agent, orphaned' = orphaned, pc[p] \notin {"session", "dead"}
      PROVE  AgentIsOfSession'
  BY <1>0, <1>a DEF AgentIsOfSession, Task, Apart
<1>1. ASSUME NEW p \in Procs, Quiet(p) PROVE AgentIsOfSession'
  BY <1>0, <1>1
  DEF AgentIsOfSession, Task, Quiet, Apart, Shared, AgentGone
<1>2. ASSUME NEW p \in Procs, Add(p) PROVE AgentIsOfSession'
  BY <1>0, <1>2, AddDoes
  DEF AgentIsOfSession, Task, Apart
<1>3. ASSUME NEW p \in Procs, JudgeLock(p) PROVE AgentIsOfSession'
  BY <1>0, <1>3, JudgeLockDoes
  DEF AgentIsOfSession, Task, Apart
<1>4. ASSUME NEW p \in Procs, TakeLock(p) PROVE AgentIsOfSession'
  BY <1>0, <1>a, <1>4, TakeLockDoes
<1>5. ASSUME NEW p \in Procs, Spawn(p) PROVE AgentIsOfSession'
  BY <1>0, <1>5, SpawnDoes
  DEF AgentIsOfSession, Task, Apart
<1>6. ASSUME NEW p \in Procs, SpawnFails(p) PROVE AgentIsOfSession'
  BY <1>0, <1>6, SpawnFailsDoes
  DEF AgentIsOfSession, Task, Apart
<1>7. ASSUME NEW p \in Procs, Gate(p) PROVE AgentIsOfSession'
  BY <1>0, <1>7, GateDoes
  DEF AgentIsOfSession, Task, Apart
<1>8. ASSUME NEW p \in Procs, Push(p) PROVE AgentIsOfSession'
  BY <1>0, <1>8, PushDoes
  DEF AgentIsOfSession, Task, Apart
<1>9. ASSUME NEW p \in Procs, Release(p) PROVE AgentIsOfSession'
  BY <1>0, <1>a, <1>9, ReleaseDoes DEF history
<1>10. ASSUME NEW p \in Procs, RebaseOnto(p) PROVE AgentIsOfSession'
  BY <1>0, <1>10, RebaseDoes
  DEF AgentIsOfSession, Task, Apart
<1>11. ASSUME NEW p \in Procs, CleanWorktree(p) PROVE AgentIsOfSession'
  BY <1>0, <1>11, CleanWorktreeDoes
  DEF AgentIsOfSession, Task, Apart
<1>12. ASSUME NEW p \in Procs, CleanBranch(p) PROVE AgentIsOfSession'
  BY <1>0, <1>12, CleanBranchDoes
  DEF AgentIsOfSession, Task, Apart
<1>13. ASSUME NEW p \in Procs, AgentCommits(p) PROVE AgentIsOfSession'
  BY <1>0, <1>13, CommitsDoes
  DEF AgentIsOfSession, Task, AgentCommits, Locals, artifacts
<1>14. ASSUME NEW t \in orphaned, Commits(t) PROVE AgentIsOfSession'
  <2>1. t \in Tasks
    BY Types, <1>14 DEF HistoryTypes
  <2> QED
    BY <1>0, <2>1, <1>14, CommitsDoes DEF AgentIsOfSession, SameTasks, Locals
<1>15. ASSUME NEW p \in Procs, AgentExits(p) PROVE AgentIsOfSession'
  BY <1>0, <1>15, AgentExitsDoes
  DEF AgentIsOfSession, Task, Locals, artifacts
<1>16. ASSUME NEW p \in Procs, Crash(p) PROVE AgentIsOfSession'
  BY <1>0, <1>16, CrashDoes
  DEF AgentIsOfSession, Task
<1>17. ASSUME Change PROVE AgentIsOfSession'
  BY <1>0, <1>17, ChangeDoes
  DEF AgentIsOfSession, Task, Locals, history
<1>18. ASSUME UNCHANGED vars PROVE AgentIsOfSession'
  BY <1>0, <1>18
  DEF AgentIsOfSession, Task, vars, artifacts, task, history
<1> QED
  BY <1>1, <1>2, <1>3, <1>4, <1>5, <1>6, <1>7, <1>8, <1>9,
     <1>10, <1>11, <1>12, <1>13, <1>14, <1>15, <1>16, <1>17, <1>18, Cases

LEMMA StraysKept == ASSUME IInv, [Next]_vars PROVE StraysArePulled'
<1>0. /\ TypeOK /\ StraysArePulled /\ WorktreeIsHeld /\ \A p \in Procs : Task(p) \in Tasks
      /\ pulled \subseteq pulled'
  BY Types, HistoryGrows DEF IInv, Locks, Grows
<1>a. ASSUME UNCHANGED wt
      PROVE  StraysArePulled'
  BY <1>0, <1>a DEF StraysArePulled, IsWorktree
<1>b. ASSUME NEW p \in Procs, pc[p] \in Using, Puts(p)
      PROVE  StraysArePulled'
  <2>1. CASE wt[Task(p)] = None
    <3>1. Task(p) \in pulled'
      BY <1>0, <1>b, <2>1 DEF WorktreeIsHeld, Held, IsWorktree
    <3>2. ASSUME NEW t \in Tasks, wt'[t] # None, ~ IsWorktree(t)' PROVE t \in pulled'
      <4>1. CASE t = Task(p)
        BY <3>1, <4>1
      <4>2. CASE t # Task(p)
        BY <1>0, <1>b, <3>2, <4>2 DEF Puts, OnlyAt, StraysArePulled
      <4> QED
        BY <4>1, <4>2
    <3> QED
      BY <3>2 DEF StraysArePulled
  <2>2. CASE wt[Task(p)] # None
    BY <1>a, <1>b, <2>2 DEF Puts
  <2> QED
    BY <2>1, <2>2
<1>c. "lock" \in Using /\ "spawn" \in Using
  BY DEF Using
<1>d. ASSUME NEW u \in Tasks, OnlyAt(u), IsWorktree(u)' \/ wt'[u] = None
      PROVE  StraysArePulled'
  BY <1>0, <1>d DEF OnlyAt, StraysArePulled
<1>1. ASSUME NEW p \in Procs, Quiet(p) PROVE StraysArePulled'
  BY <1>a, <1>1 DEF Quiet, Shared
<1>2. ASSUME NEW p \in Procs, Add(p) PROVE StraysArePulled'
  BY <1>0, <1>d, <1>2, AddDoes DEF SameTasks
<1>3. ASSUME NEW p \in Procs, JudgeLock(p) PROVE StraysArePulled'
  BY <1>0, <1>b, <1>c, <1>3, JudgeLockDoes
<1>4. ASSUME NEW p \in Procs, TakeLock(p) PROVE StraysArePulled'
  <2>1. \A t \in Tasks : wt'[t] # None /\ ~ IsWorktree(t)' => wt[t] # None /\ ~ IsWorktree(t)
    BY <1>0, <1>4, TakeLockDoes DEF OnlyAt, SameTasks, IsWorktree
  <2> QED
    BY <1>0, <2>1 DEF StraysArePulled
<1>5. ASSUME NEW p \in Procs, Spawn(p) PROVE StraysArePulled'
  BY <1>0, <1>b, <1>c, <1>5, SpawnDoes
<1>6. ASSUME NEW p \in Procs, SpawnFails(p) PROVE StraysArePulled'
  BY <1>0, <1>b, <1>c, <1>6, SpawnFailsDoes
<1>7. ASSUME NEW p \in Procs, Gate(p) PROVE StraysArePulled'
  BY <1>0, <1>a, <1>7, GateDoes
<1>8. ASSUME NEW p \in Procs, Push(p) PROVE StraysArePulled'
  BY <1>0, <1>a, <1>8, PushDoes
<1>9. ASSUME NEW p \in Procs, Release(p) PROVE StraysArePulled'
  <2>1. \A t \in Tasks : wt'[t] # None /\ ~ IsWorktree(t)' => wt[t] # None /\ ~ IsWorktree(t)
    BY <1>0, <1>9, ReleaseDoes, UnlockedDoes
  <2> QED
    BY <1>0, <2>1 DEF StraysArePulled
<1>10. ASSUME NEW p \in Procs, RebaseOnto(p) PROVE StraysArePulled'
  BY <1>0, <1>d, <1>10, RebaseDoes DEF SameTasks
<1>11. ASSUME NEW p \in Procs, CleanWorktree(p) PROVE StraysArePulled'
  BY <1>0, <1>a, <1>d, <1>11, CleanWorktreeDoes DEF SameTasks
<1>12. ASSUME NEW p \in Procs, CleanBranch(p) PROVE StraysArePulled'
  BY <1>0, <1>a, <1>12, CleanBranchDoes
<1>13. ASSUME NEW p \in Procs, AgentCommits(p) PROVE StraysArePulled'
  BY <1>a, <1>13 DEF AgentCommits, Commits
<1>14. ASSUME NEW t \in orphaned, Commits(t) PROVE StraysArePulled'
  BY <1>a, <1>14 DEF Commits
<1>15. ASSUME NEW p \in Procs, AgentExits(p) PROVE StraysArePulled'
  BY <1>0, <1>a, <1>15, AgentExitsDoes
<1>16. ASSUME NEW p \in Procs, Crash(p) PROVE StraysArePulled'
  BY <1>0, <1>a, <1>16, CrashDoes
<1>17. ASSUME Change PROVE StraysArePulled'
  BY <1>0, <1>a, <1>17, ChangeDoes
<1>18. ASSUME UNCHANGED vars PROVE StraysArePulled'
  BY <1>a, <1>18 DEF vars
<1> QED
  BY <1>1, <1>2, <1>3, <1>4, <1>5, <1>6, <1>7, <1>8, <1>9,
     <1>10, <1>11, <1>12, <1>13, <1>14, <1>15, <1>16, <1>17, <1>18, Cases

LEMMA HeldKept == ASSUME IInv, [Next]_vars PROVE WorktreeIsHeld'
<1>0. /\ TypeOK /\ StraysArePulled /\ WorktreeIsHeld /\ NobodyIn /\ SharedTypes
      /\ \A p \in Procs : Task(p) \in Tasks
      /\ pulled \subseteq pulled' /\ Disturbed \subseteq Disturbed'
  BY Types, HistoryGrows, DisturbedGrows DEF IInv, Locks, Grows
<1>k. /\ Inside \subseteq Using \ {"lock", "taking"} /\ Ended \cap Using = {} /\ "new" \notin Using
      /\ {"lock", "taking"} \subseteq Using /\ {"spawn", "session", "gate", "push", "release"} \subseteq Inside
      /\ {"add", "preadd", "prefork", "validate", "integrate", "clean", "clean_branch"} \cap Using = {}
  BY DEF Inside, Using, Ended
(* The runs other than p keep what they have. *)
<1>a. ASSUME NEW p \in Procs, NEW u \in Tasks, OnlyAt(u), Held(p)',
             \A q \in Procs \ {p} : pc'[q] = pc[q] /\ Task(q)' = Task(q),
             \A q \in Procs \ {p} : Task(q) = u /\ pc[q] \in Using =>
                /\ IsWorktree(u) => IsWorktree(u)' \/ u \in pulled'
                /\ pc[q] \in Inside /\ wt[u].lock = q => wt'[u].lock = q \/ u \in Disturbed'
      PROVE  WorktreeIsHeld'
  <2> SUFFICES ASSUME NEW q \in Procs \ {p} PROVE Held(q)'
    BY <1>a DEF WorktreeIsHeld
  <2>1. Held(q) /\ pc'[q] = pc[q] /\ Task(q)' = Task(q)
    BY <1>0, <1>a DEF WorktreeIsHeld
  <2>2. PICK t \in Tasks : t = Task(q) /\ Task(q)' = t
    BY <1>0, <2>1
  <2>3. /\ pc[q] \in Using /\ t \notin pulled => IsWorktree(t)
        /\ pc[q] \in Inside /\ t \notin Disturbed => wt[t].lock = q
    BY <2>1, <2>2 DEF Held
  <2>4. /\ pc[q] \in Using /\ t \notin pulled' => IsWorktree(t)'
        /\ pc[q] \in Inside /\ t \notin Disturbed' => wt'[t].lock = q
    <3>1. CASE t = u
      BY <1>0, <1>a, <1>k, <2>2, <2>3, <3>1
    <3>2. CASE t # u
      BY <1>0, <1>a, <2>3, <3>2 DEF OnlyAt
    <3> QED
      BY <3>1, <3>2
  <2>5. IsWorktree(Task(q))' <=> IsWorktree(t)'
    BY <2>2 DEF IsWorktree
  <2> QED
    BY <2>1, <2>2, <2>4, <2>5 DEF Held
(* All stay where they are, and so do the worktrees. *)
<1>b. ASSUME UNCHANGED wt, NEW p \in Procs, Held(p)',
             \A q \in Procs \ {p} : pc'[q] = pc[q] /\ Task(q)' = Task(q)
      PROVE  WorktreeIsHeld'
  <2>1. OnlyAt(Task(p))
    BY <1>b DEF OnlyAt, IsWorktree
  <2>2. \A u \in Tasks : IsWorktree(u)' = IsWorktree(u)
    BY <1>b DEF IsWorktree
  <2> QED
    BY <1>0, <1>a, <1>b, <2>1, <2>2
<1>c. ASSUME NEW p \in Procs, pc'[p] \notin Using
      PROVE  Held(p)'
  BY <1>c, <1>k DEF Held
<1>e. ASSUME NEW p \in Procs, Apart(p)
      PROVE  \A q \in Procs \ {p} : pc'[q] = pc[q] /\ Task(q)' = Task(q)
  BY <1>e DEF Apart, Task
(* The run itself stays inside, or where it need not have the lock. *)
<1>f. ASSUME NEW p \in Procs, Task(p)' = Task(p),
             pc'[p] \in Using => /\ IsWorktree(Task(p)) => IsWorktree(Task(p))'
                                 /\ pc[p] \in Using \/ IsWorktree(Task(p)),
             pc'[p] \in Inside => pc[p] \in Inside /\ wt'[Task(p)] = wt[Task(p)]
      PROVE  Held(p)'
  BY <1>0, <1>f, <1>k DEF WorktreeIsHeld, Held
<1>g. ASSUME NEW p \in Procs, NEW q \in Procs \ {p}, Task(q) = Task(p), pc[p] = "taking",
             pc[q] \in Inside
      PROVE  Task(p) \in Disturbed'
  BY <1>0, <1>g DEF NobodyIn
(* A directory comes where there is none. *)
<1>h. ASSUME NEW p \in Procs, Puts(p), Apart(p), SameTasks,
             pc[p] \in Using, pc'[p] \in Inside => pc[p] \in Inside
      PROVE  WorktreeIsHeld'
  <2>1. IsWorktree(Task(p)) => wt' = wt
    BY <1>h DEF Puts, IsWorktree
  <2>2. Task(p)' = Task(p) /\ (IsWorktree(Task(p)) => IsWorktree(Task(p))')
    BY <1>h, <2>1 DEF SameTasks, IsWorktree
  <2>3. Held(p)'
    <3>1. CASE Task(p) \in pulled'
      BY <2>2, <3>1 DEF Held, Disturbed
    <3>2. CASE Task(p) \notin pulled'
      <4>1. IsWorktree(Task(p))
        BY <1>0, <1>h, <3>2 DEF WorktreeIsHeld, Held
      <4> QED
        BY <1>f, <1>h, <2>1, <2>2, <4>1
    <3> QED
      BY <3>1, <3>2
  <2>4. ~ IsWorktree(Task(p)) => Task(p) \in pulled'
    BY <1>0, <1>h DEF WorktreeIsHeld, Held
  <2>5. OnlyAt(Task(p))
    BY <1>h DEF Puts
  <2>6. \A q \in Procs \ {p} : Task(q) = Task(p) /\ pc[q] \in Using =>
                /\ IsWorktree(Task(p)) => IsWorktree(Task(p))' \/ Task(p) \in pulled'
                /\ pc[q] \in Inside /\ wt[Task(p)].lock = q =>
                        wt'[Task(p)].lock = q \/ Task(p) \in Disturbed'
    BY <2>1, <2>2, <2>4 DEF Disturbed
  <2>7. PICK u \in Tasks : u = Task(p) /\ Task(p)' = u
    BY <1>0, <2>2
  <2>8. IsWorktree(Task(p))' <=> IsWorktree(u)'
    BY <2>7 DEF IsWorktree
  <2> QED
    BY <1>a, <1>e, <1>h, <2>3, <2>5, <2>6, <2>7, <2>8
<1>i. ASSUME UNCHANGED <<wt, pc>>, SameTasks
      PROVE  WorktreeIsHeld'
  BY <1>0, <1>i, <1>k DEF WorktreeIsHeld, Held, SameTasks, IsWorktree
<1>1. ASSUME NEW p \in Procs, Quiet(p) PROVE WorktreeIsHeld'
  <2>1. Held(p)'
    <3>1. CASE pc'[p] \in Using
      <4>1. Task(p)' = Task(p) /\ IsWorktree(Task(p))' = IsWorktree(Task(p))
        BY <1>1, <3>1 DEF Quiet, GoesInside, Shared, IsWorktree
      <4> QED
        BY <1>1, <1>f, <1>k, <3>1, <4>1 DEF Quiet, GoesInside, Shared
    <3> QED
      BY <1>c, <3>1
  <2> QED
    BY <1>1, <1>b, <1>e, <2>1 DEF Quiet, Shared
<1>2. ASSUME NEW p \in Procs, Add(p) PROVE WorktreeIsHeld'
  <2>1. /\ pc'[p] \in {"lock", "validate"} /\ Task(p)' = Task(p) /\ Apart(p) /\ OnlyAt(Task(p))
        /\ wt[Task(p)] = None /\ IsWorktree(Task(p))'
    BY <1>0, <1>2, AddDoes DEF SameTasks
  <2>2. Held(p)'
    BY <1>k, <2>1 DEF Held
  <2>3. PICK u \in Tasks : u = Task(p) /\ Task(p)' = u
    BY <1>0, <2>1
  <2>4. IsWorktree(u)'
    BY <2>1, <2>3 DEF IsWorktree
  <2>5. ~ IsWorktree(u)
    BY <2>1, <2>3 DEF IsWorktree
  <2>6. \A q \in Procs \ {p} : Task(q) = u /\ pc[q] \in Inside => u \in Disturbed'
    BY <1>0, <1>k, <2>5 DEF WorktreeIsHeld, Held, Disturbed
  <2> QED
    BY <1>0, <1>a, <1>e, <2>1, <2>2, <2>3, <2>4, <2>5, <2>6
<1>3. ASSUME NEW p \in Procs, JudgeLock(p) PROVE WorktreeIsHeld'
  <2>1. /\ pc[p] = "lock" /\ pc'[p] = "taking" /\ Puts(p) /\ Apart(p) /\ SameTasks
    BY <1>0, <1>3, JudgeLockDoes DEF Puts
  <2> QED
    BY <1>h, <1>k, <2>1
<1>4. ASSUME NEW p \in Procs, TakeLock(p) PROVE WorktreeIsHeld'
  <2>1. /\ Task(p)' = Task(p) /\ IsWorktree(Task(p))' = IsWorktree(Task(p))
        /\ Task(p) \notin pulled => IsWorktree(Task(p)) /\ wt'[Task(p)].lock = p
    BY <1>0, <1>k, <1>4, TakeLockDoes DEF SameTasks, WorktreeIsHeld, Held, IsWorktree
  <2>2. Held(p)'
    BY <1>0, <2>1 DEF Held, Disturbed
  <2>3. \A q \in Procs \ {p} : Task(q) = Task(p) /\ pc[q] \in Inside => Task(p) \in Disturbed'
    BY <1>0, <1>g, <1>4, TakeLockDoes
  <2>4. PICK u \in Tasks : u = Task(p) /\ Task(p)' = u
    BY <1>0, <2>1
  <2>5. IsWorktree(u)' = IsWorktree(u)
    BY <2>1, <2>4 DEF IsWorktree
  <2> QED
    BY <1>0, <1>a, <1>e, <1>4, <2>2, <2>3, <2>4, <2>5, TakeLockDoes
<1>5. ASSUME NEW p \in Procs, Spawn(p) PROVE WorktreeIsHeld'
  <2>1. /\ pc[p] = "spawn" /\ pc'[p] = "session" /\ Puts(p) /\ Apart(p) /\ SameTasks
    BY <1>0, <1>5, SpawnDoes DEF Puts
  <2> QED
    BY <1>h, <1>k, <2>1
<1>6. ASSUME NEW p \in Procs, SpawnFails(p) PROVE WorktreeIsHeld'
  <2>1. /\ pc[p] = "spawn" /\ pc'[p] = "release" /\ Puts(p) /\ Apart(p) /\ SameTasks
    BY <1>0, <1>6, SpawnFailsDoes DEF Puts
  <2> QED
    BY <1>h, <1>k, <2>1
<1>7. ASSUME NEW p \in Procs, Gate(p) PROVE WorktreeIsHeld'
  <2>1. /\ {pc[p], pc'[p]} \subseteq Inside /\ UNCHANGED wt /\ Task(p)' = Task(p) /\ Apart(p)
    BY <1>0, <1>7, GateDoes DEF SameTasks, Inside, Using
  <2>2. Held(p)'
    BY <1>f, <1>k, <2>1 DEF IsWorktree
  <2> QED
    BY <1>b, <1>e, <2>1, <2>2
<1>8. ASSUME NEW p \in Procs, Push(p) PROVE WorktreeIsHeld'
  <2>1. /\ {pc[p], pc'[p]} \subseteq Inside /\ UNCHANGED wt /\ Task(p)' = Task(p) /\ Apart(p)
    BY <1>0, <1>8, PushDoes DEF SameTasks, Inside, Using
  <2>2. Held(p)'
    BY <1>f, <1>k, <2>1 DEF IsWorktree
  <2> QED
    BY <1>b, <1>e, <2>1, <2>2
<1>9. ASSUME NEW p \in Procs, Release(p) PROVE WorktreeIsHeld'
  <2>1. /\ pc'[p] \notin Using /\ Apart(p) /\ wt' = Unlocked(p, Task(p))
    BY <1>0, <1>k, <1>9, ReleaseDoes DEF Using
  <2>2. Held(p)'
    BY <1>c, <2>1
  <2>3. \A t \in Tasks :
            /\ IsWorktree(t)' = IsWorktree(t)
            /\ wt[t] = None => wt'[t] = None
            /\ wt[t] # None => wt'[t] # None /\ (wt[t].lock # p => wt'[t].lock = wt[t].lock)
    BY <1>0, <2>1, UnlockedDoes
  <2>4. OnlyAt(Task(p))
    BY <1>0, <2>1, <2>3 DEF OnlyAt, Unlocked, TypeOK
  <2>5. \A q \in Procs \ {p} : Task(q) = Task(p) /\ pc[q] \in Inside /\ wt[Task(p)].lock = q =>
                wt'[Task(p)].lock = q \/ Task(p) \in Disturbed'
    <3> SUFFICES ASSUME NEW q \in Procs \ {p}, Task(q) = Task(p), pc[q] \in Inside,
                        wt[Task(p)].lock = q, Task(p) \notin Disturbed'
                 PROVE  wt'[Task(p)].lock = q
      OBVIOUS
    <3>1. wt[Task(p)] # None
      BY <1>0, <1>k DEF WorktreeIsHeld, Held, IsWorktree, Disturbed
    <3> QED
      BY <1>0, <2>3, <3>1
  <2>6. PICK u \in Tasks : u = Task(p)
    BY <1>0
  <2> QED
    BY <1>0, <1>a, <1>e, <2>1, <2>2, <2>3, <2>4, <2>5, <2>6
<1>10. ASSUME NEW p \in Procs, RebaseOnto(p) PROVE WorktreeIsHeld'
  <2>1. /\ pc' = pc /\ Task(p)' = Task(p) /\ Apart(p) /\ OnlyAt(Task(p)) /\ pc[p] = "integrate"
        /\ wt'[Task(p)].lock = wt[Task(p)].lock /\ IsWorktree(Task(p))'
    BY <1>0, <1>10, RebaseDoes DEF SameTasks
  <2>2. Held(p)'
    BY <1>c, <1>k, <2>1
  <2>3. PICK u \in Tasks : u = Task(p) /\ Task(p)' = u
    BY <1>0, <2>1
  <2>4. IsWorktree(u)'
    BY <2>1, <2>3 DEF IsWorktree
  <2> QED
    BY <1>0, <1>a, <1>e, <2>1, <2>2, <2>3, <2>4
<1>11. ASSUME NEW p \in Procs, CleanWorktree(p) PROVE WorktreeIsHeld'
  <2>1. /\ pc'[p] = "clean_branch" /\ Task(p)' = Task(p) /\ Apart(p) /\ OnlyAt(Task(p))
        /\ UNCHANGED wt \/ Meddles(p, Task(p))
    BY <1>0, <1>11, CleanWorktreeDoes DEF SameTasks
  <2>2. Held(p)'
    BY <1>c, <1>k, <2>1
  <2>3. CASE UNCHANGED wt
    BY <1>b, <1>e, <2>1, <2>2, <2>3
  <2>4. CASE Meddles(p, Task(p))
    <3>1. \A q \in Procs \ {p} : Task(q) = Task(p) /\ pc[q] \in Using => Task(p) \in pulled'
      BY <2>4 DEF Meddles, Others
    <3>2. \A q \in Procs \ {p} : Task(q) = Task(p) /\ pc[q] \in Using => Task(p) \in Disturbed'
      BY <3>1 DEF Disturbed
    <3> QED
      BY <1>0, <1>a, <1>e, <1>k, <2>1, <2>2, <3>1, <3>2
  <2> QED
    BY <2>1, <2>3, <2>4
<1>12. ASSUME NEW p \in Procs, CleanBranch(p) PROVE WorktreeIsHeld'
  <2>1. pc'[p] \notin Using /\ Apart(p) /\ UNCHANGED wt
    BY <1>0, <1>k, <1>12, CleanBranchDoes DEF Using
  <2> QED
    BY <1>b, <1>c, <1>e, <2>1
<1>13. ASSUME NEW p \in Procs, AgentCommits(p) PROVE WorktreeIsHeld'
  BY <1>0, <1>i, <1>13, CommitsDoes DEF AgentCommits, Locals
<1>14. ASSUME NEW t \in orphaned, Commits(t) PROVE WorktreeIsHeld'
  <2>1. t \in Tasks
    BY Types, <1>14 DEF HistoryTypes
  <2> QED
    BY <1>0, <1>i, <2>1, <1>14, CommitsDoes DEF Locals
<1>15. ASSUME NEW p \in Procs, AgentExits(p) PROVE WorktreeIsHeld'
  BY <1>0, <1>i, <1>15, AgentExitsDoes DEF Locals
<1>16. ASSUME NEW p \in Procs, Crash(p) PROVE WorktreeIsHeld'
  <2>1. pc'[p] = "dead" /\ "dead" \notin Using
    BY <1>0, <1>16, CrashDoes DEF Using
  <2> QED
    BY <1>0, <1>b, <1>c, <2>1, <1>16, CrashDoes DEF SameTasks
<1>17. ASSUME Change PROVE WorktreeIsHeld'
  BY <1>0, <1>i, <1>17, ChangeDoes DEF Locals
<1>18. ASSUME UNCHANGED vars PROVE WorktreeIsHeld'
  BY <1>i, <1>18 DEF vars, task, SameTasks, Task
<1> QED
  BY <1>1, <1>2, <1>3, <1>4, <1>5, <1>6, <1>7, <1>8, <1>9,
     <1>10, <1>11, <1>12, <1>13, <1>14, <1>15, <1>16, <1>17, <1>18, Cases

LEMMA NobodyKept == ASSUME IInv, [Next]_vars PROVE NobodyIn'
<1>0. /\ TypeOK /\ WorktreeIsHeld /\ NobodyIn /\ \A p \in Procs : Task(p) \in Tasks
      /\ Disturbed \subseteq Disturbed'
  BY Types, HistoryGrows, DisturbedGrows DEF IInv, Locks
<1>k. /\ Inside \subseteq Running /\ "taking" \notin Inside /\ {"spawn", "session", "gate", "push", "release", "pr"} \subseteq Inside
      /\ {"lock", "over", "traceback", "dead", "add", "preadd", "prefork", "validate",
          "integrate", "clean", "clean_branch"} \cap (Inside \cup {"taking"}) = {}
  BY DEF Inside, Using, Running
(* A run that comes inside from where it took the lock, or was inside. *)
<1>a. ASSUME NEW p \in Procs,
             \A q \in Procs \ {p} : pc'[q] = pc[q] /\ Task(q)' = Task(q),
             pc'[p] \in Inside \cup {"taking"} =>
                /\ pc[p] \in Inside \cup {"taking"} /\ Task(p)' = Task(p)
                /\ pc'[p] = "taking" => pc[p] = "taking"
      PROVE  NobodyIn'
  BY <1>0, <1>a DEF NobodyIn
<1>e. ASSUME NEW p \in Procs, Apart(p)
      PROVE  \A q \in Procs \ {p} : pc'[q] = pc[q] /\ Task(q)' = Task(q)
  BY <1>e DEF Apart, Task
<1>i. ASSUME pc' = pc, SameTasks
      PROVE  NobodyIn'
  BY <1>0, <1>i DEF NobodyIn, SameTasks
<1>1. ASSUME NEW p \in Procs, Quiet(p) PROVE NobodyIn'
  <2>1. Apart(p) /\ GoesInside(p) /\ Inside \cup {"taking"} \subseteq Using
    BY <1>1 DEF Quiet, Inside, Using
  <2> QED
    BY <1>a, <1>e, <1>k, <2>1 DEF GoesInside
<1>2. ASSUME NEW p \in Procs, Add(p) PROVE NobodyIn'
  BY <1>0, <1>a, <1>e, <1>k, <1>2, AddDoes DEF SameTasks
<1>3. ASSUME NEW p \in Procs, JudgeLock(p) PROVE NobodyIn'
  <2>1. /\ pc[p] = "lock" /\ pc'[p] = "taking" /\ ~ HeldByOther(p, Task(p)) /\ SameTasks
        /\ \A q \in Procs \ {p} : pc'[q] = pc[q]
        /\ overlap' = IF Takers(p) = {} THEN overlap ELSE overlap \cup {Task(p)}
    BY <1>0, <1>3, JudgeLockDoes DEF Puts, Apart
  <2>2. \A q \in Procs \ {p} : Task(q) = Task(p) /\ pc[q] = "taking" => Task(p) \in Disturbed'
    BY <2>1 DEF Takers, Disturbed
  <2>3. ASSUME NEW q \in Procs \ {p}, Task(q) = Task(p), pc[q] \in Inside, Task(p) \notin Disturbed'
        PROVE  FALSE
    <3>1. Task(p) \notin Disturbed /\ Task(p) \notin pulled
      BY <1>0, <2>3 DEF Disturbed
    <3>2. wt[Task(p)] # None /\ wt[Task(p)].lock = q
      BY <1>0, <2>3, <3>1 DEF WorktreeIsHeld, Held, IsWorktree, Inside
    <3> QED
      BY <1>k, <2>1, <2>3, <3>2, BatchAssumption DEF HeldByOther
  <2> QED
    BY <1>0, <1>k, <2>1, <2>2, <2>3 DEF NobodyIn, SameTasks
<1>4. ASSUME NEW p \in Procs, TakeLock(p) PROVE NobodyIn'
  BY <1>0, <1>a, <1>e, <1>k, <1>4, TakeLockDoes DEF SameTasks
<1>5. ASSUME NEW p \in Procs, Spawn(p) PROVE NobodyIn'
  BY <1>0, <1>a, <1>e, <1>k, <1>5, SpawnDoes DEF Puts, SameTasks
<1>6. ASSUME NEW p \in Procs, SpawnFails(p) PROVE NobodyIn'
  <2>1. /\ {pc[p], pc'[p]} \subseteq Inside /\ Task(p)' = Task(p) /\ Apart(p)
    BY <1>0, <1>k, <1>6, SpawnFailsDoes DEF Puts, SameTasks
  <2> QED
    BY <1>a, <1>e, <1>k, <2>1
<1>7. ASSUME NEW p \in Procs, Gate(p) PROVE NobodyIn'
  <2>1. /\ {pc[p], pc'[p]} \subseteq Inside /\ Task(p)' = Task(p) /\ Apart(p)
    BY <1>0, <1>k, <1>7, GateDoes DEF Puts, SameTasks
  <2> QED
    BY <1>a, <1>e, <1>k, <2>1
<1>8. ASSUME NEW p \in Procs, Push(p) PROVE NobodyIn'
  BY <1>0, <1>a, <1>e, <1>k, <1>8, PushDoes DEF SameTasks
<1>9. ASSUME NEW p \in Procs, Release(p) PROVE NobodyIn'
  BY <1>0, <1>a, <1>e, <1>k, <1>9, ReleaseDoes
<1>10. ASSUME NEW p \in Procs, RebaseOnto(p) PROVE NobodyIn'
  BY <1>0, <1>a, <1>e, <1>k, <1>10, RebaseDoes DEF SameTasks
<1>11. ASSUME NEW p \in Procs, CleanWorktree(p) PROVE NobodyIn'
  BY <1>0, <1>a, <1>e, <1>k, <1>11, CleanWorktreeDoes DEF SameTasks
<1>12. ASSUME NEW p \in Procs, CleanBranch(p) PROVE NobodyIn'
  BY <1>0, <1>a, <1>e, <1>k, <1>12, CleanBranchDoes
<1>13. ASSUME NEW p \in Procs, AgentCommits(p) PROVE NobodyIn'
  BY <1>0, <1>i, <1>13, CommitsDoes DEF AgentCommits, Locals
<1>14. ASSUME NEW t \in orphaned, Commits(t) PROVE NobodyIn'
  <2>1. t \in Tasks
    BY Types, <1>14 DEF HistoryTypes
  <2> QED
    BY <1>0, <1>i, <2>1, <1>14, CommitsDoes DEF Locals
<1>15. ASSUME NEW p \in Procs, AgentExits(p) PROVE NobodyIn'
  BY <1>0, <1>i, <1>15, AgentExitsDoes DEF Locals
<1>16. ASSUME NEW p \in Procs, Crash(p) PROVE NobodyIn'
  BY <1>0, <1>a, <1>k, <1>16, CrashDoes DEF SameTasks
<1>17. ASSUME Change PROVE NobodyIn'
  BY <1>0, <1>i, <1>17, ChangeDoes DEF Locals
<1>18. ASSUME UNCHANGED vars PROVE NobodyIn'
  BY <1>i, <1>18 DEF vars, task, SameTasks, Task
<1> QED
  BY <1>1, <1>2, <1>3, <1>4, <1>5, <1>6, <1>7, <1>8, <1>9,
     <1>10, <1>11, <1>12, <1>13, <1>14, <1>15, <1>16, <1>17, <1>18, Cases

LEMMA LocksKept == ASSUME IInv, [Next]_vars PROVE Locks'
BY AgentsKept, StraysKept, HeldKept, NobodyKept DEF Locks

(* A session has its worktree, its lock and no company. *)
LEMMA AloneInside == TypeOK /\ Locks => SessionIsAlone
<1> SUFFICES ASSUME TypeOK, Locks, NEW p \in Procs, agent[p] = "working", Task(p) \notin Disturbed
             PROVE  /\ IsWorktree(Task(p)) /\ wt[Task(p)].lock = p
                    /\ \A q \in Procs \ {p} : Task(q) = Task(p) => agent[q] # "working"
  BY DEF SessionIsAlone
<1>1. \A q \in Procs : agent[q] = "working" /\ Task(q) = Task(p) =>
            IsWorktree(Task(p)) /\ wt[Task(p)].lock = q
  <2> SUFFICES ASSUME NEW q \in Procs, agent[q] = "working", Task(q) = Task(p)
               PROVE  IsWorktree(Task(p)) /\ wt[Task(p)].lock = q
    OBVIOUS
  <2>1. pc[q] = "session"
    BY DEF Locks, AgentIsOfSession, Disturbed
  <2> QED
    BY <2>1 DEF Locks, WorktreeIsHeld, Held, Inside, Using, Disturbed
<1> QED
  BY <1>1

LEMMA FreshKept == ASSUME IInv, [Next]_vars PROVE Fresh'
<1>0. TypeOK /\ Fresh /\ \A p \in Procs : Task(p) \in Tasks
  BY Types DEF IInv
<1>k. /\ Using \subseteq Seen /\ Seen \subseteq Checked /\ Checked \subseteq Running
      /\ {"add", "lock", "taking", "spawn", "session", "gate", "push", "pr", "release"} \subseteq Seen
      /\ {"preadd", "prefork", "validate", "integrate", "clean", "clean_branch"} \subseteq Checked \ Seen
      /\ "new" \notin Running /\ {"over", "traceback", "dead"} \cap Running = {}
  BY DEF Using, Seen, Checked, Running
(* The runs other than p. *)
<1>a. ASSUME NEW p \in Procs, NEW u \in Tasks, OnlyAt(u), IsFresh(p)', UNCHANGED <<disk, base>>,
             IsWorktree(u)' => \/ IsWorktree(u) /\ wt'[u].version = wt[u].version
                               \/ wt'[u].version = base,
             \A q \in Procs \ {p} : /\ pc'[q] = pc[q] /\ manifest'[q] = manifest[q]
                                    /\ own'[q] = own[q] /\ Task(q)' = Task(q)
                                    /\ q \in edited' <=> q \in edited
      PROVE  Fresh'
  <2> SUFFICES ASSUME NEW q \in Procs \ {p} PROVE IsFresh(q)'
    BY <1>a DEF Fresh
  <2>1. PICK t \in Tasks : t = Task(q) /\ Task(q)' = t
    BY <1>0, <1>a
  <2>2. own[q] /\ pc[q] \in Running /\ q \notin edited /\ IsWorktree(t)' => wt'[t].version = base
    <3>1. own[q] /\ pc[q] \in Running /\ q \notin edited /\ IsWorktree(t) => wt[t].version = base
      BY <1>0, <2>1 DEF Fresh, IsFresh
    <3> QED
      BY <1>0, <1>a, <3>1 DEF OnlyAt
  <2>3. IsWorktree(Task(q))' <=> IsWorktree(t)'
    BY <2>1 DEF IsWorktree
  <2>4. IsFresh(q)
    BY <1>0 DEF Fresh
  <2> QED
    BY <1>a, <2>1, <2>2, <2>3, <2>4 DEF IsFresh, ManifestOnBase, Visible
<1>e. ASSUME NEW p \in Procs, Apart(p)
      PROVE  /\ \A q \in Procs \ {p} : /\ pc'[q] = pc[q] /\ manifest'[q] = manifest[q]
                                       /\ own'[q] = own[q] /\ Task(q)' = Task(q)
                                       /\ q \in edited' <=> q \in edited
             /\ UNCHANGED <<disk, base>>
  BY <1>e DEF Apart, Task
(* The run itself, where it learns nothing. *)
<1>f. ASSUME NEW p \in Procs, pc[p] \in Running, UNCHANGED <<disk, base>>, pc'[p] # "new",
             pc'[p] \in Running =>
                /\ manifest'[p] = manifest[p] /\ (p \in edited' <=> p \in edited)
                /\ pc'[p] \in Checked => pc[p] \in Checked
                /\ pc'[p] \in Seen => pc[p] \in Seen
                /\ own'[p] => own[p] /\ Task(p)' = Task(p),
             \A t \in Tasks : t = Task(p) /\ own'[p] /\ IsWorktree(t)' =>
                \/ IsWorktree(t) /\ wt'[t].version = wt[t].version
                \/ wt'[t].version = base
      PROVE  IsFresh(p)'
  <2>1. PICK t \in Tasks : t = Task(p)
    BY <1>0
  <2>2. IsFresh(p)
    BY <1>0 DEF Fresh
  <2>3. Task(p)' = t => (IsWorktree(Task(p))' <=> IsWorktree(t)')
    BY DEF IsWorktree
  <2> QED
    BY <1>f, <2>1, <2>2, <2>3 DEF IsFresh, ManifestOnBase, Visible
<1>g. ASSUME NEW p \in Procs, Apart(p), UNCHANGED wt, IsFresh(p)'
      PROVE  Fresh'
  <2>1. /\ OnlyAt(Task(p))
        /\ \A u \in Tasks : IsWorktree(u)' => IsWorktree(u) /\ wt'[u].version = wt[u].version
    BY <1>g DEF OnlyAt, IsWorktree
  <2> QED
    BY <1>0, <1>a, <1>e, <1>g, <2>1
<1>h. ASSUME NEW p \in Procs, Apart(p), NEW u \in Tasks, u = Task(p), OnlyAt(u),
             IsWorktree(u)' => \/ IsWorktree(u) /\ wt'[u].version = wt[u].version
                               \/ wt'[u].version = base,
             pc[p] \in Running, pc'[p] # "new",
             pc'[p] \in Running =>
                /\ manifest'[p] = manifest[p] /\ (p \in edited' <=> p \in edited)
                /\ pc'[p] \in Checked => pc[p] \in Checked
                /\ pc'[p] \in Seen => pc[p] \in Seen
                /\ own'[p] => own[p] /\ Task(p)' = Task(p)
      PROVE  Fresh'
  BY <1>a, <1>e, <1>f, <1>h
<1>i. ASSUME UNCHANGED <<disk, base, edited, Locals, wt>>, SameTasks
      PROVE  Fresh'
  BY <1>0, <1>i DEF Fresh, IsFresh, ManifestOnBase, Visible, Locals, SameTasks, IsWorktree
(* A directory comes where there is none. *)
<1>j. ASSUME NEW p \in Procs, Apart(p), Puts(p), {pc[p], pc'[p]} \subseteq Using,
             UNCHANGED <<manifest, edited>>, own'[p] => own[p]
      PROVE  Fresh'
  <2>1. PICK u \in Tasks : u = Task(p) /\ Task(p)' = u
    BY <1>0, <1>j DEF Puts, SameTasks
  <2>2. IsWorktree(u)' => IsWorktree(u) /\ wt'[u].version = wt[u].version
    <3>1. IsWorktree(Task(p))' <=> IsWorktree(u)'
      BY <2>1 DEF IsWorktree
    <3> QED
      BY <1>j, <2>1, <3>1 DEF Puts, IsWorktree
  <2> QED
    BY <1>h, <1>j, <1>k, <2>1, <2>2 DEF Puts
<1>1. ASSUME NEW p \in Procs, Quiet(p) PROVE Fresh'
  <2>1. UNCHANGED wt /\ Apart(p) /\ StaysFresh(p)
    BY <1>1 DEF Quiet, Shared
  <2>2. IsFresh(p)
    BY <1>0 DEF Fresh
  <2>3. Task(p)' = Task(p) => (IsWorktree(Task(p))' <=> IsWorktree(Task(p)))
    BY <2>1 DEF IsWorktree
  <2>4. IsFresh(p)'
    BY <1>e, <1>k, <2>1, <2>2, <2>3 DEF IsFresh, StaysFresh, ManifestOnBase, Visible
  <2> QED
    BY <1>g, <2>1, <2>4
<1>2. ASSUME NEW p \in Procs, Add(p) PROVE Fresh'
  <2>1. PICK u \in Tasks : u = Task(p) /\ Task(p)' = u
    BY <1>0, <1>2, AddDoes DEF SameTasks
  <2>2. /\ IsWorktree(u)' /\ wt'[u].version = base /\ base # None
        /\ OnlyAt(u) /\ Apart(p) /\ UNCHANGED <<manifest, edited>>
    <3>1. IsWorktree(Task(p))' <=> IsWorktree(u)'
      BY <2>1 DEF IsWorktree
    <3> QED
      BY <1>0, <2>1, <3>1, <1>2, AddDoes
  <2>3. IsFresh(p)
    BY <1>0 DEF Fresh
  <2>4. /\ pc'[p] \in Checked /\ pc[p] \in Checked
        /\ pc'[p] \in Seen => pc[p] \in Seen
    BY <1>0, <1>k, <1>2, AddDoes
  <2>5. IsFresh(p)'
    BY <1>e, <1>k, <2>1, <2>2, <2>3, <2>4 DEF IsFresh, ManifestOnBase, Visible
  <2> QED
    BY <1>a, <1>e, <2>2, <2>5
<1>3. ASSUME NEW p \in Procs, JudgeLock(p) PROVE Fresh'
  <2>1. Puts(p) /\ Apart(p) /\ UNCHANGED <<manifest, edited, own>> /\ {pc[p], pc'[p]} \subseteq Using
    BY <1>0, <1>3, JudgeLockDoes DEF Using
  <2> QED
    BY <1>j, <2>1
<1>4. ASSUME NEW p \in Procs, TakeLock(p) PROVE Fresh'
  <2>1. PICK u \in Tasks : u = Task(p)
    BY <1>0
  <2>2. /\ Apart(p) /\ OnlyAt(u)
        /\ IsWorktree(u)' => \/ IsWorktree(u) /\ wt'[u].version = wt[u].version
                             \/ wt'[u].version = base
    <3>1. /\ Apart(p) /\ OnlyAt(u) /\ Task(p)' = u
          /\ IsWorktree(Task(p))' = IsWorktree(u)
          /\ wt[u] # None => wt'[u].version = wt[u].version
      BY <1>0, <2>1, <1>4, TakeLockDoes DEF SameTasks
    <3>2. IsWorktree(u)' = IsWorktree(u)
      BY <3>1 DEF IsWorktree
    <3> QED
      BY <3>1, <3>2 DEF IsWorktree
  <2>3. /\ pc[p] \in Running /\ pc'[p] # "new"
        /\ pc'[p] \in Running =>
                /\ manifest'[p] = manifest[p] /\ (p \in edited' <=> p \in edited)
                /\ pc'[p] \in Checked => pc[p] \in Checked
                /\ pc'[p] \in Seen => pc[p] \in Seen
                /\ own'[p] => own[p] /\ Task(p)' = Task(p)
    BY <1>0, <1>k, <1>4, TakeLockDoes DEF SameTasks
  <2> QED
    BY <1>h, <2>1, <2>2, <2>3
<1>5. ASSUME NEW p \in Procs, Spawn(p) PROVE Fresh'
  <2>1. Puts(p) /\ Apart(p) /\ UNCHANGED <<manifest, edited, own>> /\ {pc[p], pc'[p]} \subseteq Using
    BY <1>0, <1>5, SpawnDoes DEF Using
  <2> QED
    BY <1>j, <2>1
<1>6. ASSUME NEW p \in Procs, SpawnFails(p) PROVE Fresh'
  <2>1. /\ Puts(p) /\ Apart(p) /\ UNCHANGED <<manifest, edited>> /\ {pc[p], pc'[p]} \subseteq Using
        /\ own'[p] => own[p]
    BY <1>0, <1>6, SpawnFailsDoes DEF Using
  <2> QED
    BY <1>j, <2>1
<1>7. ASSUME NEW p \in Procs, Gate(p) PROVE Fresh'
  <2>1. PICK u \in Tasks : u = Task(p)
    BY <1>0
  <2>2. /\ Apart(p) /\ OnlyAt(u)
        /\ IsWorktree(u)' => \/ IsWorktree(u) /\ wt'[u].version = wt[u].version
                             \/ wt'[u].version = base
    BY <1>0, <2>1, <1>7, GateDoes DEF IsWorktree, OnlyAt
  <2>3. /\ pc[p] \in Running /\ pc'[p] # "new"
        /\ pc'[p] \in Running =>
                /\ manifest'[p] = manifest[p] /\ (p \in edited' <=> p \in edited)
                /\ pc'[p] \in Checked => pc[p] \in Checked
                /\ pc'[p] \in Seen => pc[p] \in Seen
                /\ own'[p] => own[p] /\ Task(p)' = Task(p)
    BY <1>0, <1>k, <1>7, GateDoes DEF SameTasks
  <2> QED
    BY <1>h, <2>1, <2>2, <2>3
<1>8. ASSUME NEW p \in Procs, Push(p) PROVE Fresh'
  <2>1. PICK u \in Tasks : u = Task(p)
    BY <1>0
  <2>2. /\ Apart(p) /\ OnlyAt(u)
        /\ IsWorktree(u)' => \/ IsWorktree(u) /\ wt'[u].version = wt[u].version
                             \/ wt'[u].version = base
    BY <1>0, <2>1, <1>8, PushDoes DEF IsWorktree, OnlyAt
  <2>3. /\ pc[p] \in Running /\ pc'[p] # "new"
        /\ pc'[p] \in Running =>
                /\ manifest'[p] = manifest[p] /\ (p \in edited' <=> p \in edited)
                /\ pc'[p] \in Checked => pc[p] \in Checked
                /\ pc'[p] \in Seen => pc[p] \in Seen
                /\ own'[p] => own[p] /\ Task(p)' = Task(p)
    BY <1>0, <1>k, <1>8, PushDoes DEF SameTasks
  <2> QED
    BY <1>h, <2>1, <2>2, <2>3
<1>9. ASSUME NEW p \in Procs, Release(p) PROVE Fresh'
  <2>1. PICK u \in Tasks : u = Task(p)
    BY <1>0
  <2>2. /\ Apart(p) /\ OnlyAt(u)
        /\ IsWorktree(u)' => \/ IsWorktree(u) /\ wt'[u].version = wt[u].version
                             \/ wt'[u].version = base
    <3>1. wt' = Unlocked(p, Task(p)) /\ Apart(p)
      BY <1>0, <1>9, ReleaseDoes
    <3>2. \A t \in Tasks : /\ IsWorktree(t)' = IsWorktree(t)
                           /\ wt[t] # None => wt'[t].version = wt[t].version
      BY <1>0, <3>1, UnlockedDoes
    <3>3. OnlyAt(u)
      BY <1>0, <2>1, <3>1, <3>2 DEF OnlyAt, Unlocked, TypeOK
    <3> QED
      BY <2>1, <3>1, <3>2, <3>3 DEF IsWorktree
  <2>3. /\ pc[p] \in Running /\ pc'[p] # "new"
        /\ pc'[p] \in Running =>
                /\ manifest'[p] = manifest[p] /\ (p \in edited' <=> p \in edited)
                /\ pc'[p] \in Checked => pc[p] \in Checked
                /\ pc'[p] \in Seen => pc[p] \in Seen
                /\ own'[p] => own[p] /\ Task(p)' = Task(p)
    <3>1. /\ pc[p] = "release"
          /\ pc'[p] \in {"over", "traceback", "prefork", "validate", "integrate"}
          /\ pc'[p] \in {"prefork", "validate"} => own'[p] = FALSE
          /\ pc'[p] = "integrate" => own'[p] = own[p] /\ Task(p)' = Task(p)
          /\ pc'[p] \notin Ended => manifest' = manifest /\ edited' = edited
      BY <1>0, <1>9, ReleaseDoes
    <3> QED
      BY <1>k, <3>1, Sets
  <2> QED
    BY <1>h, <2>1, <2>2, <2>3
<1>10. ASSUME NEW p \in Procs, RebaseOnto(p) PROVE Fresh'
  <2>1. PICK u \in Tasks : u = Task(p)
    BY <1>0
  <2>2. /\ Apart(p) /\ OnlyAt(u)
        /\ IsWorktree(u)' => \/ IsWorktree(u) /\ wt'[u].version = wt[u].version
                             \/ wt'[u].version = base
    BY <1>0, <2>1, <1>10, RebaseDoes
  <2>3. /\ pc[p] \in Running /\ pc'[p] # "new"
        /\ pc'[p] \in Running =>
                /\ manifest'[p] = manifest[p] /\ (p \in edited' <=> p \in edited)
                /\ pc'[p] \in Checked => pc[p] \in Checked
                /\ pc'[p] \in Seen => pc[p] \in Seen
                /\ own'[p] => own[p] /\ Task(p)' = Task(p)
    BY <1>0, <1>k, <1>10, RebaseDoes DEF SameTasks
  <2> QED
    BY <1>h, <2>1, <2>2, <2>3
<1>11. ASSUME NEW p \in Procs, CleanWorktree(p) PROVE Fresh'
  <2>1. PICK u \in Tasks : u = Task(p)
    BY <1>0
  <2>2. /\ Apart(p) /\ OnlyAt(u)
        /\ IsWorktree(u)' => \/ IsWorktree(u) /\ wt'[u].version = wt[u].version
                             \/ wt'[u].version = base
    <3>1. /\ Apart(p) /\ OnlyAt(u)
          /\ UNCHANGED wt \/ wt'[u] = None
      BY <1>0, <2>1, <1>11, CleanWorktreeDoes
    <3> QED
      BY <3>1 DEF IsWorktree
  <2>3. /\ pc[p] \in Running /\ pc'[p] # "new"
        /\ pc'[p] \in Running =>
                /\ manifest'[p] = manifest[p] /\ (p \in edited' <=> p \in edited)
                /\ pc'[p] \in Checked => pc[p] \in Checked
                /\ pc'[p] \in Seen => pc[p] \in Seen
                /\ own'[p] => own[p] /\ Task(p)' = Task(p)
    BY <1>0, <1>k, <1>11, CleanWorktreeDoes DEF SameTasks
  <2> QED
    BY <1>h, <2>1, <2>2, <2>3
<1>12. ASSUME NEW p \in Procs, CleanBranch(p) PROVE Fresh'
  <2>1. PICK u \in Tasks : u = Task(p)
    BY <1>0
  <2>2. /\ Apart(p) /\ OnlyAt(u)
        /\ IsWorktree(u)' => \/ IsWorktree(u) /\ wt'[u].version = wt[u].version
                             \/ wt'[u].version = base
    BY <1>0, <2>1, <1>12, CleanBranchDoes DEF OnlyAt, IsWorktree
  <2>3. /\ pc[p] \in Running /\ pc'[p] # "new"
        /\ pc'[p] \in Running =>
                /\ manifest'[p] = manifest[p] /\ (p \in edited' <=> p \in edited)
                /\ pc'[p] \in Checked => pc[p] \in Checked
                /\ pc'[p] \in Seen => pc[p] \in Seen
                /\ own'[p] => own[p] /\ Task(p)' = Task(p)
    BY <1>0, <1>k, <1>12, CleanBranchDoes
  <2> QED
    BY <1>h, <2>1, <2>2, <2>3
<1>13. ASSUME NEW p \in Procs, AgentCommits(p) PROVE Fresh'
  BY <1>0, <1>i, <1>13, CommitsDoes DEF AgentCommits, artifacts
<1>14. ASSUME NEW t \in orphaned, Commits(t) PROVE Fresh'
  <2>1. t \in Tasks
    BY Types, <1>14 DEF HistoryTypes
  <2> QED
    BY <1>0, <1>i, <2>1, <1>14, CommitsDoes DEF artifacts
<1>15. ASSUME NEW p \in Procs, AgentExits(p) PROVE Fresh'
  BY <1>0, <1>i, <1>15, AgentExitsDoes DEF artifacts
<1>16. ASSUME NEW p \in Procs, Crash(p) PROVE Fresh'
  <2>1. OnlyAt(Task(p)) /\ \A u \in Tasks : IsWorktree(u)' => IsWorktree(u) /\ wt'[u].version = wt[u].version
    BY <1>0, <1>16, CrashDoes DEF OnlyAt, IsWorktree
  <2>2. IsFresh(p)'
    BY <1>0, <1>k, <1>16, CrashDoes DEF IsFresh
  <2> QED
    BY <1>0, <1>a, <2>1, <2>2, <1>16, CrashDoes DEF SameTasks
<1>17. ASSUME Change PROVE Fresh'
  <2>1. /\ UNCHANGED Locals /\ edited' = edited \cup {p \in Procs : pc[p] \in Running}
    BY <1>0, <1>17, ChangeDoes
  <2> QED
    BY <1>0, <1>k, <2>1 DEF Fresh, IsFresh, Locals
<1>18. ASSUME UNCHANGED vars PROVE Fresh'
  BY <1>i, <1>18 DEF vars, artifacts, task, Locals, SameTasks, Task
<1> QED
  BY <1>1, <1>2, <1>3, <1>4, <1>5, <1>6, <1>7, <1>8, <1>9,
     <1>10, <1>11, <1>12, <1>13, <1>14, <1>15, <1>16, <1>17, <1>18, Cases

LEMMA GatesKept == ASSUME IInv, [Next]_vars PROVE GatedAtPush'
<1>0. /\ TypeOK /\ GatedAtPush /\ WorktreeIsHeld /\ AgentIsOfSession /\ \A p \in Procs : Task(p) \in Tasks
      /\ Disturbed \subseteq Disturbed'
  BY Types, HistoryGrows, DisturbedGrows DEF IInv, Locks
<1>k. "push" \in Inside /\ "session" \in Inside /\ Inside \subseteq Using
  BY DEF Inside, Using
(* Another comes to push, or the branch of u is not what it was. *)
<1>a. ASSUME NEW p \in Procs, NEW u \in Tasks, gated \ {u} \subseteq gated',
             \A q \in Procs \ {p} : pc'[q] = pc[q] /\ Task(q)' = Task(q),
             pc'[p] # "push" \/ Task(p)' \in Disturbed' \cup gated',
             gated \subseteq gated' \/
                \A q \in Procs \ {p} : pc[q] = "push" /\ Task(q) = u => u \in Disturbed'
      PROVE  GatedAtPush'
  BY <1>0, <1>a DEF GatedAtPush
<1>e. ASSUME NEW p \in Procs, Apart(p)
      PROVE  \A q \in Procs \ {p} : pc'[q] = pc[q] /\ Task(q)' = Task(q)
  BY <1>e DEF Apart, Task
<1>b. ASSUME NEW p \in Procs, Apart(p), gated' = gated, pc'[p] # "push"
      PROVE  GatedAtPush'
  BY <1>0, <1>a, <1>b, <1>e
<1>c. ASSUME UNCHANGED pc, SameTasks, NEW u \in Tasks, gated' = gated \ {u} \/ gated' = gated,
             gated' = gated \/ \A q \in Procs : pc[q] = "push" /\ Task(q) = u => u \in Disturbed'
      PROVE  GatedAtPush'
  BY <1>0, <1>c DEF GatedAtPush, SameTasks
(* Where there is no worktree, nobody undisturbed is about to push. *)
<1>d. ASSUME NEW u \in Tasks, ~ IsWorktree(u), NEW q \in Procs, pc[q] = "push", Task(q) = u
      PROVE  u \in Disturbed'
  BY <1>0, <1>d, <1>k DEF WorktreeIsHeld, Held, Disturbed
<1>1. ASSUME NEW p \in Procs, Quiet(p) PROVE GatedAtPush'
  <2>1. pc'[p] # "push" /\ gated' = gated /\ Apart(p)
    BY <1>1, <1>k DEF Quiet, GoesInside, Shared
  <2> QED
    BY <1>b, <2>1
<1>2. ASSUME NEW p \in Procs, Add(p) PROVE GatedAtPush'
  <2>1. PICK u \in Tasks : u = Task(p)
    BY <1>0
  <2>2. ~ IsWorktree(u) /\ gated' = gated \ {u} /\ Apart(p) /\ pc'[p] # "push"
    BY <1>0, <2>1, <1>2, AddDoes DEF IsWorktree
  <2> QED
    BY <1>a, <1>d, <1>e, <2>2
<1>3. ASSUME NEW p \in Procs, JudgeLock(p) PROVE GatedAtPush'
  BY <1>0, <1>b, <1>3, JudgeLockDoes
<1>4. ASSUME NEW p \in Procs, TakeLock(p) PROVE GatedAtPush'
  BY <1>0, <1>b, <1>4, TakeLockDoes
<1>5. ASSUME NEW p \in Procs, Spawn(p) PROVE GatedAtPush'
  BY <1>0, <1>b, <1>5, SpawnDoes
<1>6. ASSUME NEW p \in Procs, SpawnFails(p) PROVE GatedAtPush'
  BY <1>0, <1>b, <1>6, SpawnFailsDoes
<1>7. ASSUME NEW p \in Procs, Gate(p) PROVE GatedAtPush'
  <2>1. PICK u \in Tasks : u = Task(p) /\ Task(p)' = u
    BY <1>0, <1>7, GateDoes DEF SameTasks
  <2>2. /\ pc[p] = "gate" /\ Apart(p) /\ gated \subseteq gated'
        /\ pc'[p] = "push" /\ IsWorktree(u) => u \in gated'
    BY <1>0, <2>1, <1>7, GateDoes
  <2>3. IsWorktree(u) \/ u \in Disturbed'
    BY <1>0, <2>1, <2>2 DEF WorktreeIsHeld, Held, Using, Disturbed
  <2> QED
    BY <1>a, <1>e, <2>1, <2>2, <2>3
<1>8. ASSUME NEW p \in Procs, Push(p) PROVE GatedAtPush'
  BY <1>0, <1>b, <1>8, PushDoes
<1>9. ASSUME NEW p \in Procs, Release(p) PROVE GatedAtPush'
  BY <1>0, <1>b, <1>9, ReleaseDoes DEF history
<1>10. ASSUME NEW p \in Procs, RebaseOnto(p) PROVE GatedAtPush'
  <2>1. PICK u \in Tasks : u = Task(p)
    BY <1>0
  <2>2. Apart(p) /\ gated' = gated \ {u} /\ Meddles(p, u) /\ pc'[p] # "push"
    BY <1>0, <2>1, <1>10, RebaseDoes
  <2>3. \A q \in Procs \ {p} : pc[q] = "push" /\ Task(q) = u => u \in Disturbed'
    BY <1>k, <2>1, <2>2 DEF Meddles, Others, Disturbed
  <2> QED
    BY <1>a, <1>e, <2>2, <2>3
<1>11. ASSUME NEW p \in Procs, CleanWorktree(p) PROVE GatedAtPush'
  BY <1>0, <1>b, <1>11, CleanWorktreeDoes
<1>12. ASSUME NEW p \in Procs, CleanBranch(p) PROVE GatedAtPush'
  <2>1. PICK u \in Tasks : u = Task(p)
    BY <1>0
  <2>2. /\ Apart(p) /\ pc'[p] # "push"
        /\ gated' = gated \/ (~ IsWorktree(u) /\ gated' = gated \ {u})
    BY <1>0, <2>1, <1>12, CleanBranchDoes
  <2> QED
    BY <1>a, <1>b, <1>d, <1>e, <2>2
<1>13. ASSUME NEW p \in Procs, AgentCommits(p) PROVE GatedAtPush'
  <2>1. PICK u \in Tasks : u = Task(p)
    BY <1>0
  <2>2. UNCHANGED pc /\ SameTasks /\ gated' = gated \ {u} /\ agent[p] = "working"
    BY <1>0, <2>1, <1>13, CommitsDoes DEF AgentCommits, Locals
  <2>3. ASSUME NEW q \in Procs, pc[q] = "push", Task(q) = u, u \notin Disturbed'
        PROVE  FALSE
    <3>1. u \notin Disturbed
      BY <1>0, <2>3
    <3>2. pc[p] = "session"
      BY <1>0, <2>1, <2>2, <3>1 DEF AgentIsOfSession, Disturbed
    <3>3. wt[u].lock = q /\ wt[u].lock = p
      BY <1>0, <1>k, <2>1, <2>3, <3>1, <3>2 DEF WorktreeIsHeld, Held
    <3> QED
      BY <2>3, <3>2, <3>3
  <2> QED
    BY <1>c, <2>2, <2>3
<1>14. ASSUME NEW t \in orphaned, Commits(t) PROVE GatedAtPush'
  <2>1. t \in Tasks /\ t \in Disturbed'
    BY <1>0, Types, <1>14 DEF HistoryTypes, Disturbed
  <2> QED
    BY <1>0, <1>c, <2>1, <1>14, CommitsDoes DEF Locals
<1>15. ASSUME NEW p \in Procs, AgentExits(p) PROVE GatedAtPush'
  BY <1>0, <1>c, <1>15, AgentExitsDoes DEF Locals
<1>16. ASSUME NEW p \in Procs, Crash(p) PROVE GatedAtPush'
  <2>1. /\ \A q \in Procs \ {p} : pc'[q] = pc[q] /\ Task(q)' = Task(q)
        /\ gated' = gated /\ pc'[p] # "push"
    BY <1>0, <1>16, CrashDoes DEF SameTasks
  <2> QED
    BY <1>0, <1>a, <2>1
<1>17. ASSUME Change PROVE GatedAtPush'
  <2>1. UNCHANGED <<pc, gated>> /\ SameTasks
    BY <1>0, <1>17, ChangeDoes DEF Locals, history
  <2> QED
    BY <1>0, <2>1 DEF GatedAtPush, SameTasks
<1>18. ASSUME UNCHANGED vars PROVE GatedAtPush'
  <2>1. UNCHANGED <<pc, gated>> /\ SameTasks
    BY <1>18 DEF vars, task, history, SameTasks, Task
  <2> QED
    BY <1>0, <2>1 DEF GatedAtPush, SameTasks
<1> QED
  BY <1>1, <1>2, <1>3, <1>4, <1>5, <1>6, <1>7, <1>8, <1>9,
     <1>10, <1>11, <1>12, <1>13, <1>14, <1>15, <1>16, <1>17, <1>18, Cases

LEMMA PushedKept == ASSUME IInv, [Next]_vars PROVE PushedIsGated'
<1>0. /\ TypeOK /\ PushedIsGated /\ GatedAtPush /\ \A p \in Procs : Task(p) \in Tasks
      /\ Disturbed \subseteq Disturbed'
  BY Types, HistoryGrows, DisturbedGrows DEF IInv
<1>a. ASSUME UNCHANGED origin
      PROVE  PushedIsGated'
  BY <1>0, <1>a DEF PushedIsGated
<1>1. ASSUME NEW p \in Procs, Quiet(p) PROVE PushedIsGated'
  BY <1>a, <1>1 DEF Quiet, Shared
<1>2. ASSUME NEW p \in Procs, Add(p) PROVE PushedIsGated'
  BY <1>0, <1>a, <1>2, AddDoes
<1>3. ASSUME NEW p \in Procs, JudgeLock(p) PROVE PushedIsGated'
  BY <1>0, <1>a, <1>3, JudgeLockDoes
<1>4. ASSUME NEW p \in Procs, TakeLock(p) PROVE PushedIsGated'
  BY <1>0, <1>a, <1>4, TakeLockDoes
<1>5. ASSUME NEW p \in Procs, Spawn(p) PROVE PushedIsGated'
  BY <1>0, <1>a, <1>5, SpawnDoes
<1>6. ASSUME NEW p \in Procs, SpawnFails(p) PROVE PushedIsGated'
  BY <1>0, <1>a, <1>6, SpawnFailsDoes
<1>7. ASSUME NEW p \in Procs, Gate(p) PROVE PushedIsGated'
  BY <1>0, <1>a, <1>7, GateDoes
<1>8. ASSUME NEW p \in Procs, Push(p) PROVE PushedIsGated'
  BY <1>0, <1>8, PushDoes DEF PushedIsGated, GatedAtPush
<1>9. ASSUME NEW p \in Procs, Release(p) PROVE PushedIsGated'
  BY <1>0, <1>a, <1>9, ReleaseDoes
<1>10. ASSUME NEW p \in Procs, RebaseOnto(p) PROVE PushedIsGated'
  BY <1>0, <1>a, <1>10, RebaseDoes
<1>11. ASSUME NEW p \in Procs, CleanWorktree(p) PROVE PushedIsGated'
  BY <1>0, <1>a, <1>11, CleanWorktreeDoes
<1>12. ASSUME NEW p \in Procs, CleanBranch(p) PROVE PushedIsGated'
  BY <1>0, <1>a, <1>12, CleanBranchDoes
<1>13. ASSUME NEW p \in Procs, AgentCommits(p) PROVE PushedIsGated'
  BY <1>a, <1>13 DEF AgentCommits, Commits
<1>14. ASSUME NEW t \in orphaned, Commits(t) PROVE PushedIsGated'
  BY <1>a, <1>14 DEF Commits
<1>15. ASSUME NEW p \in Procs, AgentExits(p) PROVE PushedIsGated'
  BY <1>0, <1>a, <1>15, AgentExitsDoes
<1>16. ASSUME NEW p \in Procs, Crash(p) PROVE PushedIsGated'
  BY <1>0, <1>a, <1>16, CrashDoes
<1>17. ASSUME Change PROVE PushedIsGated'
  BY <1>0, <1>a, <1>17, ChangeDoes
<1>18. ASSUME UNCHANGED vars PROVE PushedIsGated'
  BY <1>a, <1>18 DEF vars
<1> QED
  BY <1>1, <1>2, <1>3, <1>4, <1>5, <1>6, <1>7, <1>8, <1>9,
     <1>10, <1>11, <1>12, <1>13, <1>14, <1>15, <1>16, <1>17, <1>18, Cases

-----------------------------------------------------------------------------
(* the rest as skipped.                                                    *)
LEMMA FailedReport ==
    ASSUME TypeOK, NEW p \in Procs, kind[p] # "run", Len(results[p]) = at[p] - 1,
           results'[p] = Append(results[p], "failed") \o Skipped(p)
    PROVE  /\ Len(results'[p]) = Len(Order)
           /\ \A i \in DOMAIN results'[p] :
                results'[p][i] = IF i < at[p] THEN results[p][i]
                                 ELSE IF i = at[p] THEN "failed" ELSE "skipped"
<1> DEFINE s == Append(results[p], "failed")
<1>1. results[p] \in Seq({"success", "failed", "skipped"}) /\ at[p] \in 1..Len(Order)
  BY TaskType DEF TypeOK
<1>2. /\ s \in Seq({"success", "failed", "skipped"}) /\ Len(s) = at[p]
      /\ \A i \in 1..Len(s) : s[i] = IF i < at[p] THEN results[p][i] ELSE "failed"
  BY <1>1
<1>3. /\ Skipped(p) \in Seq({"success", "failed", "skipped"})
      /\ Len(Skipped(p)) = Len(Order) - at[p]
      /\ \A i \in 1..Len(Skipped(p)) : Skipped(p)[i] = "skipped"
  <2>1. Skipped(p) = [i \in 1..(Len(Order) - at[p]) |-> "skipped"] /\ Len(Order) - at[p] \in Nat
    BY <1>1, OrderFacts DEF Skipped
  <2> QED
    BY <2>1, SkippedType
<1> HIDE DEF s
<1>4. /\ Len(s \o Skipped(p)) = Len(Order)
      /\ \A i \in 1..Len(Order) :
            (s \o Skipped(p))[i] = IF i <= at[p] THEN s[i] ELSE Skipped(p)[i - at[p]]
  <2>1. /\ s \o Skipped(p) \in Seq({"success", "failed", "skipped"})
        /\ Len(s \o Skipped(p)) = Len(s) + Len(Skipped(p))
        /\ \A i \in 1..(Len(s) + Len(Skipped(p))) :
              (s \o Skipped(p))[i] = IF i <= Len(s) THEN s[i] ELSE Skipped(p)[i - Len(s)]
    BY <1>2, <1>3, ConcatProperties
  <2>2. Len(s) + Len(Skipped(p)) = Len(Order)
    BY <1>1, <1>2, <1>3, OrderFacts
  <2> QED
    BY <1>2, <2>1, <2>2
<1>5. ASSUME NEW i \in 1..Len(Order)
      PROVE  (s \o Skipped(p))[i] = IF i < at[p] THEN results[p][i]
                                    ELSE IF i = at[p] THEN "failed" ELSE "skipped"
  <2>1. CASE i <= at[p]
    <3>1. i \in 1..Len(s)
      BY <1>1, <1>2, <2>1, OrderFacts
    <3> QED
      BY <1>1, <1>2, <1>4, <2>1, <3>1, OrderFacts
  <2>2. CASE ~ (i <= at[p])
    <3>1. i - at[p] \in 1..Len(Skipped(p))
      BY <1>1, <1>3, <2>2, OrderFacts
    <3>2. (s \o Skipped(p))[i] = "skipped"
      BY <1>3, <1>4, <2>2, <3>1
    <3> QED
      BY <1>1, <2>2, <3>2, OrderFacts
  <2> QED
    BY <2>1, <2>2
<1>6. results'[p] = s \o Skipped(p)
  BY DEF s
<1>7. results'[p] \in Seq({"success", "failed", "skipped"})
  BY <1>2, <1>3, <1>6, ConcatProperties
<1>8. DOMAIN results'[p] = 1..Len(Order)
  <2>1. DOMAIN results'[p] = 1..Len(results'[p])
    BY <1>7
  <2> QED
    BY <1>4, <1>6, <2>1
<1> QED
  BY <1>4, <1>5, <1>6, <1>8

LEMMA ReportsAreTrue ==
    /\ ReportIsTrue <=> \A p \in Procs : TrueReport(p)
    /\ ReportIsTrue' <=> \A p \in Procs : TrueReport(p)'
BY DEF ReportIsTrue, TrueReport, HasPassed

LEMMA FailsReports ==
    ASSUME TypeOK, TypeOK', NEW p \in Procs, OutcomeFits(p), CountFits(p), TrueReport(p),
           pc[p] \in Running \ Integrating, TaskFails(p, pc[p]), kind' = kind,
           pulled \subseteq pulled', passed \subseteq passed'
    PROVE  OutcomeFits(p)' /\ CountFits(p)' /\ TrueReport(p)'
<1>1. /\ pc'[p] = "over" /\ outcome'[p] = "none" /\ at' = at
      /\ results'[p] = Append(results[p], "failed") \o Skipped(p)
  BY DEF TaskFails, Goes, Steps, TypeOK
<1>2. "over" \notin {"new", "push", "pr"} \cup Running \cup Integrating
  BY DEF Running, Using, Integrating
<1>3. OutcomeFits(p)' /\ CountFits(p)'
  BY <1>1, <1>2 DEF OutcomeFits, CountFits
<1>4. ASSUME kind[p] # "run"
      PROVE  /\ \A i \in DOMAIN results'[p] :
                    /\ results'[p][i] = "success" => HasPassed(Order[i])'
                    /\ results'[p][i] # "success" =>
                            \A j \in DOMAIN results'[p] : j > i => results'[p][j] = "skipped"
             /\ Len(results'[p]) <= Len(Order)
  <2>1. Len(results[p]) = at[p] - 1
    BY <1>4 DEF CountFits, Done
  <2>2. /\ Len(results'[p]) = Len(Order)
        /\ \A i \in DOMAIN results'[p] :
              results'[p][i] = IF i < at[p] THEN results[p][i]
                               ELSE IF i = at[p] THEN "failed" ELSE "skipped"
    BY <1>1, <1>4, <2>1, FailedReport
  <2>3. /\ results'[p] \in Seq({"success", "failed", "skipped"})
        /\ results[p] \in Seq({"success", "failed", "skipped"})
    BY DEF TypeOK
  <2>4. at[p] \in 1..Len(Order) /\ Len(Order) \in Nat
    BY TaskType, OrderFacts
  <2>5. DOMAIN results'[p] = 1..Len(Order) /\ DOMAIN results[p] = 1..(at[p] - 1)
    BY <2>1, <2>2, <2>3
  <2>6. \A i \in 1..(at[p] - 1) : results[p][i] = "success" /\ HasPassed(Order[i])'
    BY <1>4, <2>5 DEF CountFits, TrueReport, HasPassed
  <2>7. ASSUME NEW i \in 1..Len(Order)
        PROVE  /\ results'[p][i] = "success" => HasPassed(Order[i])'
               /\ results'[p][i] # "success" =>
                      \A j \in 1..Len(Order) : j > i => results'[p][j] = "skipped"
    <3>1. \A j \in 1..Len(Order) :
            results'[p][j] = IF j < at[p] THEN results[p][j]
                             ELSE IF j = at[p] THEN "failed" ELSE "skipped"
      BY <2>2, <2>5
    <3>2. CASE i < at[p]
      <4>1. i \in 1..(at[p] - 1)
        BY <2>4, <3>2
      <4> QED
        BY <2>6, <3>1, <3>2, <4>1
    <3>3. CASE i >= at[p]
      <4>1. results'[p][i] # "success"
        BY <2>4, <3>1, <3>3
      <4>2. \A j \in 1..Len(Order) : j > i => results'[p][j] = "skipped"
        BY <2>4, <3>1, <3>3
      <4> QED
        BY <4>1, <4>2
    <3> QED
      BY <2>4, <3>2, <3>3
  <2> QED
    BY <2>2, <2>4, <2>5, <2>7
<1>5. TrueReport(p)'
  BY <1>4 DEF TrueReport
<1> QED
  BY <1>3, <1>5

(* The run is through with a task that has passed. *)
LEMMA SucceedsReports ==
    ASSUME TypeOK, NEW p \in Procs, OutcomeFits(p), CountFits(p), TrueReport(p),
           pc[p] = "release", outcome[p] = "success", outcome'[p] = "none",
           results'[p] = Append(results[p], "success"), kind' = kind,
           pulled \subseteq pulled', passed \subseteq passed',
           pc'[p] \in {"over", "prefork", "validate", "integrate"},
           pc'[p] \in {"prefork", "validate"} => at'[p] = at[p] + 1,
           pc'[p] = "integrate" => at' = at
    PROVE  OutcomeFits(p)' /\ CountFits(p)' /\ TrueReport(p)'
<1>1. results[p] \in Seq({"success", "failed", "skipped"})
  BY DEF TypeOK
<1>2. at[p] \in 1..Len(Order) /\ Len(Order) \in Nat /\ HasPassed(Task(p))
  BY TaskType, OrderFacts DEF OutcomeFits
<1>3. /\ "release" \in Running \ Integrating /\ "over" \notin {"new"} \cup Running
      /\ {"over", "prefork", "validate", "integrate"} \cap {"push", "pr", "new"} = {}
      /\ {"prefork", "validate"} \cap Integrating = {} /\ "integrate" \in Integrating
  BY DEF Running, Using, Integrating
<1>4. ASSUME kind[p] # "run"
      PROVE  /\ DOMAIN results'[p] = 1..at[p] /\ Len(results'[p]) = at[p]
             /\ \A i \in 1..at[p] : results'[p][i] = "success" /\ HasPassed(Order[i])'
  <2>1. /\ Len(results[p]) = at[p] - 1
        /\ \A i \in DOMAIN results[p] : results[p][i] = "success" /\ HasPassed(Order[i])'
    BY <1>3, <1>4 DEF CountFits, TrueReport, HasPassed, Done
  <2>2. /\ Len(results'[p]) = at[p] /\ DOMAIN results'[p] = 1..at[p]
        /\ DOMAIN results[p] = 1..(at[p] - 1)
        /\ \A i \in 1..at[p] : results'[p][i] = IF i < at[p] THEN results[p][i] ELSE "success"
    BY <1>1, <1>2, <2>1
  <2>3. ASSUME NEW i \in 1..at[p]
        PROVE  results'[p][i] = "success" /\ HasPassed(Order[i])'
    <3>1. CASE i < at[p]
      <4>1. i \in 1..(at[p] - 1)
        BY <1>2, <3>1
      <4> QED
        BY <2>1, <2>2, <3>1, <4>1
    <3>2. CASE i = at[p]
      <4>1. HasPassed(Order[i])'
        BY <1>2, <3>2 DEF Task, HasPassed
      <4> QED
        BY <1>2, <2>2, <3>2, <4>1
    <3>3. i < at[p] \/ i = at[p]
      BY <1>2
    <3> QED
      BY <3>1, <3>2, <3>3
  <2> QED
    BY <2>2, <2>3
<1>5. OutcomeFits(p)'
  BY <1>3 DEF OutcomeFits
<1>6. CountFits(p)'
  <2> SUFFICES ASSUME kind[p] # "run", pc'[p] \in {"new"} \cup Running
               PROVE  /\ Len(results'[p]) = Done(p)'
                      /\ \A i \in DOMAIN results'[p] : results'[p][i] = "success"
    BY DEF CountFits
  <2>1. Done(p)' = at[p]
    BY <1>2, <1>3 DEF Done
  <2> QED
    BY <1>4, <2>1
<1>7. TrueReport(p)'
  <2>1. kind[p] # "run" =>
            /\ \A i \in DOMAIN results'[p] : results'[p][i] = "success" /\ HasPassed(Order[i])'
            /\ Len(results'[p]) <= Len(Order)
    BY <1>2, <1>4
  <2> QED
    BY <2>1 DEF TrueReport
<1> QED
  BY <1>5, <1>6, <1>7

LEMMA ReportsKept == ASSUME IInv, [Next]_vars PROVE SoFar' /\ ReportIsTrue'
<1>0. /\ TypeOK /\ TypeOK' /\ SoFar /\ ReportIsTrue /\ \A p \in Procs : Task(p) \in Tasks
      /\ pulled \subseteq pulled' /\ passed \subseteq passed'
      /\ \A p \in Procs : OutcomeFits(p) /\ CountFits(p) /\ TrueReport(p)
  BY Types, TypesKept, HistoryGrows, ReportsAreTrue DEF IInv, Grows, SoFar
<1>k. /\ Integrating \subseteq Running /\ Using \cap Integrating = {} /\ {"new"} \cap Running = {}
      /\ {"add", "preadd", "lock", "taking", "spawn", "session", "gate", "push", "pr", "release",
          "prefork", "validate"} \subseteq Running \ Integrating
      /\ {"over", "traceback", "dead"} \cap Running = {}
      /\ Integrating = {"integrate", "clean", "clean_branch"}
  BY DEF Integrating, Running, Using
(* The other runs keep what they report. *)
<1>a. ASSUME NEW q \in Procs, pc'[q] = pc[q], kind'[q] = kind[q], at'[q] = at[q],
             results'[q] = results[q], outcome'[q] = outcome[q]
      PROVE  OutcomeFits(q)' /\ CountFits(q)' /\ TrueReport(q)'
  <2>1. Task(q)' = Task(q) /\ Done(q)' = Done(q)
    BY <1>a DEF Task, Done
  <2> QED
    BY <1>0, <1>a, <2>1 DEF OutcomeFits, CountFits, TrueReport, HasPassed
<1>b. ASSUME NEW p \in Procs, Apart(p), OutcomeFits(p)', CountFits(p)', TrueReport(p)'
      PROVE  SoFar' /\ ReportIsTrue'
  <2>1. \A q \in Procs : OutcomeFits(q)' /\ CountFits(q)' /\ TrueReport(q)'
    BY <1>a, <1>b DEF Apart
  <2> QED
    BY <2>1, ReportsAreTrue DEF SoFar
<1>c. ASSUME UNCHANGED <<pc, kind, at, results, outcome>>
      PROVE  SoFar' /\ ReportIsTrue'
  <2>1. \A q \in Procs : OutcomeFits(q)' /\ CountFits(q)' /\ TrueReport(q)'
    BY <1>a, <1>c
  <2> QED
    BY <2>1, ReportsAreTrue DEF SoFar
(* A run that goes on with what it has to report. *)
<1>d. ASSUME NEW p \in Procs, KeepsReport(p), pc'[p] # "new"
      PROVE  CountFits(p)' /\ TrueReport(p)'
  BY <1>0, <1>d DEF KeepsReport, CountFits, TrueReport, OutcomeFits, HasPassed
<1>e. ASSUME NEW p \in Procs, KeepsOutcome(p), pc'[p] # "new"
      PROVE  OutcomeFits(p)'
  BY <1>0, <1>e DEF KeepsOutcome, OutcomeFits, HasPassed
<1>f. ASSUME NEW p \in Procs, Apart(p), pc[p] \in Running \ Integrating,
             pc'[p] \in Running \ Integrating,
             kind' = kind, at' = at, results' = results
      PROVE  KeepsReport(p)
  BY <1>f DEF KeepsReport, Done
<1>g. ASSUME NEW p \in Procs, Apart(p), pc[p] \in Running \ Integrating,
             pc'[p] \in Running \ (Integrating \cup {"push", "pr"}),
             kind' = kind, at' = at, results' = results,
             outcome'[p] = outcome[p] \/ outcome'[p] # "success"
      PROVE  SoFar' /\ ReportIsTrue'
  <2>1. Task(p)' = Task(p) /\ pc'[p] # "new"
    BY <1>g, <1>k DEF Task
  <2>2. KeepsOutcome(p)
    BY <1>g, <2>1 DEF KeepsOutcome
  <2> QED
    BY <1>b, <1>d, <1>e, <1>f, <1>g, <2>1, <2>2
<1>1. ASSUME NEW p \in Procs, Quiet(p) PROVE SoFar' /\ ReportIsTrue'
  <2>1. Apart(p) /\ Reports(p) /\ pc'[p] # "new"
    BY <1>1 DEF Quiet, StaysFresh
  <2>2. CASE KeepsReport(p) /\ KeepsOutcome(p)
    BY <1>b, <1>d, <1>e, <2>1, <2>2
  <2>3. CASE TaskFails(p, pc[p]) /\ pc[p] \in Running \ Integrating /\ kind' = kind
    BY <1>0, <1>b, <2>1, <2>3, FailsReports
  <2> QED
    BY <2>1, <2>2, <2>3 DEF Reports
<1>2. ASSUME NEW p \in Procs, Add(p) PROVE SoFar' /\ ReportIsTrue'
  <2>1. /\ Apart(p) /\ UNCHANGED <<kind, at, results, outcome>>
        /\ {pc[p], pc'[p]} \subseteq {"add", "preadd", "lock", "validate"}
    BY <1>0, <1>2, AddDoes
  <2>2. {"add", "preadd", "lock", "validate"} \subseteq Running \ (Integrating \cup {"push", "pr"})
    BY <1>k
  <2> QED
    BY <1>g, <2>1, <2>2
<1>3. ASSUME NEW p \in Procs, JudgeLock(p) PROVE SoFar' /\ ReportIsTrue'
  <2>1. /\ Apart(p) /\ UNCHANGED <<kind, at, results>>
        /\ {pc[p], pc'[p]} \subseteq Running \ (Integrating \cup {"push", "pr"})
        /\ outcome'[p] = outcome[p] \/ outcome'[p] # "success"
    BY <1>0, <1>k, <1>3, JudgeLockDoes
  <2> QED
    BY <1>g, <2>1
<1>4. ASSUME NEW p \in Procs, TakeLock(p) PROVE SoFar' /\ ReportIsTrue'
  <2>1. /\ Apart(p) /\ UNCHANGED <<kind, at, results>>
        /\ {pc[p], pc'[p]} \subseteq Running \ (Integrating \cup {"push", "pr"})
        /\ outcome'[p] = outcome[p] \/ outcome'[p] # "success"
    BY <1>0, <1>k, <1>4, TakeLockDoes
  <2> QED
    BY <1>g, <2>1
<1>5. ASSUME NEW p \in Procs, Spawn(p) PROVE SoFar' /\ ReportIsTrue'
  <2>1. /\ Apart(p) /\ UNCHANGED <<kind, at, results>>
        /\ {pc[p], pc'[p]} \subseteq Running \ (Integrating \cup {"push", "pr"})
        /\ outcome'[p] = outcome[p] \/ outcome'[p] # "success"
    BY <1>0, <1>k, <1>5, SpawnDoes
  <2> QED
    BY <1>g, <2>1
<1>6. ASSUME NEW p \in Procs, SpawnFails(p) PROVE SoFar' /\ ReportIsTrue'
  <2>1. /\ Apart(p) /\ UNCHANGED <<kind, at, results>>
        /\ {pc[p], pc'[p]} \subseteq Running \ (Integrating \cup {"push", "pr"})
        /\ outcome'[p] = outcome[p] \/ outcome'[p] # "success"
    BY <1>0, <1>k, <1>6, SpawnFailsDoes
  <2> QED
    BY <1>g, <2>1
<1>7. ASSUME NEW p \in Procs, Gate(p) PROVE SoFar' /\ ReportIsTrue'
  <2>1. /\ Apart(p) /\ UNCHANGED <<kind, at, results>> /\ Task(p)' = Task(p)
        /\ pc[p] = "gate" /\ pc'[p] \in {"push", "release"}
        /\ \/ /\ outcome'[p] = "success" /\ wt[Task(p)] # None
              /\ IsWorktree(Task(p)) => Task(p) \in passed'
           \/ outcome'[p] = "failed" /\ pc'[p] = "release"
    BY <1>0, <1>7, GateDoes DEF SameTasks
  <2>2. CountFits(p)' /\ TrueReport(p)'
    BY <1>d, <1>f, <1>k, <2>1
  <2>3. outcome'[p] = "success" => HasPassed(Task(p))'
    <3>1. StraysArePulled
      BY DEF IInv, Locks
    <3>2. outcome'[p] = "success" => Task(p) \in pulled' \cup passed'
      BY <1>0, <2>1, <3>1 DEF StraysArePulled
    <3> QED
      BY <2>1, <3>2 DEF HasPassed
  <2>4. OutcomeFits(p)'
    BY <1>k, <2>1, <2>3 DEF OutcomeFits
  <2> QED
    BY <1>b, <2>1, <2>2, <2>4
<1>8. ASSUME NEW p \in Procs, Push(p) PROVE SoFar' /\ ReportIsTrue'
  <2>1. /\ Apart(p) /\ UNCHANGED <<kind, at, results, outcome>> /\ Task(p)' = Task(p)
        /\ pc[p] = "push" /\ pc'[p] \in {"pr", "release"}
    BY <1>0, <1>8, PushDoes DEF SameTasks
  <2>2. CountFits(p)' /\ TrueReport(p)'
    BY <1>d, <1>f, <1>k, <2>1
  <2>3. OutcomeFits(p)'
    BY <1>0, <1>k, <2>1 DEF OutcomeFits, HasPassed
  <2> QED
    BY <1>b, <2>1, <2>2, <2>3
<1>9. ASSUME NEW p \in Procs, Release(p) PROVE SoFar' /\ ReportIsTrue'
  <2>0. pc[p] = "release" /\ Apart(p) /\ UNCHANGED <<kind, agent>>
    BY <1>0, <1>9, ReleaseDoes
  <2>1. CASE TaskFails(p, "release")
    BY <1>0, <1>b, <1>k, <2>0, <2>1, FailsReports
  <2>2. CASE pc'[p] = "traceback" /\ UNCHANGED <<at, results, outcome, own>>
    <3>1. Task(p)' = Task(p)
      BY <2>2 DEF Task
    <3>2. KeepsReport(p) /\ KeepsOutcome(p)
      BY <1>k, <2>0, <2>2, <3>1 DEF KeepsReport, KeepsOutcome
    <3> QED
      BY <1>b, <1>d, <1>e, <2>0, <2>2, <3>2
  <2>3. CASE /\ outcome[p] = "success" /\ outcome'[p] = "none"
             /\ results'[p] = Append(results[p], "success")
             /\ pc'[p] \in {"over", "prefork", "validate", "integrate"}
             /\ pc'[p] \in {"over", "integrate"} => at' = at
             /\ pc'[p] \in {"prefork", "validate"} => kind[p] # "run" /\ at'[p] = at[p] + 1
    BY <1>0, <1>b, <2>0, <2>3, SucceedsReports
  <2> QED
    BY <1>0, <1>9, <2>1, <2>2, <2>3, ReleaseDoes
<1>10. ASSUME NEW p \in Procs, RebaseOnto(p) PROVE SoFar' /\ ReportIsTrue'
  <2>1. UNCHANGED <<pc, kind, at, results, outcome>>
    BY <1>0, <1>10, RebaseDoes
  <2> QED
    BY <1>c, <2>1
<1>11. ASSUME NEW p \in Procs, CleanWorktree(p) PROVE SoFar' /\ ReportIsTrue'
  <2>1. /\ Apart(p) /\ UNCHANGED <<kind, at, results, outcome>> /\ Task(p)' = Task(p)
        /\ pc[p] = "clean" /\ pc'[p] = "clean_branch"
    BY <1>0, <1>11, CleanWorktreeDoes DEF SameTasks
  <2>2. KeepsReport(p)
    BY <1>k, <2>1 DEF KeepsReport, Done
  <2>3. KeepsOutcome(p)
    BY <1>0, <1>k, <2>1 DEF KeepsOutcome, OutcomeFits
  <2> QED
    BY <1>b, <1>d, <1>e, <2>1, <2>2, <2>3
<1>12. ASSUME NEW p \in Procs, CleanBranch(p) PROVE SoFar' /\ ReportIsTrue'
  <2>1. /\ Apart(p) /\ UNCHANGED <<kind, results, outcome>>
        /\ pc[p] = "clean_branch" /\ pc'[p] \in {"over", "prefork", "validate"}
        /\ pc'[p] # "over" => at'[p] = at[p] + 1
    BY <1>0, <1>12, CleanBranchDoes
  <2>2. at[p] \in Nat
    BY <1>0, TaskType, OrderFacts
  <2>3. KeepsReport(p)
    BY <1>k, <2>1, <2>2 DEF KeepsReport, Done
  <2>4. KeepsOutcome(p)
    <3>1. outcome'[p] = "none"
      BY <1>0, <1>k, <2>1 DEF OutcomeFits
    <3> QED
      BY <1>k, <2>1, <3>1 DEF KeepsOutcome
  <2> QED
    BY <1>b, <1>d, <1>e, <2>1, <2>3, <2>4
<1>13. ASSUME NEW p \in Procs, AgentCommits(p) PROVE SoFar' /\ ReportIsTrue'
  BY <1>0, <1>c, <1>13, CommitsDoes DEF AgentCommits, Locals
<1>14. ASSUME NEW t \in orphaned, Commits(t) PROVE SoFar' /\ ReportIsTrue'
  <2>1. t \in Tasks
    BY Types, <1>14 DEF HistoryTypes
  <2> QED
    BY <1>0, <1>c, <2>1, <1>14, CommitsDoes DEF Locals
<1>15. ASSUME NEW p \in Procs, AgentExits(p) PROVE SoFar' /\ ReportIsTrue'
  BY <1>0, <1>c, <1>15, AgentExitsDoes DEF Locals
<1>16. ASSUME NEW p \in Procs, Crash(p) PROVE SoFar' /\ ReportIsTrue'
  <2>1. /\ pc'[p] = "dead" /\ UNCHANGED <<kind, at, results, outcome>> /\ Task(p)' = Task(p)
        /\ \A q \in Procs \ {p} : pc'[q] = pc[q]
    BY <1>0, <1>16, CrashDoes DEF SameTasks
  <2>2. KeepsReport(p) /\ KeepsOutcome(p)
    BY <1>k, <2>1 DEF KeepsReport, KeepsOutcome
  <2>3. \A q \in Procs : OutcomeFits(q)' /\ CountFits(q)' /\ TrueReport(q)'
    BY <1>a, <1>d, <1>e, <2>1, <2>2
  <2> QED
    BY <2>3, ReportsAreTrue DEF SoFar
<1>17. ASSUME Change PROVE SoFar' /\ ReportIsTrue'
  BY <1>0, <1>c, <1>17, ChangeDoes DEF Locals
<1>18. ASSUME UNCHANGED vars PROVE SoFar' /\ ReportIsTrue'
  BY <1>c, <1>18 DEF vars, task
<1> QED
  BY <1>1, <1>2, <1>3, <1>4, <1>5, <1>6, <1>7, <1>8, <1>9,
     <1>10, <1>11, <1>12, <1>13, <1>14, <1>15, <1>16, <1>17, <1>18, Cases

LEMMA HalvesKept == ASSUME IInv, [Next]_vars PROVE HalvesAreExplained'
<1>0. TypeOK /\ HalvesAreExplained /\ halfGone \subseteq halfGone' /\ \A p \in Procs : Task(p) \in Tasks
  BY Types, HistoryGrows DEF IInv, Traces, Grows
(* The other runs go on with their cleanups, and there are no new halves.  *)
<1>a. ASSUME NEW p \in Procs, pc[p] # "clean_branch",
             \A q \in Procs \ {p} : pc'[q] = pc[q] /\ Task(q)' = Task(q),
             \A t \in Tasks : branch'[t] # None /\ wt'[t] = None => branch[t] # None /\ wt[t] = None
      PROVE  HalvesAreExplained'
  BY <1>0, <1>a DEF HalvesAreExplained
<1>e. ASSUME NEW p \in Procs, Apart(p)
      PROVE  \A q \in Procs \ {p} : pc'[q] = pc[q] /\ Task(q)' = Task(q)
  BY <1>e DEF Apart, Task
<1>i. ASSUME UNCHANGED pc, SameTasks,
             \A t \in Tasks : branch'[t] # None /\ wt'[t] = None => branch[t] # None /\ wt[t] = None
      PROVE  HalvesAreExplained'
  BY <1>0, <1>i DEF HalvesAreExplained, SameTasks
<1>1. ASSUME NEW p \in Procs, Quiet(p) PROVE HalvesAreExplained'
  BY <1>a, <1>e, <1>1 DEF Quiet, Shared, FindsMissing
<1>2. ASSUME NEW p \in Procs, Add(p) PROVE HalvesAreExplained'
  <2>1. PICK u \in Tasks : u = Task(p) /\ Task(p)' = u
    BY <1>0, <1>2, AddDoes DEF SameTasks
  <2>2. /\ IsWorktree(Task(p))' /\ Apart(p) /\ OnlyAt(u) /\ pc[p] # "clean_branch"
        /\ \A t \in Tasks \ {u} : branch'[t] = branch[t]
    BY <1>0, <2>1, <1>2, AddDoes
  <2>3. wt'[u] # None
    BY <2>1, <2>2 DEF IsWorktree
  <2> QED
    BY <1>a, <1>e, <2>2, <2>3 DEF OnlyAt
<1>3. ASSUME NEW p \in Procs, JudgeLock(p) PROVE HalvesAreExplained'
  <2>1. Puts(p) /\ Apart(p) /\ pc[p] # "clean_branch" /\ branch' = branch
    BY <1>0, <1>3, JudgeLockDoes
  <2>2. \A t \in Tasks : wt'[t] = None => wt[t] = None
    BY <1>0, <2>1 DEF Puts, OnlyAt
  <2> QED
    BY <1>a, <1>e, <2>1, <2>2
<1>4. ASSUME NEW p \in Procs, TakeLock(p) PROVE HalvesAreExplained'
  <2>1. /\ Apart(p) /\ pc[p] # "clean_branch" /\ branch' = branch
        /\ \A t \in Tasks : wt'[t] = None => wt[t] = None
    BY <1>0, <1>4, TakeLockDoes DEF OnlyAt
  <2> QED
    BY <1>a, <1>e, <2>1
<1>5. ASSUME NEW p \in Procs, Spawn(p) PROVE HalvesAreExplained'
  <2>1. Puts(p) /\ Apart(p) /\ pc[p] # "clean_branch" /\ branch' = branch
    BY <1>0, <1>5, SpawnDoes
  <2>2. \A t \in Tasks : wt'[t] = None => wt[t] = None
    BY <1>0, <2>1 DEF Puts, OnlyAt
  <2> QED
    BY <1>a, <1>e, <2>1, <2>2
<1>6. ASSUME NEW p \in Procs, SpawnFails(p) PROVE HalvesAreExplained'
  <2>1. Puts(p) /\ Apart(p) /\ pc[p] # "clean_branch" /\ branch' = branch
    BY <1>0, <1>6, SpawnFailsDoes
  <2>2. \A t \in Tasks : wt'[t] = None => wt[t] = None
    BY <1>0, <2>1 DEF Puts, OnlyAt
  <2> QED
    BY <1>a, <1>e, <2>1, <2>2
<1>7. ASSUME NEW p \in Procs, Gate(p) PROVE HalvesAreExplained'
  BY <1>0, <1>a, <1>e, <1>7, GateDoes
<1>8. ASSUME NEW p \in Procs, Push(p) PROVE HalvesAreExplained'
  BY <1>0, <1>a, <1>e, <1>8, PushDoes
<1>9. ASSUME NEW p \in Procs, Release(p) PROVE HalvesAreExplained'
  <2>1. /\ Apart(p) /\ pc[p] # "clean_branch" /\ branch' = branch
        /\ wt' = Unlocked(p, Task(p))
    BY <1>0, <1>9, ReleaseDoes
  <2> QED
    BY <1>0, <1>a, <1>e, <2>1, UnlockedDoes
<1>10. ASSUME NEW p \in Procs, RebaseOnto(p) PROVE HalvesAreExplained'
  <2>1. /\ Apart(p) /\ pc[p] # "clean_branch" /\ branch' = branch
        /\ \A t \in Tasks : wt'[t] = None => wt[t] = None
    BY <1>0, <1>10, RebaseDoes DEF OnlyAt
  <2> QED
    BY <1>a, <1>e, <2>1
<1>11. ASSUME NEW p \in Procs, CleanWorktree(p) PROVE HalvesAreExplained'
  <2>1. PICK u \in Tasks : u = Task(p) /\ Task(p)' = u
    BY <1>0, <1>11, CleanWorktreeDoes DEF SameTasks
  <2>2. /\ pc'[p] = "clean_branch" /\ pc[p] # "clean_branch" /\ branch' = branch
        /\ Apart(p) /\ OnlyAt(u)
    BY <1>0, <2>1, <1>11, CleanWorktreeDoes
  <2>3. \A q \in Procs \ {p} : pc'[q] = pc[q] /\ Task(q)' = Task(q)
    BY <1>e, <2>2
  <2>4. \A t \in Tasks \ {u} : branch'[t] # None /\ wt'[t] = None => branch[t] # None /\ wt[t] = None
    BY <2>2 DEF OnlyAt
  <2> QED
    BY <1>0, <2>1, <2>2, <2>3, <2>4 DEF HalvesAreExplained
<1>12. ASSUME NEW p \in Procs, CleanBranch(p) PROVE HalvesAreExplained'
  <2>1. PICK u \in Tasks : u = Task(p)
    BY <1>0
  <2>2. /\ wt' = wt /\ Apart(p) /\ (branch'[u] = None \/ wt[u] # None)
        /\ \A t \in Tasks \ {u} : branch'[t] = branch[t]
    BY <1>0, <2>1, <1>12, CleanBranchDoes DEF IsWorktree
  <2>3. \A q \in Procs \ {p} : pc'[q] = pc[q] /\ Task(q)' = Task(q)
    BY <1>e, <2>2
  <2> QED
    BY <1>0, <2>1, <2>2, <2>3 DEF HalvesAreExplained
<1>13. ASSUME NEW p \in Procs, AgentCommits(p) PROVE HalvesAreExplained'
  BY <1>0, <1>i, <1>13, CommitsDoes DEF AgentCommits, Locals
<1>14. ASSUME NEW t \in orphaned, Commits(t) PROVE HalvesAreExplained'
  <2>1. t \in Tasks
    BY Types, <1>14 DEF HistoryTypes
  <2> QED
    BY <1>0, <1>i, <2>1, <1>14, CommitsDoes DEF Locals
<1>15. ASSUME NEW p \in Procs, AgentExits(p) PROVE HalvesAreExplained'
  BY <1>0, <1>i, <1>15, AgentExitsDoes DEF Locals
<1>16. ASSUME NEW p \in Procs, Crash(p) PROVE HalvesAreExplained'
  <2>1. /\ UNCHANGED <<wt, branch>> /\ SameTasks /\ \A q \in Procs \ {p} : pc'[q] = pc[q]
        /\ halfGone' = IF pc[p] = "clean_branch" THEN halfGone \cup {Task(p)} ELSE halfGone
    BY <1>0, <1>16, CrashDoes
  <2> QED
    BY <1>0, <2>1 DEF HalvesAreExplained, SameTasks
<1>17. ASSUME Change PROVE HalvesAreExplained'
  BY <1>0, <1>i, <1>17, ChangeDoes DEF Locals
<1>18. ASSUME UNCHANGED vars PROVE HalvesAreExplained'
  <2>1. UNCHANGED <<pc, wt, branch>> /\ SameTasks
    BY <1>18 DEF vars, task, SameTasks, Task
  <2> QED
    BY <1>i, <2>1
<1> QED
  BY <1>1, <1>2, <1>3, <1>4, <1>5, <1>6, <1>7, <1>8, <1>9,
     <1>10, <1>11, <1>12, <1>13, <1>14, <1>15, <1>16, <1>17, <1>18, Cases

LEMMA MissingKept == ASSUME IInv, [Next]_vars PROVE FoundMissing'
<1>0. TypeOK /\ FoundMissing /\ \A p \in Procs : Task(p) \in Tasks
  BY Types DEF IInv, Traces
(* Whoever fills a place tells those that found it empty.                  *)
<1>a. ASSUME NEW p \in Procs, NEW u \in Tasks, outrun \ {p} \subseteq outrun',
             \A q \in Procs \ {p} : pc'[q] = pc[q] /\ Task(q)' = Task(q),
             \A t \in Tasks \ {u} : wt[t] = None => wt'[t] = None,
             wt[u] = None => wt'[u] = None \/ ToAdd(p, u) \subseteq outrun',
             pc'[p] \notin {"add", "preadd"} \/ p \in outrun' \/ wt'[Task(p)'] = None
      PROVE  FoundMissing'
  <2> SUFFICES ASSUME NEW q \in Procs, pc'[q] \in {"add", "preadd"}, q # p
               PROVE  q \in outrun' \/ wt'[Task(q)'] = None
    BY <1>a DEF FoundMissing
  <2>1. q \in outrun \/ wt[Task(q)] = None
    BY <1>0, <1>a DEF FoundMissing
  <2>2. wt[Task(q)] = None => wt'[Task(q)] = None \/ q \in outrun'
    <3>1. Task(q) = u => q \in ToAdd(p, u)
      BY <1>a DEF ToAdd
    <3> QED
      BY <1>0, <1>a, <3>1
  <2> QED
    BY <1>a, <2>1, <2>2
<1>e. ASSUME NEW p \in Procs, Apart(p)
      PROVE  \A q \in Procs \ {p} : pc'[q] = pc[q] /\ Task(q)' = Task(q)
  BY <1>e DEF Apart, Task
<1>b. ASSUME NEW p \in Procs, Apart(p), outrun' = outrun, pc'[p] \notin {"add", "preadd"},
             \A t \in Tasks : wt[t] = None => wt'[t] = None
      PROVE  FoundMissing'
  <2>1. Task(p) \in Tasks
    BY <1>0
  <2> QED
    BY <1>a, <1>b, <1>e, <2>1
<1>i. ASSUME UNCHANGED <<pc, wt, outrun>>, SameTasks
      PROVE  FoundMissing'
  BY <1>0, <1>i DEF FoundMissing, SameTasks
<1>j. ASSUME NEW p \in Procs, Apart(p), Puts(p), pc'[p] \notin {"add", "preadd"}
      PROVE  FoundMissing'
  <2>1. PICK u \in Tasks : u = Task(p)
    BY <1>0
  <2>2. /\ outrun \subseteq outrun' /\ OnlyAt(u)
        /\ wt[u] = None => ToAdd(p, u) \subseteq outrun'
    BY <1>j, <2>1 DEF Puts
  <2> QED
    BY <1>a, <1>e, <1>j, <2>2 DEF OnlyAt
<1>1. ASSUME NEW p \in Procs, Quiet(p) PROVE FoundMissing'
  <2>1. /\ Apart(p) /\ wt' = wt /\ outrun' \in {outrun, outrun \ {p}}
        /\ pc'[p] \in {"add", "preadd"} => wt[Task(p)] = None /\ Task(p)' = Task(p)
    BY <1>1 DEF Quiet, Shared, FindsMissing
  <2>2. Task(p) \in Tasks
    BY <1>0
  <2> QED
    BY <1>a, <1>e, <2>1, <2>2
<1>2. ASSUME NEW p \in Procs, Add(p) PROVE FoundMissing'
  <2>1. PICK u \in Tasks : u = Task(p)
    BY <1>0
  <2>2. /\ Apart(p) /\ OnlyAt(u) /\ pc'[p] \notin {"add", "preadd"}
        /\ outrun' = (outrun \ {p}) \cup ToAdd(p, u)
    BY <1>0, <2>1, <1>2, AddDoes
  <2> QED
    BY <1>a, <1>e, <2>2 DEF OnlyAt
<1>3. ASSUME NEW p \in Procs, JudgeLock(p) PROVE FoundMissing'
  BY <1>0, <1>j, <1>3, JudgeLockDoes
<1>4. ASSUME NEW p \in Procs, TakeLock(p) PROVE FoundMissing'
  <2>1. /\ Apart(p) /\ outrun' = outrun /\ pc'[p] = "spawn" /\ OnlyAt(Task(p))
        /\ wt[Task(p)] = None => wt' = wt
    BY <1>0, <1>4, TakeLockDoes
  <2> QED
    BY <1>b, <2>1 DEF OnlyAt
<1>5. ASSUME NEW p \in Procs, Spawn(p) PROVE FoundMissing'
  BY <1>0, <1>j, <1>5, SpawnDoes
<1>6. ASSUME NEW p \in Procs, SpawnFails(p) PROVE FoundMissing'
  BY <1>0, <1>j, <1>6, SpawnFailsDoes
<1>7. ASSUME NEW p \in Procs, Gate(p) PROVE FoundMissing'
  BY <1>0, <1>b, <1>7, GateDoes
<1>8. ASSUME NEW p \in Procs, Push(p) PROVE FoundMissing'
  BY <1>0, <1>b, <1>8, PushDoes
<1>9. ASSUME NEW p \in Procs, Release(p) PROVE FoundMissing'
  <2>1. /\ Apart(p) /\ outrun' = outrun /\ pc'[p] \notin {"add", "preadd"}
        /\ wt' = Unlocked(p, Task(p))
    BY <1>0, <1>9, ReleaseDoes DEF history
  <2> QED
    BY <1>0, <1>b, <2>1, UnlockedDoes
<1>10. ASSUME NEW p \in Procs, RebaseOnto(p) PROVE FoundMissing'
  <2>1. /\ Apart(p) /\ outrun' = outrun /\ pc'[p] = "integrate" /\ OnlyAt(Task(p))
        /\ wt[Task(p)] # None
    BY <1>0, <1>10, RebaseDoes DEF IsWorktree
  <2> QED
    BY <1>b, <2>1 DEF OnlyAt
<1>11. ASSUME NEW p \in Procs, CleanWorktree(p) PROVE FoundMissing'
  <2>1. /\ Apart(p) /\ outrun' = outrun /\ pc'[p] = "clean_branch" /\ OnlyAt(Task(p))
        /\ UNCHANGED wt \/ wt'[Task(p)] = None
    BY <1>0, <1>11, CleanWorktreeDoes
  <2> QED
    BY <1>b, <2>1 DEF OnlyAt
<1>12. ASSUME NEW p \in Procs, CleanBranch(p) PROVE FoundMissing'
  BY <1>0, <1>b, <1>12, CleanBranchDoes
<1>13. ASSUME NEW p \in Procs, AgentCommits(p) PROVE FoundMissing'
  BY <1>0, <1>i, <1>13, CommitsDoes DEF AgentCommits, Locals
<1>14. ASSUME NEW t \in orphaned, Commits(t) PROVE FoundMissing'
  <2>1. t \in Tasks
    BY Types, <1>14 DEF HistoryTypes
  <2> QED
    BY <1>0, <1>i, <2>1, <1>14, CommitsDoes DEF Locals
<1>15. ASSUME NEW p \in Procs, AgentExits(p) PROVE FoundMissing'
  BY <1>0, <1>i, <1>15, AgentExitsDoes DEF Locals
<1>16. ASSUME NEW p \in Procs, Crash(p) PROVE FoundMissing'
  <2>1. /\ wt' = wt /\ SameTasks /\ outrun' = outrun \ {p} /\ pc'[p] = "dead"
        /\ \A q \in Procs \ {p} : pc'[q] = pc[q]
    BY <1>0, <1>16, CrashDoes
  <2> QED
    BY <1>0, <2>1 DEF FoundMissing, SameTasks
<1>17. ASSUME Change PROVE FoundMissing'
  BY <1>0, <1>i, <1>17, ChangeDoes DEF Locals, history
<1>18. ASSUME UNCHANGED vars PROVE FoundMissing'
  BY <1>i, <1>18 DEF vars, task, history, SameTasks, Task
<1> QED
  BY <1>1, <1>2, <1>3, <1>4, <1>5, <1>6, <1>7, <1>8, <1>9,
     <1>10, <1>11, <1>12, <1>13, <1>14, <1>15, <1>16, <1>17, <1>18, Cases

-----------------------------------------------------------------------------
LEMMA InitInv == Init => IInv
<1> SUFFICES ASSUME Init PROVE IInv
  OBVIOUS
<1>0. /\ \A p \in Procs : pc[p] = "new" /\ agent[p] = "none" /\ kind[p] = "batch"
      /\ \A p \in Procs : manifest[p] = None /\ ~ own[p] /\ at[p] = 1
      /\ \A p \in Procs : results[p] = <<>> /\ outcome[p] = "none"
      /\ \A t \in Tasks : wt[t] = None /\ branch[t] = None /\ origin[t] = None
  BY DEF Init
<1>1. TypeOK
  <2>1. 1 \in DOMAIN Order /\ <<>> \in Seq(Results)
    BY OrderFacts
  <2>2. \A t \in Tasks : ~ IsWorktree(t)
    BY <1>0 DEF IsWorktree
  <2> QED
    BY <2>1, <2>2 DEF Init, TypeOK, Results
<1>2. "new" \notin Running \cup {"session", "dead", "push", "pr", "taking", "add", "preadd", "clean_branch"}
  BY DEF Running, Using
<1>3. Locks
  BY <1>0, <1>2, Sets
  DEF Locks, AgentIsOfSession, StraysArePulled, WorktreeIsHeld, Held, NobodyIn, Inside, Using
<1>4. Fresh /\ GatedAtPush /\ PushedIsGated
  <2>1. Fresh
    BY <1>0, <1>2 DEF Fresh, IsFresh
  <2>2. GatedAtPush
    BY <1>0 DEF GatedAtPush
  <2>3. None # "ungated"
    BY BatchAssumption
  <2> QED
    BY <1>0, <2>1, <2>2, <2>3 DEF PushedIsGated
<1>5. SoFar
  <2> SUFFICES ASSUME NEW p \in Procs PROVE OutcomeFits(p) /\ CountFits(p)
    BY DEF SoFar
  <2>1. pc[p] \notin Integrating /\ at[p] = 1
    BY <1>0 DEF Integrating
  <2>2. Done(p) = 0
    BY <2>1 DEF Done
  <2>3. results[p] = <<>> /\ Len(<<>>) = 0 /\ DOMAIN <<>> = {}
    BY <1>0
  <2>4. CountFits(p)
    BY <2>2, <2>3 DEF CountFits
  <2>5. kind[p] = "batch" /\ outcome[p] = "none" /\ pc[p] = "new"
    BY <1>0
  <2> QED
    BY <2>4, <2>5 DEF OutcomeFits
<1>6. ReportIsTrue
  BY <1>0, OrderFacts DEF ReportIsTrue
<1>7. Traces
  BY <1>0, <1>2 DEF Traces, HalvesAreExplained, FoundMissing
<1> QED
  BY <1>1, <1>3, <1>4, <1>5, <1>6, <1>7 DEF IInv

LEMMA Invariance == Spec => []IInv
<1>1. IInv /\ [Next]_vars => IInv'
  BY TypesKept, LocksKept, FreshKept, GatesKept, PushedKept, ReportsKept, HalvesKept,
     MissingKept
  DEF IInv, Traces
<1> QED
  BY <1>1, InitInv, PTL DEF Spec

(* Every value is of its type, in any number of runs, and a worktree of a  *)
(* task is never without a branch (C2's worktrees and results).            *)
THEOREM TypeCorrectness == Spec => []TypeOK
<1>1. IInv => TypeOK
  BY DEF IInv
<1> QED
  BY <1>1, Invariance, PTL

(* An agent works in its worktree, with its lock on it, and alone, for any *)
(* number of runs - unless two were taking the lock at once, the           *)
(* coordinator was at the worktree, or somebody was left there             *)
(* (ensure_worktree, acquire_worktree_lock).                               *)
THEOREM SessionsAreAlone == Spec => []SessionIsAlone
<1>1. IInv => SessionIsAlone
  BY AloneInside DEF IInv
<1> QED
  BY <1>1, Invariance, PTL

(* A session in a worktree of its run's making has the artifacts, in the   *)
(* version the run goes by, unless they change while the run is on         *)
(* (_check_manifest_on_base, execute_task).                                *)
THEOREM InputsWereCommitted == Spec => []InputsAreCommitted
<1>1. ASSUME IInv PROVE InputsAreCommitted
  <2> SUFFICES ASSUME NEW p \in Procs, pc[p] = "session", own[p], p \notin edited,
                      Task(p) \notin pulled
               PROVE  /\ wt[Task(p)].version >= 1
                      /\ manifest[p] \in {None, wt[Task(p)].version}
    BY DEF InputsAreCommitted
  <2>1. IsWorktree(Task(p))
    BY <1>1 DEF IInv, Locks, WorktreeIsHeld, Held, Using
  <2>2. "session" \in Seen \cap Checked \cap Running
    BY Sets DEF Using
  <2>3. /\ manifest[p] \in {None, disk} /\ ManifestOnBase(p) /\ Visible
        /\ base # None /\ wt[Task(p)].version = base
    BY <1>1, <2>1, <2>2 DEF IInv, Fresh, IsFresh
  <2> QED
    BY <2>3 DEF ManifestOnBase, Visible
<1> QED
  BY <1>1, Invariance, PTL

(* Nothing is pushed that did not pass the gate as it is, with the same    *)
(* exceptions, and a report is true of every task it lists                 *)
(* (_finalize_success, run_batch).                                         *)
THEOREM ResultsWereEarned == Spec => []ResultsAreEarned
<1>1. IInv => ResultsAreEarned
  BY DEF IInv, ResultsAreEarned
<1> QED
  BY <1>1, Invariance, PTL

(* Only AddFails ends a run with a traceback from where a worktree is made.*)
LEMMA TracebackAtAdd ==
    ASSUME IInv, [Next]_vars, NEW p \in Procs, pc'[p] = "traceback", pc[p] \in {"add", "preadd"}
    PROVE  AddFails(p)
<1>1. \A q \in Procs : \A from, to : Steps(q, from, to) =>
            pc[q] = from /\ pc'[q] = to /\ \A r \in Procs \ {q} : pc'[r] = pc[r]
  BY DEF Steps, IInv, TypeOK
<1>2. ASSUME NEW q \in Procs, Run(q) \/ Agent(q) \/ Crash(q), q # p
      PROVE  pc'[p] = pc[p]
  <2>1. (\E from, to : Steps(q, from, to)) \/ UNCHANGED pc \/ pc' = [pc EXCEPT ![q] = "dead"]
    BY <1>2
    DEF Run, StartRun, RunBatch, LoadManifest, LoadFails, PrecheckRefs, CheckManifest,
    ExecuteTask,
        Validate, EnsureWorktree, Look, Add, AddFails, AcquireLock, JudgeLock, TakeLock,
        TakeLockFails, Locked, Attempts, Spawn, SpawnFails, SessionOver, FinalizeSuccess, Gate,
        Push, OpenPr, Release, Integrate, RebaseOnto, Merge, Park, CleanWorktree, CleanBranch,
        Agent, AgentCommits, Commits, AgentExits, Crash, TaskFails, HasOutcome, Passes,
        Advance, Goes
  <2> QED
    BY <1>1, <1>2, <2>1 DEF IInv, TypeOK
<1>3. ASSUME Run(p) \/ Agent(p) \/ Crash(p), ~ AddFails(p)
      PROVE  FALSE
  <2>1. Run(p)
    BY <1>3 DEF Agent, AgentCommits, Commits, AgentExits, Crash, IInv, TypeOK
  <2>2. Look(p) \/ Add(p)
    BY <1>1, <1>3, <2>1
    DEF Run, StartRun, RunBatch, LoadManifest, LoadFails, PrecheckRefs, CheckManifest,
    ExecuteTask,
        Validate, EnsureWorktree, AcquireLock, JudgeLock, TakeLock,
        TakeLockFails, Locked, Attempts, Spawn, SpawnFails, SessionOver, FinalizeSuccess, Gate,
        Push, OpenPr, Release, Integrate, RebaseOnto, Merge, Park, CleanWorktree, CleanBranch,
        TaskFails, HasOutcome, Passes, Advance, Goes
  <2> QED
    BY <1>1, <2>2 DEF Look, Add, TaskFails, Goes
<1>4. ~ UNCHANGED pc
  OBVIOUS
<1> QED
  BY <1>2, <1>3, <1>4 DEF Next, HelperCommits, Commits, Change, vars

(* A run that cannot make its worktree ends with a traceback only for want *)
(* of a base branch, or because another run was faster or is cleaning up,  *)
(* or was killed over it (ensure_worktree, cleanup_merged).                *)
THEOREM TracebacksAreExplained == Spec => TracebackIsExplained
<1>1. ASSUME IInv, [Next]_vars
      PROVE  [\A p \in Procs :
                pc'[p] = "traceback" /\ pc[p] \in {"add", "preadd"} =>
                    \/ base = None
                    \/ p \in outrun \/ Task(p) \in halfGone
                    \/ \E q \in Procs \ {p} : pc[q] = "clean_branch" /\ Task(q) = Task(p)]_vars
  <2> SUFFICES ASSUME NEW p \in Procs, pc'[p] = "traceback", pc[p] \in {"add", "preadd"}
               PROVE  \/ base = None
                      \/ p \in outrun \/ Task(p) \in halfGone
                      \/ \E q \in Procs \ {p} : pc[q] = "clean_branch" /\ Task(q) = Task(p)
    OBVIOUS
  <2>1. base = None \/ wt[Task(p)] # None \/ branch[Task(p)] # None
    BY <1>1, TracebackAtAdd DEF AddFails
  <2>2. p \in outrun \/ wt[Task(p)] = None
    BY <1>1 DEF IInv, Traces, FoundMissing
  <2>3. ASSUME branch[Task(p)] # None, wt[Task(p)] = None
        PROVE  Task(p) \in halfGone \/ \E q \in Procs \ {p} : pc[q] = "clean_branch" /\ Task(q) = Task(p)
    BY <1>1, <2>3, TaskType DEF IInv, Traces, HalvesAreExplained
  <2> QED
    BY <2>1, <2>2, <2>3
<1> QED
  BY <1>1, Invariance, PTL DEF Spec, TracebackIsExplained

=============================================================================
