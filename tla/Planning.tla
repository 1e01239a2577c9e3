------------------------------ MODULE Planning ------------------------------
(***************************************************************************)
(* The planning engine: `plan run' (c1_planning) reads the tasks of a      *)
(* feature, refuses cycles, and computes the phases that the coordinator   *)
(* will run, from the dependencies and from the pairs of tasks that write  *)
(* the same files.  An AI session may name further pairs.  The coordinator *)
(* then loads the tasks with the plan in the file, this one or an older    *)
(* one, or, if there is none, plans one task per phase                     *)
(* (c7_coordinator/plan.py).                                               *)
(*                                                                         *)
(* Tasks are numbered in the order of tasks.yaml, and 0 is a task that the *)
(* file does not have.  What two tasks write, or read as context, is       *)
(* reduced to whether they overlap.  A plan is the phase of each task in   *)
(* it; one that names a task twice is left out.                            *)
(***************************************************************************)
EXTENDS Naturals, Sequences, FiniteSets

CONSTANTS
    Manifests,      \* what tasks.yaml may hold
    None

Tasks(m) == 1..m.size

Pairs(m) == {pair \in Tasks(m) \X Tasks(m) : pair[1] < pair[2]}

IsManifest(m) ==
    /\ m.size \in Nat \ {0}
    /\ m.dependsOn \in [Tasks(m) -> SUBSET (0..m.size)]
    /\ m.overlap \subseteq Pairs(m)
    /\ m.plan # None => \E tasks \in SUBSET (0..m.size) : m.plan \in [tasks -> Nat]

ASSUME PlanningAssumption == \A m \in Manifests : IsManifest(m)

VARIABLES
    manifest,       \* tasks.yaml, with the plan of an earlier run, of other tasks, or by hand
    pc,
    color,          \* of each task in the search for a cycle
    stack,          \* the path of that search
    cycle,          \* the cycle it has found, or None
    phase,          \* of each task, in compute_phases
    changed,
    before,         \* the phases at the start of the pass over conflicts
    seen,           \* the tasks this pass over dependencies or conflicts is done with
    splits,         \* the pairs split up, <<task_a, task_b>>
    forced,         \* the pairs the semantic pass has added
    candidates,     \* the pairs it was asked about, or None before it
    plan,           \* the phase of each task in the generated execution plan, or None
    written,        \* the plan in tasks.yaml, or None
    loaded          \* the plan the coordinator goes by, or None

search == <<color, stack, cycle>>
layers == <<phase, changed, before, seen, splits>>
semantic == <<forced, candidates>>
results == <<plan, written, loaded>>
vars == <<manifest, pc, search, layers, semantic, results>>

T == Tasks(manifest)

Init ==
    /\ manifest \in Manifests
    /\ pc = "visit"
    /\ color = [t \in T |-> "white"]
    /\ stack = <<>>
    /\ cycle = None
    /\ phase = [t \in T |-> 1]
    /\ changed = TRUE
    /\ before = phase
    /\ seen = {}
    /\ splits = {}
    /\ forced = {}
    /\ candidates = None
    /\ plan = None
    /\ written = manifest.plan
    /\ loaded = None

-----------------------------------------------------------------------------
(* The search for a cycle, before anything else is checked.  A dependency  *)
(* on a task that is not there is no edge.  In which order the edges of a  *)
(* task are followed is left open.                                         *)
Top == stack[Len(stack)]

Edges(t) == manifest.dependsOn[t] \cap T

Searching == pc = "visit" /\ UNCHANGED <<manifest, layers, semantic, results>>

StartVisit ==
    /\ Searching
    /\ stack = <<>>
    /\ \E t \in T :
        /\ color[t] = "white" /\ \A u \in T : u < t => color[u] # "white"
        /\ color' = [color EXCEPT ![t] = "grey"]
        /\ stack' = <<t>>
    /\ UNCHANGED <<pc, cycle>>

VisitDep ==
    /\ Searching
    /\ stack # <<>>
    /\ \E d \in Edges(Top) :
        /\ color[d] = "white"
        /\ color' = [color EXCEPT ![d] = "grey"]
        /\ stack' = Append(stack, d)
    /\ UNCHANGED <<pc, cycle>>

(* Mutant: a task that is done with counts as one on the path. *)
FindCycleInDone ==
    /\ Searching
    /\ stack # <<>>
    /\ \E d \in Edges(Top) : color[d] # "white"
    /\ pc' = "CYCLE_DETECTED"
    /\ cycle' = stack
    /\ UNCHANGED <<color, stack>>

(* The path from the task that comes up again. *)
FindCycle ==
    /\ Searching
    /\ stack # <<>>
    /\ \E i \in 1..Len(stack) :
        /\ stack[i] \in Edges(Top)
        /\ cycle' = SubSeq(stack, i, Len(stack))
    /\ pc' = "CYCLE_DETECTED"
    /\ UNCHANGED <<color, stack>>

LeaveVisit ==
    /\ Searching
    /\ stack # <<>>
    /\ \A d \in Edges(Top) : color[d] = "black"
    /\ color' = [color EXCEPT ![Top] = "black"]
    /\ stack' = SubSeq(stack, 1, Len(stack) - 1)
    /\ UNCHANGED <<pc, cycle>>

NoCycle ==
    /\ Searching
    /\ stack = <<>>
    /\ \A t \in T : color[t] = "black"
    /\ pc' = "load"
    /\ UNCHANGED search

-----------------------------------------------------------------------------
(* BatchManifest: a task may depend only on tasks above it. *)
DependencyOrder(m) == \A t \in Tasks(m) : m.dependsOn[t] \subseteq 1..(t - 1)

(* Other defects of the file, and base branches that differ, are no data   *)
(* of the model.                                                           *)
LoadTasksYaml ==
    /\ pc = "load"
    /\ \/ DependencyOrder(manifest) /\ pc' = "static"
       \/ pc' = "INVALID_MANIFEST"
    /\ UNCHANGED <<manifest, search, layers, semantic, results>>

-----------------------------------------------------------------------------
(* compute_phases, which runs twice: without the pairs of the semantic     *)
(* pass, and with them.                                                    *)
Computing(at) ==
    /\ pc = at
    /\ UNCHANGED <<manifest, search, semantic, results>>

Passes == {"static", "final"}

Clash(a, b) == {<<a, b>>, <<b, a>>} \cap (manifest.overlap \cup forced) # {}

(* Where the computation stands: between passes, or in one of the two. *)
Floors(c) == IF c = "static" THEN "static_floors" ELSE "final_floors"
Conflicts(c) == IF c = "static" THEN "static_conflicts" ELSE "final_conflicts"

StartPass(c) ==
    /\ Computing(c)
    /\ changed
    /\ changed' = FALSE
    /\ seen' = {}
    /\ pc' = Floors(c)
    /\ UNCHANGED <<phase, before, splits>>

(* phase >= 1 + max(phase of the dependencies), for the tasks in order. *)
DependencyFloor(c) ==
    /\ Computing(Floors(c))
    /\ \E t \in T \ seen :
        /\ \A u \in T \ seen : t =< u
        /\ \/ /\ \A d \in manifest.dependsOn[t] : phase[d] < phase[t]
              /\ UNCHANGED <<phase, changed>>
           \/ \E d \in manifest.dependsOn[t] :
              /\ phase[t] =< phase[d]
              /\ \A e \in manifest.dependsOn[t] : phase[e] =< phase[d]
              /\ phase' = [phase EXCEPT ![t] = phase[d] + 1]
              /\ changed' = TRUE
        /\ seen' = seen \cup {t}
    /\ UNCHANGED <<pc, before, splits>>

ByPhase(c) ==
    /\ Computing(Floors(c))
    /\ seen = T
    /\ before' = phase
    /\ seen' = {}
    /\ pc' = Conflicts(c)
    /\ UNCHANGED <<phase, changed, splits>>

(* The tasks in the order of this pass: by phase, then as in the file. *)
Precedes(t, u) == before[t] < before[u] \/ (before[t] = before[u] /\ t =< u)

(* Those of t's phase that stay in it. *)
Committed(t) == {u \in seen : before[u] = before[t] /\ phase[u] = before[u]}

(* Mutant: the pass over the dependencies is not repeated after a split. *)
SplitConflictOnce(c) ==
    /\ Computing(Conflicts(c))
    /\ \E t \in T \ seen :
        /\ \A u \in T \ seen : Precedes(t, u)
        /\ \/ /\ \A u \in Committed(t) : ~ Clash(t, u)
              /\ UNCHANGED <<phase, changed, splits>>
           \/ \E u \in Committed(t) :
              /\ Clash(t, u)
              /\ \A v \in Committed(t) : v < u => ~ Clash(t, v)
              /\ phase' = [phase EXCEPT ![t] = before[t] + 1]
              /\ splits' = splits \cup {<<u, t>>}
              /\ UNCHANGED changed
        /\ seen' = seen \cup {t}
    /\ UNCHANGED <<pc, before>>

(* Mutant: every pass counts as one that changed something. *)
SplitConflictForEver(c) ==
    /\ Computing(Conflicts(c))
    /\ \E t \in T \ seen :
        /\ \A u \in T \ seen : Precedes(t, u)
        /\ \/ /\ \A u \in Committed(t) : ~ Clash(t, u)
              /\ UNCHANGED <<phase, splits>>
           \/ \E u \in Committed(t) :
              /\ Clash(t, u)
              /\ \A v \in Committed(t) : v < u => ~ Clash(t, v)
              /\ phase' = [phase EXCEPT ![t] = before[t] + 1]
              /\ splits' = splits \cup {<<u, t>>}
        /\ seen' = seen \cup {t}
    /\ changed' = TRUE
    /\ UNCHANGED <<pc, before>>

(* A task that conflicts with one before it goes to the next phase. *)
SplitConflict(c) ==
    /\ Computing(Conflicts(c))
    /\ \E t \in T \ seen :
        /\ \A u \in T \ seen : Precedes(t, u)
        /\ \/ /\ \A u \in Committed(t) : ~ Clash(t, u)
              /\ UNCHANGED <<phase, changed, splits>>
           \/ \E u \in Committed(t) :
              /\ Clash(t, u)
              /\ \A v \in Committed(t) : v < u => ~ Clash(t, v)
              /\ phase' = [phase EXCEPT ![t] = before[t] + 1]
              /\ splits' = splits \cup {<<u, t>>}
              /\ changed' = TRUE
        /\ seen' = seen \cup {t}
    /\ UNCHANGED <<pc, before>>

EndPass(c) ==
    /\ Computing(Conflicts(c))
    /\ seen = T
    /\ pc' = c
    /\ UNCHANGED layers

-----------------------------------------------------------------------------
SamePhasePairs == {pair \in Pairs(manifest) : phase[pair[1]] = phase[pair[2]]}

(* Mutant: the session's answer is not held against the pairs it was given. *)
SemanticPassUnfiltered ==
    /\ pc = "static"
    /\ ~ changed
    /\ candidates' = SamePhasePairs
    /\ forced' \in {{<<a, b>>} : a, b \in T}
    /\ pc' = "final"
    /\ phase' = [t \in T |-> 1]
    /\ before' = phase'
    /\ changed' = TRUE
    /\ seen' = {}
    /\ splits' = {}
    /\ UNCHANGED <<manifest, search, results>>

(* Between the two computations: the session, if it was asked for, and if  *)
(* it succeeds, adds pairs of one phase.  Everything starts again.         *)
SemanticPass ==
    /\ pc = "static"
    /\ ~ changed
    /\ candidates' = SamePhasePairs
    /\ forced' \in SUBSET SamePhasePairs
    /\ pc' = "final"
    /\ phase' = [t \in T |-> 1]
    /\ before' = phase'
    /\ changed' = TRUE
    /\ seen' = {}
    /\ splits' = {}
    /\ UNCHANGED <<manifest, search, results>>

(* The phases in use, numbered from 1 on. *)
Renumber(p) == Cardinality({phase[t] : t \in {u \in T : phase[u] =< p}})

(* What the coordinator asks of a plan: phases 1 to N, none of them empty, *)
(* and dependencies on earlier phases only.  As a function on the tasks    *)
(* it holds each of them once.                                             *)
ValidPlan(m, entries) ==
    /\ DOMAIN entries = Tasks(m)
    /\ LET numbers == {entries[t] : t \in Tasks(m)} IN numbers = 1..Cardinality(numbers)
    /\ \A t \in Tasks(m) : \A d \in m.dependsOn[t] : entries[d] < entries[t]

(* to_entries and self_check *)
ToEntries ==
    /\ pc = "final"
    /\ ~ changed
    /\ plan' = [t \in T |-> Renumber(phase[t])]
    /\ pc' = IF ValidPlan(manifest, plan') THEN "write" ELSE "PLAN_SELF_CHECK_FAILED"
    /\ UNCHANGED <<manifest, search, layers, semantic, written, loaded>>

(* The file is replaced in one step, or not at all. *)
WritePlan ==
    /\ pc = "write"
    /\ \/ pc' = "written" /\ written' = plan
       \/ pc' \in {"dry_run", "WRITE_FAILED"} /\ written' = written
    /\ UNCHANGED <<manifest, search, layers, semantic, plan, loaded>>

(* One task per phase, in the order of the file. *)
DegeneratePlan(m) == [t \in Tasks(m) |-> t]

(* The coordinator starts, after `plan run' or instead of it. *)
LoadManifestAndPlan ==
    /\ pc \in {"visit", "INVALID_MANIFEST", "CYCLE_DETECTED", "written", "dry_run", "WRITE_FAILED"}
    /\ pc = "visit" => stack = <<>> /\ \A t \in T : color[t] = "white"
    /\ \/ pc' = "refused" /\ loaded' = loaded
       \/ /\ DependencyOrder(manifest)
          /\ IF written = None THEN pc' = "loaded" /\ loaded' = DegeneratePlan(manifest)
             ELSE IF ValidPlan(manifest, written) THEN pc' = "loaded" /\ loaded' = written
             ELSE pc' = "INVALID_PLAN" /\ loaded' = loaded
    /\ UNCHANGED <<manifest, search, layers, semantic, plan, written>>

Next ==
    \/ StartVisit \/ VisitDep \/ FindCycle \/ LeaveVisit \/ NoCycle
    \/ LoadTasksYaml
    \/ \E c \in Passes :
        StartPass(c) \/ DependencyFloor(c) \/ ByPhase(c) \/ SplitConflict(c) \/ EndPass(c)
    \/ SemanticPass \/ ToEntries \/ WritePlan
    \/ LoadManifestAndPlan

Spec == Init /\ [][Next]_vars

(* A sequential program whose only wait, for the session, has a timeout. *)
FairSpec == Spec /\ WF_vars(Next)

-----------------------------------------------------------------------------
Pcs == {"visit", "load", "static", "static_floors", "static_conflicts", "final", "final_floors",
        "final_conflicts", "write", "written", "dry_run", "loaded", "refused", "CYCLE_DETECTED",
        "INVALID_MANIFEST", "PLAN_SELF_CHECK_FAILED", "WRITE_FAILED", "INVALID_PLAN"}

(* The variables keep their types. *)
TypeOK ==
    /\ manifest \in Manifests
    /\ pc \in Pcs
    /\ color \in [T -> {"white", "grey", "black"}]
    /\ stack \in Seq(T)
    /\ cycle \in Seq(T) \cup {None}
    /\ phase \in [T -> Nat]
    /\ changed \in BOOLEAN
    /\ before \in [T -> Nat]
    /\ seen \subseteq T
    /\ splits \subseteq T \X T
    /\ forced \subseteq Pairs(manifest)
    /\ candidates \in (SUBSET Pairs(manifest)) \cup {None}
    /\ {plan, loaded} \subseteq [T -> Nat] \cup {None}
    /\ written \in {manifest.plan, plan}

Acyclic(m) ==
    \A S \in SUBSET Tasks(m) : S # {} => \E t \in S : m.dependsOn[t] \cap S = {}

(* A cycle that is reported is one, of dependencies from each task of it   *)
(* to the next and from the last to the first; and none gets past the      *)
(* search, whose verdict comes before that of the loader (detect_cycle).   *)
CycleSearchIsRight ==
    /\ cycle # None =>
        /\ cycle # <<>>
        /\ \A i \in 1..Len(cycle) :
            cycle[IF i = Len(cycle) THEN 1 ELSE i + 1] \in manifest.dependsOn[cycle[i]]
    /\ pc = "load" => Acyclic(manifest)

(* A plan that is made is sound, and the coordinator takes it once it is   *)
(* written: dependencies in earlier phases, and no two tasks in one phase  *)
(* that overlap or that the semantic pass has set apart (compute_phases,   *)
(* self_check, _validate_plan).                                            *)
PlanIsSound ==
    /\ pc # "PLAN_SELF_CHECK_FAILED"
    /\ plan # None =>
        /\ \A t \in T : \A d \in manifest.dependsOn[t] : plan[d] < plan[t]
        /\ \A a, b \in T : a # b /\ Clash(a, b) => plan[a] # plan[b]
        /\ written = plan => pc # "INVALID_PLAN"

(* Whatever plan the coordinator goes by, however it came into tasks.yaml, *)
(* has every task, after those it depends on.  If there was none, or it is *)
(* the one just made, no two tasks in one phase overlap either; a plan     *)
(* written before is not looked at for that (_validate_plan).              *)
LoadedIsSafe ==
    loaded # None =>
        /\ DOMAIN loaded = T
        /\ \A t \in T : \A d \in manifest.dependsOn[t] : loaded[d] < loaded[t]
        /\ written \in {None, plan} =>
            \A a, b \in T : <<a, b>> \in manifest.overlap => loaded[a] # loaded[b]

(* A task that runs later than its dependencies require is in the audit    *)
(* trail of splits, as the one that had to give way (ConflictSplit).       *)
DelaysAreExplained ==
    plan # None => \A t \in T :
        \/ phase[t] = 1
        \/ \E d \in manifest.dependsOn[t] : phase[t] = phase[d] + 1
        \/ \E a \in T : <<a, t>> \in splits

(* From the fixpoint over the semantic pass, the renumbering and the file  *)
(* to what the coordinator has loaded: what is run side by side does not   *)
(* depend on one another, and does not overlap unless an earlier plan says *)
(* so.                                                                     *)
ScheduleIsSound == PlanIsSound /\ LoadedIsSafe

(* What planning tells the user is so: a cycle is one, none is missed, and *)
(* every delay has its reason in the audit trail.                          *)
DiagnosesAreRight == CycleSearchIsRight /\ DelaysAreExplained

(* The fixpoint is reached, and planning ends (compute_phases, run_plan).  *)
Ends == <>(pc \in {"loaded", "refused", "INVALID_PLAN"})

=============================================================================
