---------------------------- MODULE PhasedMerge ----------------------------
(***************************************************************************)
(* What the phase coordinator promises about the base branch, without      *)
(* sessions, rebases, state files or crashes (c7-phase-coordinator.md,     *)
(* I5, I8 and the output status of 2.2): tasks land phase by phase, a task *)
(* that landed stays landed while the run is resumed, and a run that       *)
(* reports all_merged has landed every task.                               *)
(***************************************************************************)
EXTENDS Naturals, Sequences

CONSTANTS Tasks, Plan

VARIABLES
    landed,     \* the tasks recorded as merged
    outcome     \* the status of the run, "none" before the first

vars == <<landed, outcome>>

TasksOf(p) == {Plan[p][i] : i \in 1..Len(Plan[p])}

Before(t) ==
    UNION {TasksOf(q) : q \in {q \in 1..Len(Plan) :
              \E p \in 1..Len(Plan) : q < p /\ t \in TasksOf(p)}}

Init ==
    /\ landed = {}
    /\ outcome = "none"

(* A run starts, resuming or afresh; the one before may have crashed. *)
Begin ==
    /\ landed' \in {landed, {}}
    /\ outcome' = "in_progress"

Land(t) ==
    /\ outcome = "in_progress"
    /\ Before(t) \subseteq landed
    /\ landed' = landed \cup {t}
    /\ UNCHANGED outcome

Succeed ==
    /\ outcome = "in_progress"
    /\ landed = Tasks
    /\ outcome' = "all_merged"
    /\ UNCHANGED landed

Stop ==
    /\ outcome = "in_progress"
    /\ landed # Tasks
    /\ outcome' = "stopped"
    /\ UNCHANGED landed

Next == Begin \/ Succeed \/ Stop \/ \E t \in Tasks : Land(t)

Spec == Init /\ [][Next]_vars

=============================================================================
