---------------------------- MODULE MutationProbe ----------------------------
(***************************************************************************)
(* The mutation probe: are the frozen tests of a feature worth anything?   *)
(* Each test command must pass in a throwaway worktree of the reference,   *)
(* and fail in one that a known defect, a mutant, has been put into.       *)
(* Nothing holds the reference, which is a branch's name and looked up     *)
(* afresh for every worktree, nor the services the tests use.              *)
(*                                                                         *)
(* What the code and the tests of each commit do is chosen at the start:   *)
(* where a mutant applies, and where its command sees it.  The names are   *)
(* the module's own: AcceptanceProofs has FrozenTests beside it.           *)
(***************************************************************************)
EXTENDS Naturals, FiniteSets

CONSTANTS
    NumMutants,     \* of the catalog, which has them in order
    Cmds,           \* test commands
    Nil,
    MaxMoves,       \* bound: commits to the reference
    MaxFailures     \* bound: failures of the services the tests use

Mutants == 1..NumMutants

Commits == 0..MaxMoves

ASSUME ProbeAssumption ==
    /\ NumMutants \in Nat \ {0}
    /\ Cmds # {}
    /\ {MaxMoves, MaxFailures} \subseteq Nat
    /\ Nil \notin Commits
    /\ Nil \notin {"pass", "fail", "killed", "survived", "apply_failed", "error"}

VARIABLES
    cmdOf,          \* the command of each mutant: its own or the catalog's
    applies,        \* commits with every text the edits of the mutant look for
    green,          \* commits at which the command passes
    sees,           \* commits at which its command fails with the mutant in
    ref,            \* the commit the reference is at
    services,       \* "up", "down"
    stage,          \* of the run
    toCheck,        \* commands whose baseline is still to be run
    mutant,         \* the mutant the probe is at, 0 during the baseline
    cmd,            \* the command it is at
    throwaway,      \* the commit in the throwaway worktree, or Nil
    injected,       \* is the mutant in it?
    outcomes,       \* of the mutants so far
    verdict,        \* of the report: "pass", "fail", or Nil while there is none
    trees,          \* throwaway worktrees there are
    unremoved,      \* history: those that git or an error has left behind
    unstarted,      \* history: has a command not started?
    disturbed,      \* history: has the reference moved or a service failed?
    failures

catalog == <<cmdOf, applies, green, sees>>
world == <<ref, services, failures, disturbed>>
probe == <<toCheck, mutant, cmd, throwaway, injected, outcomes, verdict, trees, unremoved, unstarted>>
probeVars == <<catalog, world, stage, probe>>

Ended == {"over", "git_error", "uncaught", "killed"}

Running == {"add", "edit", "test", "drop", "stop", "raise"}

Outcomes == {"killed", "survived", "apply_failed", "error"}

ProbeInit ==
    /\ cmdOf \in [Mutants -> Cmds]
    /\ applies \in [Mutants -> SUBSET Commits]
    /\ green \in [Cmds -> SUBSET Commits]
    /\ sees \in [Mutants -> SUBSET Commits]
    /\ ref = 0
    /\ services = "up"
    /\ failures = 0
    /\ disturbed = FALSE
    /\ stage = "add"
    /\ toCheck = {cmdOf[m] : m \in Mutants}
    /\ mutant = 0
    /\ cmd = Nil
    /\ throwaway = Nil
    /\ injected = FALSE
    /\ outcomes = [m \in Mutants |-> Nil]
    /\ verdict = Nil
    /\ trees = 0
    /\ unremoved = 0
    /\ unstarted = FALSE

-----------------------------------------------------------------------------
Goes(from, to) ==
    /\ stage = from
    /\ stage' = to
    /\ UNCHANGED <<catalog, world>>

(* Mutant: the baseline of one command is enough. *)
BaselineDoneEarly == toCheck # {cmdOf[m] : m \in Mutants}

BaselineDone == toCheck = {}

(* _make_throwaway: git worktree add --detach, of what the reference is at *)
(* now.                                                                    *)
MakeThrowaway ==
    /\ IF BaselineDone
       THEN /\ Goes("add", "edit")
            /\ mutant' = mutant + 1
            /\ cmd' = cmdOf[mutant + 1]
            /\ UNCHANGED toCheck
       ELSE /\ Goes("add", "test")
            /\ \E c \in toCheck : cmd' = c /\ toCheck' = toCheck \ {c}
            /\ UNCHANGED mutant
    /\ throwaway' = ref
    /\ trees' = trees + 1
    /\ injected' = FALSE
    /\ UNCHANGED <<outcomes, verdict, unremoved, unstarted>>

Gone == trees' = trees - 1 /\ UNCHANGED unremoved

LeftBehind == UNCHANGED trees /\ unremoved' = unremoved + 1

(* git cannot be run, or refuses; or what it says, which has the subject   *)
(* of the commit, is no text, and the worktree is there all the same.      *)
MakeThrowawayFails ==
    /\ \/ /\ Goes("add", "git_error") \/ Goes("add", "uncaught")
          /\ UNCHANGED <<trees, unremoved>>
       \/ /\ Goes("add", "uncaught")
          /\ trees' = trees + 1 /\ unremoved' = unremoved + 1
    /\ UNCHANGED <<toCheck, mutant, cmd, throwaway, injected, outcomes, verdict, unstarted>>

(* The outcome of the mutant that the probe is at. *)
Outcome(o) == outcomes' = [outcomes EXCEPT ![mutant] = o]

(* _apply_mutant: all its edits, or none of it counts. *)
ApplyMutant ==
    /\ \/ /\ Goes("edit", "test")
          /\ throwaway \in applies[mutant]
          /\ injected' = TRUE
          /\ UNCHANGED outcomes
       \/ /\ Goes("edit", "drop")
          /\ throwaway \notin applies[mutant]
          /\ injected' \in BOOLEAN          \* the first edits may have been made
          /\ Outcome("apply_failed")
    /\ UNCHANGED <<toCheck, mutant, cmd, throwaway, verdict, trees, unremoved, unstarted>>

(* A target that is no text is an error of Python's. *)
ApplyMutantRaises ==
    /\ Goes("edit", "raise")
    /\ UNCHANGED probe

Passes ==
    /\ services = "up"
    /\ throwaway \in green[cmd]
    /\ injected => throwaway \notin sees[mutant]

(* The command of the baseline must exit with 0, that of a mutant with     *)
(* anything else; it may also not start.                                   *)
RunTest ==
    /\ \/ /\ mutant = 0
          /\ \/ Goes("test", IF Passes THEN "drop" ELSE "stop") /\ UNCHANGED unstarted
             \/ Goes("test", "stop") /\ unstarted' = TRUE
          /\ UNCHANGED outcomes
       \/ /\ mutant # 0
          /\ Goes("test", "drop")
          /\ \/ Outcome(IF Passes THEN "survived" ELSE "killed") /\ UNCHANGED unstarted
             \/ Outcome("error") /\ unstarted' = TRUE
    /\ UNCHANGED <<toCheck, mutant, cmd, throwaway, injected, verdict, trees, unremoved>>

(* What the command prints may be no text either. *)
RunTestRaises ==
    /\ Goes("test", "raise")
    /\ UNCHANGED probe

AllKilled == \A m \in Mutants : outcomes[m] = "killed"

AfterDrop ==
    CASE stage = "stop" -> "over"
      [] stage = "raise" -> "uncaught"
      [] stage = "drop" -> IF mutant = NumMutants THEN "over" ELSE "add"

(* Mutant: the report is made as soon as a mutant is not killed. *)
ReportEarly ==
    verdict' = CASE stage = "stop" -> "fail"
                 [] stage = "raise" -> Nil
                 [] stage = "drop" ->
                    IF mutant # 0 /\ outcomes[mutant] # "killed" THEN "fail"
                    ELSE IF AfterDrop = "over" THEN "pass" ELSE Nil

(* A red baseline makes the report a fail, the last mutant by all outcomes.*)
Report ==
    verdict' = CASE AfterDrop # "over" -> Nil
                 [] stage = "stop" -> "fail"
                 [] stage = "drop" /\ AfterDrop = "over" -> IF AllKilled THEN "pass" ELSE "fail"

(* Mutant: the worktree of a baseline that is red is not removed. *)
DropThrowawayUnlessRed ==
    /\ stage \in {"drop", "stop", "raise"}
    /\ Goes(stage, AfterDrop)
    /\ \/ trees' = (IF stage = "stop" THEN trees ELSE trees - 1) /\ UNCHANGED unremoved
       \/ LeftBehind
    /\ throwaway' = Nil
    /\ Report
    /\ UNCHANGED <<toCheck, mutant, cmd, injected, outcomes, unstarted>>

(* _drop_throwaway, whatever has happened; of a removal that fails there is*)
(* a warning only.                                                         *)
DropThrowaway ==
    /\ stage \in {"drop", "stop", "raise"}
    /\ Goes(stage, AfterDrop)
    /\ Gone \/ LeftBehind
    /\ throwaway' = Nil
    /\ Report
    /\ UNCHANGED <<toCheck, mutant, cmd, injected, outcomes, unstarted>>

(* An error of git's, on the way out, takes the place of any report. *)
DropThrowawayFails ==
    /\ stage \in {"drop", "stop", "raise"}
    /\ \/ Goes(stage, "git_error") /\ LeftBehind
       \/ Goes(stage, "uncaught") /\ (Gone \/ LeftBehind)
    /\ throwaway' = Nil
    /\ UNCHANGED <<toCheck, mutant, cmd, injected, outcomes, verdict, unstarted>>

-----------------------------------------------------------------------------
(* external *)

Killed ==
    /\ stage \in Running
    /\ stage' = "killed"
    /\ UNCHANGED <<catalog, world, probe>>

(* Somebody commits to the branch that is probed, or a service the tests   *)
(* use fails, while the probe runs.                                        *)
RefMoves ==
    /\ stage \in Running
    /\ ref < MaxMoves
    /\ ref' = ref + 1
    /\ disturbed' = TRUE
    /\ UNCHANGED <<catalog, services, failures, stage, probe>>

ServicesFail ==
    /\ stage \in Running
    /\ services = "up" /\ failures < MaxFailures
    /\ services' = "down"
    /\ failures' = failures + 1
    /\ disturbed' = TRUE
    /\ UNCHANGED <<catalog, ref, stage, probe>>

ServicesRecover ==
    /\ stage \in Running
    /\ services = "down"
    /\ services' = "up"
    /\ UNCHANGED <<catalog, ref, failures, disturbed, stage, probe>>

-----------------------------------------------------------------------------
RunProbe ==
    \/ MakeThrowaway \/ MakeThrowawayFails
    \/ ApplyMutant \/ ApplyMutantRaises
    \/ RunTest \/ RunTestRaises
    \/ DropThrowaway \/ DropThrowawayFails

ProbeNext == RunProbe \/ Killed \/ RefMoves \/ ServicesFail \/ ServicesRecover

ProbeSpec == ProbeInit /\ [][ProbeNext]_probeVars

-----------------------------------------------------------------------------
ProbeTypeOK ==
    /\ cmdOf \in [Mutants -> Cmds]
    /\ {applies[m] : m \in Mutants} \cup {sees[m] : m \in Mutants} \subseteq SUBSET Commits
    /\ green \in [Cmds -> SUBSET Commits]
    /\ ref \in Commits
    /\ services \in {"up", "down"}
    /\ stage \in Running \cup Ended
    /\ toCheck \subseteq Cmds
    /\ mutant \in 0..NumMutants
    /\ cmd \in Cmds \cup {Nil}
    /\ throwaway \in Commits \cup {Nil}
    /\ stage \in {"add", "over", "git_error", "uncaught"} => throwaway = Nil
    /\ stage \in {"edit", "test", "drop", "stop", "raise"} => throwaway # Nil
    /\ injected \in BOOLEAN
    /\ outcomes \in [Mutants -> Outcomes \cup {Nil}]
    /\ verdict \in {"pass", "fail", Nil}
    /\ verdict # Nil <=> stage = "over"
    /\ trees \in Nat /\ unremoved \in Nat
    /\ {unstarted, disturbed} \subseteq BOOLEAN
    /\ failures \in Nat

(* I2: as long as the reference and the services stay as they are, a pass  *)
(* means that every mutant applies, that its command passes without it and *)
(* fails because of it; and a fail means that one does not, or a command   *)
(* did not start: red baselines, stale texts and hollow tests never end in *)
(* a pass, whichever command they belong to (run_probe).                   *)
VerdictIsEvidence ==
    ~ disturbed =>
        LET proven == {m \in Mutants : ref \in applies[m] \cap green[cmdOf[m]] \cap sees[m]}
        IN  /\ verdict = "pass" => proven = Mutants
            /\ verdict = "fail" => proven # Mutants \/ unstarted

(* I1: however the probe ends, its worktrees are gone, but for one whose   *)
(* removal failed, one that git has made and said so in no text, and the   *)
(* one that was in use when the probe was killed (_drop_throwaway).        *)
NothingLeft ==
    stage \in Ended => trees = unremoved + (IF throwaway = Nil THEN 0 ELSE 1)

=============================================================================
