---------------------------- MODULE FrozenTests ----------------------------
(***************************************************************************)
(* Acceptance tests are written before the implementation, by a session of *)
(* their own, and then frozen: `testauthor run' has them written on a      *)
(* branch of its own, checks what was written, and pins their contents in  *)
(* ac-manifest.yaml; `acgate run' holds a feature against the manifest     *)
(* when it is closed (testauthor/runner.py, acgate/gate.py).               *)
(*                                                                         *)
(* A tree is what the two tell apart in a commit.  A test file is the set  *)
(* of its lines: for each target a definition and an assertion, markers    *)
(* that skip tests, of a form that acgate knows and of another, and a line *)
(* that begins with two dashes.  Every target has one test, in one file,   *)
(* named in its entry.  A hash is the content it is taken of.              *)
(***************************************************************************)
EXTENDS Naturals, Sequences, FiniteSets

CONSTANTS
    Targets,        \* what tests are written for: the entries a manifest may have
    Files, FileOf,  \* test files, and the file of each target's test
    Specs, SpecOf,  \* specifications, and the one each target is taken from
    First,          \* what main holds when the feature begins
    Budgets,        \* how often each of those who edit or run something may still do so
    None

Skip == <<"skip", None>>
OtherSkip == <<"xfail", None>>
Dashes == <<"--", None>>

Test(t) == {<<"def", t>>, <<"assert", t>>}

TestsOf(f) == {t \in Targets : FileOf[t] = f}

Lines(f) == (UNION {Test(t) : t \in TestsOf(f)}) \cup {Skip, OtherSkip, Dashes}

AllLines == UNION {Lines(f) : f \in Files}

Contents == (SUBSET AllLines) \cup {None}

(* An entry of the manifest, and one whose hashes have not been taken.     *)
Pins == [spec : Nat, test : Contents \ {None}]

Skeleton == [spec |-> None, test |-> None]

Entries == Pins \cup {Skeleton, None}

NoEntries == [t \in Targets |-> None]

(* A commit, or a worktree: test files, specifications, evidence for       *)
(* changed projections (the files with the target's id in their path), the *)
(* manifest, what else was changed outside the test paths and by whom, and *)
(* what was moved under them from elsewhere.                               *)
Trees ==
    [spec : [Specs -> Nat], test : [Files -> Contents], fix : [Targets -> Nat],
     manifest : [Targets -> Entries], other : SUBSET {"session", "red"},
     moved : SUBSET {"source", "manifest"}]

Kept == {"spec", "fix", "manifest", "other"}

Who == {"session", "red", "runs", "tasks", "others"}

ASSUME FrozenTestsAssumption ==
    /\ FileOf \in [Targets -> Files]
    /\ SpecOf \in [Targets -> Specs]
    /\ First \subseteq Trees
    /\ Budgets \subseteq [Who -> Nat]
    /\ None \notin Pins \cup {Skeleton}
    /\ Files \cap Kept = {}

VARIABLES
    mains,          \* the commits of main at origin, from where the feature begins
    local,          \* how many of them the local main has
    base,           \* how many of them the feature contains
    feature,
    author,         \* the commit of the author's branch, or None
    start,          \* where that branch has left the feature
    work,           \* the author's worktree
    pc,             \* of the author's run
    check,          \* what the run has found out
    gate,           \* what acgate has found for the close that is on, or None
    budget

branch == <<author, start, work>>
pipeline == <<pc, check>>
refs == <<mains, local, base, feature>>
vars == <<refs, branch, pipeline, gate, budget>>

(* What the report will say; and, for the properties, the commit the       *)
(* branch is at when the red command is over, and the paths that command   *)
(* has written to.                                                         *)
NoCheck == [committed |-> FALSE, touched |-> {}, red |-> FALSE, authored |-> {},
            head |-> None, wrote |-> {}]

(* The feature begins at main, which may have frozen tests already. *)
Init ==
    /\ \E tree \in First : mains = <<tree>> /\ feature = tree
    /\ local = 1
    /\ base = 1
    /\ author = None
    /\ start = None
    /\ work = None
    /\ pc = "idle"
    /\ check = NoCheck
    /\ gate = None
    /\ budget \in Budgets

Spend(who) == budget[who] > 0 /\ budget' = [budget EXCEPT ![who] = @ - 1]

-----------------------------------------------------------------------------
(* What pins a test: the contents of its specification and its file. *)
Pin(t, tree) == [spec |-> tree.spec[SpecOf[t]], test |-> tree.test[FileOf[t]]]

Listed(manifest) == {t \in Targets : manifest[t] # None}

(* Mutant: a file that is not there has a hash like any other. *)
CanFreezeMissing(manifest, tree) == TRUE

(* freeze_manifest, which refuses an entry whose file is not there. *)
CanFreeze(manifest, tree) == \A t \in Listed(manifest) : tree.test[FileOf[t]] # None

Freeze(manifest, tree) ==
    [t \in Targets |-> IF manifest[t] = None THEN None ELSE Pin(t, tree)]

(* The changes to a test file that a single edit makes. *)
EditsOf(f, content) ==
    IF content = None THEN {Test(t) : t \in TestsOf(f)}
    ELSE {None} \cup {content \ {l} : l \in content}
         \cup {content \cup {Skip}, content \cup {OtherSkip}}
         \cup {content \cup Test(t) : t \in TestsOf(f)}

(* What an entry may be turned into by hand. *)
EntriesFor(t, tree) ==
    {None, Skeleton} \cup {e \in {Pin(t, tree)} : tree.test[FileOf[t]] # None}

(* A single edit of a tree.  The manifest, or a source file, may be moved  *)
(* under the test paths.                                                   *)
TestEdits(tree) ==
    UNION {{[tree EXCEPT !.test[f] = c] : c \in EditsOf(f, tree.test[f])} : f \in Files}

SpecEdits(tree) == {[tree EXCEPT !.spec[s] = @ + 1] : s \in Specs}

EntryEdits(tree) ==
    UNION {{[tree EXCEPT !.manifest[t] = e] : e \in EntriesFor(t, tree)} : t \in Targets}

Moves(tree) ==
    {[tree EXCEPT !.moved = @ \cup {"source"}],
     [tree EXCEPT !.moved = @ \cup {"manifest"}, !.manifest = NoEntries]}

Edits(tree) == TestEdits(tree) \cup SpecEdits(tree) \cup EntryEdits(tree) \cup Moves(tree)

(* The paths that differ: test files by name, all others by what they are. *)
Paths(old, new) ==
    {f \in Files : old.test[f] # new.test[f]} \cup {c \in Kept : old[c] # new[c]}

(* git diff --name-only finds renames, and lists where a file has gone to. *)
Touched(old, new) ==
    IF new.manifest = NoEntries /\ "manifest" \in new.moved \ old.moved
    THEN Paths(old, new) \ {"manifest"}
    ELSE Paths(old, new)

-----------------------------------------------------------------------------
(* testauthor run: one run at a time; each has a branch of its own, which  *)
(* is kept.                                                                *)
AuthorRun == UNCHANGED <<refs, gate>>

(* run_author up to the session: a new branch, cut off from the feature.   *)
MakeAuthorWorktree ==
    /\ pc \in {"idle", "pass", "fail", "error"}
    /\ Spend("runs")
    /\ author' = feature
    /\ start' = feature
    /\ work' = feature
    /\ pc' = "session"
    /\ check' = NoCheck
    /\ AuthorRun

(* The session, and later the red command, which is any command of the     *)
(* shell, write what they like in the worktree ...                         *)
Writes ==
    /\ pc \in {"session", "red"}
    /\ Spend(pc)
    /\ work' \in Edits(work) \cup {[work EXCEPT !.other = @ \cup {pc}]}
    /\ check' = [check EXCEPT !.wrote = IF pc = "red" THEN @ \cup Paths(work, work') ELSE @]
    /\ UNCHANGED <<author, start, pc>>
    /\ AuthorRun

(* ... and may commit it. *)
CommitWork ==
    /\ pc \in {"session", "red"} /\ author # work
    /\ author' = work
    /\ UNCHANGED <<start, work, pipeline, budget>>
    /\ AuthorRun

(* What the session has left is committed, and the paths that the branch   *)
(* touches are listed.                                                     *)
SessionEnds ==
    /\ pc = "session"
    /\ author' = work
    /\ check' = [check EXCEPT !.committed = author # work, !.touched = Touched(start, work)]
    /\ pc' = "red"
    /\ UNCHANGED <<start, work, budget>>
    /\ AuthorRun

(* What the last answer of the session may name tests for. *)
Claims == SUBSET Targets

(* The command fails, or not: it says nothing of any one test.  A target   *)
(* counts as authored if the session has named a test for it in a file     *)
(* that is there and was touched.                                          *)
RunRed ==
    /\ pc = "red"
    /\ \E red \in BOOLEAN, claimed \in Claims :
        check' = [check EXCEPT
                    !.red = red,
                    !.authored = {t \in claimed :
                        /\ red /\ check.committed
                        /\ work.test[FileOf[t]] # None
                        /\ FileOf[t] \in check.touched},
                    !.head = author]
    /\ pc' = "verdict"
    /\ UNCHANGED <<branch, budget>>
    /\ AuthorRun

Eligible == check.touched \subseteq Files /\ check.red /\ check.authored # {}

WithNew == [t \in Targets |-> IF t \in check.authored THEN Skeleton ELSE work.manifest[t]]

(* _freeze: the manifest is written with the new entries, ... *)
FreezeEntries ==
    /\ pc = "verdict"
    /\ Eligible /\ check.authored \cap Listed(work.manifest) = {}
    /\ work' = [work EXCEPT !.manifest = WithNew]
    /\ pc' = "pins"
    /\ UNCHANGED <<author, start, check, budget>>
    /\ AuthorRun

(* Mutant: the new entries are pinned to the base. *)
FreezePinsAtBase ==
    /\ pc = "pins"
    /\ CanFreeze(work.manifest, start)
    /\ work' = [work EXCEPT !.manifest = Freeze(@, start)]
    /\ pc' = "commit"
    /\ UNCHANGED <<author, start, check, budget>>
    /\ AuthorRun

(* ... then with all of it pinned to the commit, old entries too, ... *)
FreezePins ==
    /\ pc = "pins"
    /\ CanFreeze(work.manifest, author)
    /\ work' = [work EXCEPT !.manifest = Freeze(@, author)]
    /\ pc' = "commit"
    /\ UNCHANGED <<author, start, check, budget>>
    /\ AuthorRun

(* ... and everything that is in the worktree is committed. *)
FreezeCommit ==
    /\ pc = "commit"
    /\ author' = work
    /\ pc' = "report"
    /\ UNCHANGED <<start, work, check, budget>>
    /\ AuthorRun

(* Nothing to freeze, or one of these steps fails. *)
Fail ==
    /\ pc \in {"verdict", "pins", "commit"}
    /\ pc' = "fail"
    /\ check' = NoCheck
    /\ UNCHANGED <<branch, budget>>
    /\ AuthorRun

ReportPass ==
    /\ pc = "report"
    /\ pc' = "pass"
    /\ check' = NoCheck
    /\ UNCHANGED <<branch, budget>>
    /\ AuthorRun

(* The session fails, or is out of time, or names no tests; git or the     *)
(* report raises an error; or the run is killed: branch and worktree stay  *)
(* as they are, and there is no report.                                    *)
Raise ==
    /\ pc \in {"session", "red", "verdict", "pins", "commit", "report"}
    /\ pc' = "error"
    /\ check' = NoCheck
    /\ UNCHANGED <<branch, budget>>
    /\ AuthorRun

-----------------------------------------------------------------------------
(* acgate run, between the local main and the feature.  A difference is    *)
(* between where the feature has left that main and the feature.           *)
Lesser(m, n) == IF m < n THEN m ELSE n

Diff == [from |-> mains[Lesser(local, base)], head |-> feature]

Stale(manifest, tip) == {t \in Listed(manifest) : manifest[t] # Pin(t, tip)}

Channel(manifest, f, diff) ==
    LET entries == {t \in Listed(manifest) : FileOf[t] = f}
    IN  IF \E t \in entries : diff.from.spec[SpecOf[t]] # diff.head.spec[SpecOf[t]]
        THEN "spec_changed"
        ELSE IF \E t \in entries : diff.from.fix[t] # diff.head.fix[t] THEN "projection_fix"
        ELSE "none"

LinesOf(content) == IF content = None THEN {} ELSE content

Added(f, diff) == LinesOf(diff.head.test[f]) \ LinesOf(diff.from.test[f])

(* With its sign, a removed line of two dashes is taken for a header. *)
Removed(f, diff) == (LinesOf(diff.from.test[f]) \ LinesOf(diff.head.test[f])) \ {Dashes}

(* What has happened to a frozen test file that has changed, by its lines: *)
(* whether it has gone is of the listing, the lines are of a later look.   *)
Kinds(manifest, f, listing, diff) ==
    IF listing.head.test[f] = None THEN {"TEST_FILE_DELETED"}
    ELSE {k \in {"TEST_SKIPPED", "TEST_DELETED"} :
            \/ k = "TEST_SKIPPED" /\ Skip \in Added(f, diff)
            \/ k = "TEST_DELETED" /\ \E t \in Listed(manifest) \cap TestsOf(f) :
                                        <<"def", t>> \in Removed(f, diff)}

(* Mutant: lines may go as long as no definition does. *)
WeakenedIfRenamed(manifest, f, tip, listing, diff) ==
    \E t \in Listed(manifest) : <<"def", t>> \in Removed(f, diff)

(* Lines that went with nothing else to be said about the file. *)
Weakened(manifest, f, tip, listing, diff) ==
    /\ Removed(f, diff) # {}
    /\ Kinds(manifest, f, listing, diff) = {}
    /\ \A t \in Listed(manifest) \cap TestsOf(f) : manifest[t].test = tip.test[f]

FileKinds == {"TEST_FILE_DELETED", "TEST_SKIPPED", "TEST_DELETED", "TEST_WEAKENED_UNKNOWN"}

Channels == {"none", "spec_changed", "projection_fix"}

Changed(f, diff) == diff.from.test[f] # diff.head.test[f]

(* One finding for a stale entry, and any number for a changed test file.  *)
Findings(manifest, tip, listing, diff) ==
    {<<"MANIFEST_STALE", t, "none">> : t \in Stale(manifest, tip)}
    \cup {x \in FileKinds \X Files \X Channels :
            /\ TestsOf(x[2]) \cap Listed(manifest) # {}
            /\ Changed(x[2], listing)
            /\ \/ x[1] \in Kinds(manifest, x[2], listing, diff)
               \/ /\ x[1] = "TEST_WEAKENED_UNKNOWN"
                  /\ Weakened(manifest, x[2], tip, listing, diff)
            /\ x[3] = Channel(manifest, x[2], listing)}

Blocking(findings) == {x \in findings : x[3] = "none"}

GateRun == UNCHANGED <<branch, pipeline, budget>>

(* The manifest is that of the checkout, which is on either branch; if it  *)
(* is not there, there are no entries.  The paths that differ are listed.  *)
BeginGate ==
    /\ gate = None
    /\ \E manifest \in {mains[local].manifest, feature.manifest} :
        gate' = [manifest |-> manifest, listing |-> Diff, upto |-> local,
                 findings |-> None, current |-> TRUE]
    /\ UNCHANGED refs
    /\ GateRun

(* The hashes are compared, and the files looked into. *)
JudgeGate ==
    /\ gate # None /\ gate.findings = None
    /\ gate' = [gate EXCEPT
                    !.findings = Findings(gate.manifest, mains[local], gate.listing, Diff)]
    /\ UNCHANGED refs
    /\ GateRun

(* The close that acgate has run for ends, in one of its other steps. *)
EndClose ==
    /\ gate # None
    /\ gate' = None
    /\ UNCHANGED refs
    /\ GateRun

(* A feature that acgate has let pass is pushed, as it now is, and becomes *)
(* main; the local main may follow.                                        *)
MergeFeature ==
    /\ gate # None /\ gate.findings # None /\ Blocking(gate.findings) = {}
    /\ base = Len(mains) /\ feature # mains[base]
    /\ mains' = Append(mains, feature)
    /\ base' = base + 1
    /\ local' \in {local, base'}
    /\ gate' = None
    /\ UNCHANGED feature
    /\ GateRun

-----------------------------------------------------------------------------
(* The rest of the repository.  For the properties, the gate is current as *)
(* long as the feature is what it was when acgate began, and so was main   *)
(* until it was done.                                                      *)
Outdated == IF gate = None THEN None ELSE [gate EXCEPT !.current = FALSE]

Elsewhere == UNCHANGED <<branch, pipeline>>

MoveFeature(tree) ==
    /\ feature' = tree /\ tree # feature
    /\ gate' = Outdated
    /\ Elsewhere

(* A task commits to the feature: any edit, or evidence for some targets. *)
CommitToFeature ==
    /\ Spend("tasks")
    /\ \E tree \in Edits(feature) \cup
            {[feature EXCEPT !.fix = [t \in Targets |-> IF t \in given THEN @[t] + 1 ELSE @[t]]]
                : given \in SUBSET Targets} :
        MoveFeature(tree)
    /\ UNCHANGED <<mains, local, base>>

(* acgate freeze, whose result is committed. *)
FreezeByHand ==
    /\ Spend("tasks")
    /\ \E ref \in {mains[local], feature} :
        /\ CanFreeze(feature.manifest, ref)
        /\ MoveFeature([feature EXCEPT !.manifest = Freeze(@, ref)])
    /\ UNCHANGED <<mains, local, base>>

(* The author's branch is handed over to a feature that has not moved. *)
HandOver ==
    /\ pc \in {"pass", "fail", "error"} /\ author # None
    /\ feature = start
    /\ MoveFeature(author)
    /\ UNCHANGED <<mains, local, base, budget>>

(* The feature's changes are made again on top of a later main. *)
Rebase ==
    /\ \E onto \in {local, Len(mains)} :
        /\ base < onto
        /\ base' = onto
        /\ LET from == mains[base]
               main == mains[onto]
               merge(old, theirs, ours) == IF ours = old THEN theirs ELSE ours
           IN  feature' =
                [spec |-> [s \in Specs |-> merge(from.spec[s], main.spec[s], feature.spec[s])],
                 test |-> [f \in Files |-> merge(from.test[f], main.test[f], feature.test[f])],
                 fix |-> [t \in Targets |-> merge(from.fix[t], main.fix[t], feature.fix[t])],
                 manifest |-> [t \in Targets |->
                    merge(from.manifest[t], main.manifest[t], feature.manifest[t])],
                 other |-> main.other \cup feature.other,
                 moved |-> main.moved \cup feature.moved]
    /\ gate' = Outdated
    /\ Elsewhere
    /\ UNCHANGED <<mains, local, budget>>

(* Other features reach main, with any edit, *)
CommitToMain ==
    /\ Spend("others")
    /\ \E tree \in Edits(mains[Len(mains)]) : mains' = Append(mains, tree)
    /\ UNCHANGED <<local, base, feature, gate>>
    /\ Elsewhere

(* and the local main is brought up to date. *)
Fetch ==
    /\ local < Len(mains)
    /\ local' = Len(mains)
    /\ gate' = IF gate # None /\ gate.findings = None THEN Outdated ELSE gate
    /\ UNCHANGED <<mains, base, feature, budget>>
    /\ Elsewhere

Next ==
    \/ MakeAuthorWorktree \/ Writes \/ CommitWork \/ SessionEnds \/ RunRed
    \/ FreezeEntries \/ FreezePins \/ FreezeCommit \/ ReportPass \/ Fail \/ Raise
    \/ BeginGate \/ JudgeGate \/ EndClose \/ MergeFeature
    \/ CommitToFeature \/ FreezeByHand \/ HandOver \/ CommitToMain \/ Rebase \/ Fetch

Spec == Init /\ [][Next]_vars

-----------------------------------------------------------------------------
CheckTypes == [committed : BOOLEAN, touched : SUBSET (Files \cup Kept), red : BOOLEAN,
               authored : SUBSET Targets, head : Trees \cup {None},
               wrote : SUBSET (Files \cup Kept)]

FindingTypes == ({"MANIFEST_STALE"} \X Targets \X {"none"}) \cup (FileKinds \X Files \X Channels)

GateTypes == [manifest : [Targets -> Entries], listing : [from : Trees, head : Trees],
              upto : Nat, findings : (SUBSET FindingTypes) \cup {None}, current : BOOLEAN]

(* The variables keep their types: no hash is of a file that is not there. *)
TypeOK ==
    /\ mains \in Seq(Trees) /\ {local, base} \subseteq 1..Len(mains)
    /\ feature \in Trees
    /\ {author, start, work} \subseteq Trees \cup {None}
    /\ pc \in {"idle", "session", "red", "verdict", "pins", "commit", "report",
               "pass", "fail", "error"}
    /\ check \in CheckTypes
    /\ gate # None => gate \in GateTypes /\ gate.upto \in 1..Len(mains)
    /\ budget \in [Who -> Nat]

(* Weaker as far as acgate can see: a line that begins with dashes, or a   *)
(* skip in a form it does not know, is none that it sees.                  *)
Weaker(old, new) ==
    old # None /\ (new = None \/ ~ old \ {Dashes} \subseteq new \/ Skip \in new \ old)

(* The close pushes a feature that has not moved since acgate began.       *)
Closes == mains' # mains /\ base' # base /\ gate.current

(* A test that is frozen on the main that acgate has read loses no line,   *)
(* and is not skipped, by the close that acgate has let pass, however main *)
(* and the local main have moved, and whatever anybody has frozen: unless, *)
(* with that feature, the specification of a test in its file changes or   *)
(* evidence for one is given, or the manifest of the checkout does not     *)
(* list it (run_gate).  Nothing is said of a feature that moves between    *)
(* acgate and the push, nor of what a main that is not read yet has frozen.*)
FrozenTestsKept ==
    [][Closes =>
        LET main == mains[gate.upto]
        IN  \A t \in Listed(main.manifest) :
              Weaker(main.test[FileOf[t]], feature.test[FileOf[t]]) =>
              \/ gate.manifest[t] = None
              \/ \E u \in TestsOf(FileOf[t]) :
                  main.spec[SpecOf[u]] # feature.spec[SpecOf[u]] \/ main.fix[u] # feature.fix[u]]_vars

(* Left alone by the red command, and not moved. *)
Untouched(c) == c \notin check.wrote /\ (c = "manifest" => c \notin author.moved \ start.moved)

(* What a verdict of pass means, for what the red command leaves alone.    *)
Earned ==
    /\ \E t \in Listed(author.manifest) :
        /\ FileOf[t] \in check.touched
        /\ Untouched("manifest") => t \notin Listed(start.manifest)
    /\ \A c \in {"spec", "fix"} : Untouched(c) => author[c] = start[c]
    /\ author.other \subseteq start.other \cup {"red"}
    /\ Untouched("manifest") => Listed(start.manifest) \subseteq Listed(author.manifest)
    /\ \A t \in Listed(author.manifest) :
        Untouched(FileOf[t]) /\ Untouched("spec") => author.manifest[t] = Pin(t, author)

(* When a run of the author ends, its branch and its verdict agree, however *)
(* the session, the red command and the freeze go, and wherever they are    *)
(* cut off (run_author).  I2 to I4: with a verdict of pass a test file of a *)
(* new entry is among what the branch has written, and, but for what the    *)
(* red command has done and what was moved under the test paths, nothing    *)
(* else is, nothing is unfrozen, and every entry is pinned to what the      *)
(* branch has.  A run that fails has frozen nothing itself: its branch is   *)
(* where the session and the red command have left it.  So is that of a run *)
(* that is cut off in the freeze, unless all was done that a pass needs.    *)
VerdictIsEarned ==
    [][ /\ pc # "pass" /\ pc' = "pass" => Earned
        /\ pc # "fail" /\ pc' = "fail" => author = check.head
        /\ pc \in {"verdict", "pins", "commit", "report"} /\ pc' = "error" =>
            author = check.head \/ Earned ]_vars

=============================================================================
