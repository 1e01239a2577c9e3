------------------------- MODULE AcceptanceProofs --------------------------
(***************************************************************************)
(* Proofs about the acceptance tests: that they are frozen and kept, and   *)
(* that what shows their worth is evidence.                                *)
(*                                                                         *)
(* FrozenTests, for any targets, files and specifications and any number   *)
(* of edits, commits and runs.  Types come first; then what acgate has     *)
(* looked at, and what it cannot fail to find in it; then what the         *)
(* author's run knows of its branch and worktree at each of its steps.     *)
(*                                                                         *)
(* MutationProbe, for any catalog and any number of commits and failures:  *)
(* what the probe has settled at each of its steps (ProbeInv).             *)
(***************************************************************************)
EXTENDS FrozenTests, MutationProbe, TLAPS

-----------------------------------------------------------------------------
(* Trees stay trees under the edits that are made to them.                 *)
LEMMA PinsArePins ==
    ASSUME NEW tree \in Trees, NEW t \in Targets, tree.test[FileOf[t]] # None
    PROVE  Pin(t, tree) \in Pins
BY FrozenTestsAssumption DEF Trees, Pins, Pin

LEMMA PinsAreEntries ==
    ASSUME NEW tree \in Trees, NEW t \in Targets, tree.test[FileOf[t]] # None
    PROVE  Pin(t, tree) \in Entries /\ Pin(t, tree) # None
BY PinsArePins, FrozenTestsAssumption DEF Entries

(* What is frozen is what was listed, and nothing else. *)
LEMMA FrozenManifests ==
    ASSUME NEW tree \in Trees, NEW manifest \in [Targets -> Entries], CanFreeze(manifest, tree)
    PROVE  /\ Freeze(manifest, tree) \in [Targets -> Entries]
           /\ Listed(Freeze(manifest, tree)) = Listed(manifest)
           /\ \A t \in Listed(manifest) : Freeze(manifest, tree)[t] = Pin(t, tree)
<1>1. \A t \in Targets : manifest[t] # None => Pin(t, tree) \in Entries /\ Pin(t, tree) # None
  BY PinsAreEntries DEF CanFreeze, Listed
<1> QED
  BY <1>1 DEF Freeze, Listed, Entries

LEMMA EditsAreContents ==
    ASSUME NEW f \in Files, NEW content \in Contents, NEW c \in EditsOf(f, content)
    PROVE  c \in Contents
<1>1. \A t \in TestsOf(f) : Test(t) \subseteq AllLines
  BY DEF AllLines, Lines, TestsOf
<1>2. Skip \in AllLines /\ OtherSkip \in AllLines
  BY DEF AllLines, Lines
<1>3. CASE content = None
  BY <1>1, <1>3 DEF EditsOf, Contents
<1>4. CASE content # None
  <2>1. content \subseteq AllLines
    BY <1>4 DEF Contents
  <2> QED
    BY <1>1, <1>2, <1>4, <2>1 DEF EditsOf, Contents
<1> QED
  BY <1>3, <1>4

LEMMA NoEntriesTyped == NoEntries \in [Targets -> Entries]
BY DEF NoEntries, Entries

(* The kinds of edits, each of which leaves alone what it is not about.    *)
TestEdit(tree, new) == \E f \in Files, c \in Contents : new = [tree EXCEPT !.test[f] = c]

SpecEdit(tree, new) == \E s \in Specs : new = [tree EXCEPT !.spec[s] = @ + 1]

EntryEdit(tree, new) == \E t \in Targets, e \in Entries : new = [tree EXCEPT !.manifest[t] = e]

SourceMove(tree, new) == new = [tree EXCEPT !.moved = @ \cup {"source"}]

ManifestMove(tree, new) ==
    new = [tree EXCEPT !.moved = @ \cup {"manifest"}, !.manifest = NoEntries]

LEMMA EditKinds ==
    ASSUME NEW tree \in Trees, NEW new \in Edits(tree)
    PROVE  \/ TestEdit(tree, new) \/ SpecEdit(tree, new) \/ EntryEdit(tree, new)
           \/ SourceMove(tree, new) \/ ManifestMove(tree, new)
<1>1. CASE new \in TestEdits(tree)
  <2>1. PICK f \in Files : new \in {[tree EXCEPT !.test[f] = c] : c \in EditsOf(f, tree.test[f])}
    BY <1>1 DEF TestEdits
  <2>2. PICK c \in EditsOf(f, tree.test[f]) : new = [tree EXCEPT !.test[f] = c]
    BY <2>1
  <2>3. tree.test[f] \in Contents
    BY DEF Trees
  <2>4. c \in Contents
    BY <2>3, EditsAreContents
  <2> QED
    BY <2>2, <2>4 DEF TestEdit
<1>2. CASE new \in SpecEdits(tree)
  BY <1>2 DEF SpecEdits, SpecEdit
<1>3. CASE new \in EntryEdits(tree)
  <2>1. PICK t \in Targets : new \in {[tree EXCEPT !.manifest[t] = e] : e \in EntriesFor(t, tree)}
    BY <1>3 DEF EntryEdits
  <2>2. PICK e \in EntriesFor(t, tree) : new = [tree EXCEPT !.manifest[t] = e]
    BY <2>1
  <2>3. e \in Entries
    <3>1. CASE e \in {None, Skeleton}
      BY <3>1 DEF Entries
    <3>2. CASE e = Pin(t, tree) /\ tree.test[FileOf[t]] # None
      BY <3>2, PinsAreEntries
    <3> QED
      BY <2>2, <3>1, <3>2 DEF EntriesFor
  <2> QED
    BY <2>2, <2>3 DEF EntryEdit
<1>4. CASE new \in Moves(tree)
  BY <1>4 DEF Moves, SourceMove, ManifestMove
<1> QED
  BY <1>1, <1>2, <1>3, <1>4 DEF Edits

LEMMA EditsTyped ==
    ASSUME NEW tree \in Trees, NEW new \in Edits(tree)
    PROVE  new \in Trees
<1>1. CASE TestEdit(tree, new)
  BY <1>1 DEF TestEdit, Trees
<1>2. CASE SpecEdit(tree, new)
  BY <1>2 DEF SpecEdit, Trees
<1>3. CASE EntryEdit(tree, new)
  BY <1>3 DEF EntryEdit, Trees
<1>4. CASE SourceMove(tree, new)
  BY <1>4 DEF SourceMove, Trees
<1>5. CASE ManifestMove(tree, new)
  BY <1>5, NoEntriesTyped DEF ManifestMove, Trees
<1> QED
  BY <1>1, <1>2, <1>3, <1>4, <1>5, EditKinds

LEMMA ManifestTyped ==
    ASSUME NEW tree \in Trees, NEW m \in [Targets -> Entries]
    PROVE  [tree EXCEPT !.manifest = m] \in Trees
BY DEF Trees

LEMMA OtherTyped ==
    ASSUME NEW tree \in Trees, NEW who \in {"session", "red"}
    PROVE  [tree EXCEPT !.other = @ \cup {who}] \in Trees
BY DEF Trees

LEMMA TouchedAreNames ==
    ASSUME NEW old, NEW new
    PROVE  Touched(old, new) \subseteq Files \cup Kept /\ Paths(old, new) \subseteq Files \cup Kept
BY DEF Touched, Paths

-----------------------------------------------------------------------------
(* The variables keep their types.                                         *)
RunSteps == {"session", "red", "verdict", "pins", "commit", "report"}

(* While the author's run is on, it has a branch and a worktree. *)
Working == pc \in RunSteps => {author, start, work} \subseteq Trees

RefsTyped ==
    /\ mains \in Seq(Trees) /\ {local, base} \subseteq 1..Len(mains)
    /\ feature \in Trees

BranchTyped == {author, start, work} \subseteq Trees \cup {None}

CheckTyped == pc \in RunSteps \cup {"idle", "pass", "fail", "error"} /\ check \in CheckTypes

GateTyped == gate # None => gate \in GateTypes /\ gate.upto \in 1..Len(mains)

BudgetTyped == budget \in [Who -> Nat]

Typed == RefsTyped /\ BranchTyped /\ CheckTyped /\ GateTyped /\ BudgetTyped /\ Working

LEMMA TypedOK == Typed => TypeOK
BY DEF Typed, RefsTyped, BranchTyped, CheckTyped, GateTyped, BudgetTyped, RunSteps, TypeOK

LEMMA TypeInit == Init => Typed
<1> SUFFICES ASSUME Init PROVE Typed
  OBVIOUS
<1>1. PICK tree \in First : mains = <<tree>> /\ feature = tree
  BY DEF Init
<1>2. RefsTyped
  BY <1>1, FrozenTestsAssumption DEF Init, RefsTyped
<1>3. CheckTyped
  BY DEF Init, CheckTyped, NoCheck, CheckTypes
<1>4. BudgetTyped
  BY FrozenTestsAssumption DEF Init, BudgetTyped
<1> QED
  BY <1>2, <1>3, <1>4 DEF Init, Typed, BranchTyped, GateTyped, Working, RunSteps

LEMMA SpendTyped ==
    ASSUME BudgetTyped, NEW who \in Who, Spend(who)
    PROVE  BudgetTyped'
BY DEF BudgetTyped, Spend

LEMMA NoCheckTyped == NoCheck \in CheckTypes
BY DEF NoCheck, CheckTypes

(* What the author's run does not touch. *)
LEMMA AuthorRunKeeps ==
    ASSUME Typed, AuthorRun PROVE RefsTyped' /\ GateTyped'
BY DEF Typed, AuthorRun, refs, RefsTyped, GateTyped

(* The steps that end with no more than they began with. *)
LEMMA TypeEnd ==
    ASSUME Typed, AuthorRun, UNCHANGED <<branch, budget>>, check' = NoCheck,
           pc' \in {"pass", "fail", "error"}
    PROVE  Typed'
BY AuthorRunKeeps, NoCheckTyped
   DEF Typed, BranchTyped, CheckTyped, BudgetTyped, Working, RunSteps, branch

LEMMA TypeMake ==
    ASSUME Typed, MakeAuthorWorktree PROVE Typed'
<1> USE DEF MakeAuthorWorktree
<1>1. feature \in Trees
  BY DEF Typed, RefsTyped
<1>2. BranchTyped' /\ Working'
  BY <1>1 DEF BranchTyped, Working
<1>3. CheckTyped'
  BY NoCheckTyped DEF CheckTyped, RunSteps
<1>4. BudgetTyped'
  BY SpendTyped DEF Typed, Who
<1> QED
  BY <1>2, <1>3, <1>4, AuthorRunKeeps DEF Typed

LEMMA TypeWrites ==
    ASSUME Typed, Writes PROVE Typed'
<1>1. pc \in {"session", "red"} /\ {author, start, work} \subseteq Trees
  BY DEF Writes, Typed, Working, RunSteps
<1>2. work' \in Trees
  BY <1>1, EditsTyped, OtherTyped DEF Writes
<1>3. BranchTyped' /\ Working'
  BY <1>1, <1>2 DEF Writes, BranchTyped, Working
<1>4. CheckTyped'
  <2>1. Paths(work, work') \subseteq Files \cup Kept
    BY TouchedAreNames
  <2> DEFINE P == Paths(work, work')
  <2>2. check' = [check EXCEPT !.wrote = IF pc = "red" THEN @ \cup P ELSE @] /\ pc' = pc
    BY DEF Writes
  <2>3. P \subseteq Files \cup Kept
    BY <2>1
  <2> HIDE DEF P
  <2> QED
    BY <2>2, <2>3 DEF Typed, CheckTyped, CheckTypes
<1>5. BudgetTyped'
  BY <1>1, SpendTyped DEF Typed, Writes, Who
<1> QED
  BY <1>3, <1>4, <1>5, AuthorRunKeeps DEF Typed, Writes

LEMMA TypeCommits ==
    ASSUME Typed, CommitWork PROVE Typed'
<1>1. {author, start, work} \subseteq Trees
  BY DEF CommitWork, Typed, Working, RunSteps
<1> QED
  BY <1>1, AuthorRunKeeps
     DEF CommitWork, pipeline, Typed, BranchTyped, Working, CheckTyped, BudgetTyped

LEMMA TypeSessionEnds ==
    ASSUME Typed, SessionEnds PROVE Typed'
<1>1. {author, start, work} \subseteq Trees
  BY DEF SessionEnds, Typed, Working, RunSteps
<1>2. BranchTyped' /\ Working' /\ BudgetTyped'
  BY <1>1 DEF SessionEnds, BranchTyped, Working, Typed, BudgetTyped
<1>3. CheckTyped'
  <2> DEFINE T == Touched(start, work)
             C == author # work
  <2>1. check' = [check EXCEPT !.committed = C, !.touched = T] /\ pc' = "red"
    BY DEF SessionEnds
  <2>2. T \subseteq Files \cup Kept /\ C \in BOOLEAN
    BY TouchedAreNames
  <2> HIDE DEF T, C
  <2> QED
    BY <2>1, <2>2 DEF Typed, CheckTyped, CheckTypes, RunSteps
<1> QED
  BY <1>2, <1>3, AuthorRunKeeps DEF SessionEnds, Typed

LEMMA TypeRed ==
    ASSUME Typed, RunRed PROVE Typed'
<1>1. {author, start, work} \subseteq Trees
  BY DEF RunRed, Typed, Working, RunSteps
<1>2. BranchTyped' /\ Working' /\ BudgetTyped'
  BY <1>1 DEF RunRed, branch, BranchTyped, Working, Typed, BudgetTyped
<1>3. CheckTyped'
  <2>1. PICK red \in BOOLEAN, claimed \in Claims :
            check' = [check EXCEPT
                    !.red = red,
                    !.authored = {t \in claimed :
                        /\ red /\ check.committed
                        /\ work.test[FileOf[t]] # None
                        /\ FileOf[t] \in check.touched},
                    !.head = author]
    BY DEF RunRed
  <2> DEFINE A == {t \in claimed : /\ red /\ check.committed
                                   /\ work.test[FileOf[t]] # None
                                   /\ FileOf[t] \in check.touched}
  <2>2. A \subseteq Targets
    BY DEF Claims
  <2>3. check' = [check EXCEPT !.red = red, !.authored = A, !.head = author]
    BY <2>1
  <2> HIDE DEF A
  <2> QED
    BY <1>1, <2>2, <2>3 DEF RunRed, Typed, CheckTyped, CheckTypes, RunSteps
<1> QED
  BY <1>2, <1>3, AuthorRunKeeps DEF RunRed, Typed

LEMMA NewEntries ==
    ASSUME Typed, pc = "verdict"
    PROVE  WithNew \in [Targets -> Entries]
<1>1. work.manifest \in [Targets -> Entries]
  BY DEF Typed, Working, RunSteps, Trees
<1> QED
  BY <1>1 DEF WithNew, Entries

LEMMA TypeFreeze ==
    ASSUME Typed, FreezeEntries \/ FreezePins \/ FreezeCommit PROVE Typed'
<1>1. {author, start, work} \subseteq Trees
  BY DEF FreezeEntries, FreezePins, FreezeCommit, Typed, Working, RunSteps
<1>2. work' \in Trees
  <2>1. CASE FreezeEntries
    BY <1>1, <2>1, NewEntries, ManifestTyped DEF FreezeEntries
  <2>2. CASE FreezePins
    <3>1. work.manifest \in [Targets -> Entries]
      BY <1>1 DEF Trees
    <3>2. Freeze(work.manifest, author) \in [Targets -> Entries]
      BY <1>1, <2>2, <3>1, FrozenManifests DEF FreezePins
    <3> QED
      BY <1>1, <2>2, <3>2, ManifestTyped DEF FreezePins
  <2>3. CASE FreezeCommit
    BY <1>1, <2>3 DEF FreezeCommit
  <2> QED
    BY <2>1, <2>2, <2>3
<1>3. {author', start'} \subseteq Trees
  BY <1>1 DEF FreezeEntries, FreezePins, FreezeCommit
<1>4. pc' \in RunSteps /\ UNCHANGED <<check, budget>> /\ AuthorRun
  BY DEF FreezeEntries, FreezePins, FreezeCommit, RunSteps
<1> QED
  BY <1>2, <1>3, <1>4, AuthorRunKeeps DEF Typed, BranchTyped, CheckTyped, BudgetTyped,
     Working

LEMMA TypeRun ==
    ASSUME Typed,
           \/ MakeAuthorWorktree \/ Writes \/ CommitWork \/ SessionEnds \/ RunRed
           \/ FreezeEntries \/ FreezePins \/ FreezeCommit \/ ReportPass \/ Fail \/ Raise
    PROVE  Typed'
BY TypeMake, TypeWrites, TypeCommits, TypeSessionEnds, TypeRed, TypeFreeze, TypeEnd
   DEF ReportPass, Fail, Raise

(* acgate, and the rest of the repository, which leave the run alone. *)
RunTyped == BranchTyped /\ CheckTyped /\ Working

LEMMA RunUntouched ==
    ASSUME Typed, UNCHANGED <<branch, pipeline>> PROVE RunTyped'
BY DEF RunTyped, BranchTyped, CheckTyped, Working, Typed, branch, pipeline

LEMMA FindingsTyped ==
    ASSUME NEW m, NEW tip, NEW listing, NEW diff
    PROVE  Findings(m, tip, listing, diff) \subseteq FindingTypes
BY DEF Findings, FindingTypes, Stale, Listed

LEMMA MainsTyped ==
    ASSUME Typed, NEW i \in 1..Len(mains) PROVE mains[i] \in Trees
BY DEF Typed, RefsTyped

LEMMA TypeGate ==
    ASSUME Typed, BeginGate \/ JudgeGate \/ EndClose PROVE Typed'
<1>1. RunTyped' /\ BudgetTyped' /\ RefsTyped' /\ UNCHANGED refs
  BY RunUntouched DEF BeginGate, JudgeGate, EndClose, GateRun, refs, Typed, RefsTyped,
     BudgetTyped
<1>2. mains[local] \in Trees /\ mains[Lesser(local, base)] \in Trees /\ feature \in Trees
  BY MainsTyped DEF Typed, RefsTyped, Lesser
<1>3. GateTyped'
  <2>1. CASE BeginGate
    <3>1. PICK manifest \in {mains[local].manifest, feature.manifest} :
            gate' = [manifest |-> manifest, listing |-> Diff, upto |-> local,
                     findings |-> None, current |-> TRUE]
      BY <2>1 DEF BeginGate
    <3>2. manifest \in [Targets -> Entries] /\ Diff \in [from : Trees, head : Trees]
      BY <1>2 DEF Trees, Diff
    <3>3. local \in Nat /\ local \in 1..Len(mains) /\ mains' = mains
      BY <1>1 DEF Typed, RefsTyped, refs
    <3> HIDE DEF Diff
    <3> QED
      BY <3>1, <3>2, <3>3 DEF GateTyped, GateTypes
  <2>2. CASE JudgeGate
    <3> DEFINE F == Findings(gate.manifest, mains[local], gate.listing, Diff)
    <3>1. F \in SUBSET FindingTypes
      BY FindingsTyped
    <3>2. gate # None /\ gate' = [gate EXCEPT !.findings = F] /\ mains' = mains
      BY <2>2 DEF JudgeGate, refs
    <3> HIDE DEF F
    <3> QED
      BY <3>1, <3>2 DEF Typed, GateTyped, GateTypes
  <2>3. CASE EndClose
    BY <2>3 DEF EndClose, GateTyped
  <2> QED
    BY <2>1, <2>2, <2>3
<1> QED
  BY <1>1, <1>3 DEF RunTyped, Typed

(* Main gets longer; the gate knows of a part that is still there. *)
LEMMA AppendTyped ==
    ASSUME Typed, NEW tree \in Trees, mains' = Append(mains, tree),
           local' \in {local, Len(mains) + 1}, base' \in {base, Len(mains) + 1},
           feature' = feature, gate' \in {gate, None}
    PROVE  RefsTyped' /\ GateTyped'
BY DEF Typed, RefsTyped, GateTyped

LEMMA OutdatedTyped ==
    ASSUME Typed, gate' \in {gate, Outdated}, mains' = mains
    PROVE  GateTyped'
BY DEF Typed, GateTyped, GateTypes, Outdated

LEMMA TypeMove ==
    ASSUME Typed, NEW tree \in Trees, MoveFeature(tree), UNCHANGED <<mains, local, base>>
    PROVE  RefsTyped' /\ GateTyped' /\ RunTyped'
BY OutdatedTyped, RunUntouched DEF MoveFeature, Elsewhere, Typed, RefsTyped

LEMMA TypeCommit ==
    ASSUME Typed, CommitToFeature PROVE Typed'
<1>1. feature \in Trees
  BY DEF Typed, RefsTyped
<1>2. PICK tree \in Edits(feature) \cup
            {[feature EXCEPT !.fix = [t \in Targets |-> IF t \in given THEN @[t] + 1 ELSE @[t]]]
                : given \in SUBSET Targets} :
        MoveFeature(tree)
  BY DEF CommitToFeature
<1>3. tree \in Trees
  <2>1. CASE tree \in Edits(feature)
    BY <1>1, <2>1, EditsTyped
  <2>2. CASE \E given \in SUBSET Targets :
                tree = [feature EXCEPT !.fix = [t \in Targets |-> IF t \in given THEN @[t] + 1 ELSE @[t]]]
    BY <1>1, <2>2 DEF Trees
  <2> QED
    BY <1>2, <2>1, <2>2
<1>4. BudgetTyped'
  BY SpendTyped DEF CommitToFeature, Typed, Who
<1> QED
  BY <1>2, <1>3, <1>4, TypeMove DEF CommitToFeature, Typed, RunTyped

LEMMA TypeByHand ==
    ASSUME Typed, FreezeByHand PROVE Typed'
<1>1. PICK chosen \in {mains[local], feature} :
        /\ CanFreeze(feature.manifest, chosen)
        /\ MoveFeature([feature EXCEPT !.manifest = Freeze(@, chosen)])
  BY DEF FreezeByHand
<1>2. chosen \in Trees /\ feature \in Trees
  BY <1>1, MainsTyped DEF Typed, RefsTyped
<1>3. feature.manifest \in [Targets -> Entries]
  BY <1>2 DEF Trees
<1>4. Freeze(feature.manifest, chosen) \in [Targets -> Entries]
  BY <1>1, <1>2, <1>3, FrozenManifests
<1>5. [feature EXCEPT !.manifest = Freeze(@, chosen)] \in Trees
  BY <1>2, <1>4, ManifestTyped
<1>6. BudgetTyped'
  BY SpendTyped DEF FreezeByHand, Typed, Who
<1> QED
  BY <1>1, <1>5, <1>6, TypeMove DEF FreezeByHand, Typed, RunTyped

LEMMA TypeHandOver ==
    ASSUME Typed, HandOver PROVE Typed'
<1>1. author \in Trees
  BY DEF HandOver, Typed, BranchTyped
<1> QED
  BY <1>1, TypeMove DEF HandOver, Typed, RunTyped, BudgetTyped

LEMMA TypeMain ==
    ASSUME Typed, CommitToMain PROVE Typed'
<1>1. PICK tree \in Edits(mains[Len(mains)]) : mains' = Append(mains, tree)
  BY DEF CommitToMain
<1>2. Len(mains) \in 1..Len(mains)
  BY DEF Typed, RefsTyped
<1>3. tree \in Trees
  BY <1>1, <1>2, MainsTyped, EditsTyped
<1>4. RefsTyped' /\ GateTyped'
  BY <1>1, <1>3, AppendTyped DEF CommitToMain
<1>5. RunTyped' /\ BudgetTyped'
  BY RunUntouched, SpendTyped DEF CommitToMain, Elsewhere, Typed, Who
<1> QED
  BY <1>4, <1>5 DEF Typed, RunTyped

LEMMA TypeMerge ==
    ASSUME Typed, MergeFeature PROVE Typed'
<1>1. feature \in Trees /\ base' = Len(mains) + 1
  BY DEF MergeFeature, Typed, RefsTyped
<1>2. RefsTyped' /\ GateTyped'
  BY <1>1, AppendTyped DEF MergeFeature
<1>3. RunTyped' /\ BudgetTyped'
  BY RunUntouched DEF MergeFeature, GateRun, Typed, BudgetTyped
<1> QED
  BY <1>2, <1>3 DEF Typed, RunTyped

LEMMA TypeRebase ==
    ASSUME Typed, Rebase PROVE Typed'
<1>1. PICK onto \in {local, Len(mains)} :
        /\ base < onto
        /\ base' = onto
        /\ feature' =
            [spec |-> [s \in Specs |-> IF feature.spec[s] = mains[base].spec[s]
                                       THEN mains[onto].spec[s] ELSE feature.spec[s]],
             test |-> [f \in Files |-> IF feature.test[f] = mains[base].test[f]
                                       THEN mains[onto].test[f] ELSE feature.test[f]],
             fix |-> [t \in Targets |-> IF feature.fix[t] = mains[base].fix[t]
                                        THEN mains[onto].fix[t] ELSE feature.fix[t]],
             manifest |-> [t \in Targets |-> IF feature.manifest[t] = mains[base].manifest[t]
                                             THEN mains[onto].manifest[t] ELSE
                                             feature.manifest[t]],
             other |-> mains[onto].other \cup feature.other,
             moved |-> mains[onto].moved \cup feature.moved]
  BY DEF Rebase
<1>2. onto \in 1..Len(mains) /\ feature \in Trees
  BY <1>1 DEF Typed, RefsTyped
<1>3. mains[onto] \in Trees
  BY <1>2, MainsTyped
<1>4. feature' \in Trees
  BY <1>1, <1>2, <1>3 DEF Trees
<1>5. RefsTyped' /\ GateTyped'
  BY <1>1, <1>2, <1>4, OutdatedTyped DEF Rebase, Typed, RefsTyped
<1>6. RunTyped' /\ BudgetTyped'
  BY RunUntouched DEF Rebase, Elsewhere, Typed, BudgetTyped
<1> QED
  BY <1>5, <1>6 DEF Typed, RunTyped

LEMMA TypeFetch ==
    ASSUME Typed, Fetch PROVE Typed'
<1>1. RefsTyped'
  BY DEF Fetch, Typed, RefsTyped
<1>2. GateTyped'
  BY OutdatedTyped DEF Fetch
<1>3. RunTyped' /\ BudgetTyped'
  BY RunUntouched DEF Fetch, Elsewhere, Typed, BudgetTyped
<1> QED
  BY <1>1, <1>2, <1>3 DEF Typed, RunTyped

LEMMA TypeStep == Typed /\ [Next]_vars => Typed'
<1> SUFFICES ASSUME Typed, [Next]_vars PROVE Typed'
  OBVIOUS
<1>1. CASE UNCHANGED vars
  BY <1>1 DEF vars, refs, branch, pipeline, Typed, RefsTyped, BranchTyped, CheckTyped,
     GateTyped,
     BudgetTyped, Working
<1>2. CASE Next
  BY <1>2, TypeRun, TypeGate, TypeMerge, TypeCommit, TypeByHand, TypeHandOver, TypeMain,
     TypeRebase,
     TypeFetch DEF Next
<1> QED
  BY <1>1, <1>2

LEMMA TypedAlways == Spec => []Typed
<1>1. Init => Typed
  BY TypeInit
<1>2. Typed /\ [Next]_vars => Typed'
  BY TypeStep
<1> QED
  BY <1>1, <1>2, PTL DEF Spec

(* The variables keep their types: TypeOK of the run, for every instance.  *)
THEOREM TypeCorrectness == Spec => []TypeOK
BY TypedAlways, TypedOK, PTL

-----------------------------------------------------------------------------
(* What acgate has looked at, as long as it is current: the feature, and   *)
(* where it had left the main that acgate has read.                        *)
GateSaw ==
    gate # None /\ gate.current =>
        /\ gate.listing = [from |-> mains[Lesser(gate.upto, base)], head |-> feature]
        /\ gate.findings = None => gate.upto = local
        /\ gate.findings # None =>
            gate.findings =
                Findings(gate.manifest, mains[gate.upto], gate.listing, gate.listing)

LEMMA GateSawOutdated ==
    ASSUME Typed, gate' = Outdated PROVE GateSaw'
BY DEF Typed, GateTyped, GateTypes, Outdated, GateSaw

LEMMA GateSawJudged ==
    ASSUME Typed, GateSaw, JudgeGate PROVE GateSaw'
<1> DEFINE F == Findings(gate.manifest, mains[local], gate.listing, Diff)
<1>1. /\ gate # None /\ gate.findings = None /\ gate' = [gate EXCEPT !.findings = F]
      /\ UNCHANGED <<mains, local, base, feature>>
  BY DEF JudgeGate, refs
<1>2. gate.current => gate.upto = local /\ gate.listing = Diff
  BY <1>1 DEF GateSaw, Diff
<1>3. gate.current => F = Findings(gate.manifest, mains[gate.upto], gate.listing, gate.listing)
  BY <1>2
<1> HIDE DEF F
<1> QED
  BY <1>1, <1>2, <1>3 DEF Typed, GateTyped, GateTypes, GateSaw

LEMMA GateStep == Typed /\ GateSaw /\ [Next]_vars => GateSaw'
<1> SUFFICES ASSUME Typed, GateSaw, [Next]_vars PROVE GateSaw'
  OBVIOUS
<1>1. CASE UNCHANGED <<refs, gate>>
  BY <1>1 DEF refs, GateSaw
<1>2. CASE UNCHANGED vars
  BY <1>1, <1>2 DEF vars
<1>3. CASE MakeAuthorWorktree \/ Writes \/ CommitWork \/ SessionEnds \/ RunRed
         \/ FreezeEntries \/ FreezePins \/ FreezeCommit \/ ReportPass \/ Fail \/ Raise
  <2>1. AuthorRun
    BY <1>3 DEF MakeAuthorWorktree, Writes, CommitWork, SessionEnds, RunRed,
       FreezeEntries, FreezePins, FreezeCommit, ReportPass, Fail, Raise
  <2> QED
    BY <1>1, <2>1 DEF AuthorRun
<1>4. CASE BeginGate
  BY <1>4 DEF BeginGate, Diff, refs, GateSaw
<1>5. CASE EndClose \/ MergeFeature
  BY <1>5 DEF EndClose, MergeFeature, GateSaw
<1>6. CASE CommitToFeature \/ FreezeByHand \/ HandOver \/ Rebase
  BY <1>6, GateSawOutdated DEF CommitToFeature, FreezeByHand, HandOver, MoveFeature, Rebase
<1>7. CASE CommitToMain
  <2>1. gate # None => mains'[gate.upto] = mains[gate.upto]
                       /\ mains'[Lesser(gate.upto, base)] = mains[Lesser(gate.upto, base)]
    BY <1>7 DEF CommitToMain, Typed, RefsTyped, GateTyped, Lesser
  <2> QED
    BY <1>7, <2>1 DEF CommitToMain, GateSaw
<1>8. CASE Fetch
  <2>1. CASE gate # None /\ gate.findings = None
    BY <1>8, <2>1, GateSawOutdated DEF Fetch
  <2>2. CASE ~ (gate # None /\ gate.findings = None)
    BY <1>8, <2>2 DEF Fetch, GateSaw
  <2> QED
    BY <2>1, <2>2
<1> QED
  BY <1>2, <1>3, <1>4, <1>5, <1>6, <1>7, <1>8, GateSawJudged DEF Next

(* A listed test that is weaker, with nothing to excuse it, is found: by   *)
(* its lines, or by its hash if the entry is not what main has.            *)
LEMMA WeakerBlocks ==
    ASSUME NEW m, NEW t \in Listed(m), NEW old, NEW new, NEW diff,
           diff = [from |-> old, head |-> new],
           Weaker(old.test[FileOf[t]], new.test[FileOf[t]]),
           \A u \in TestsOf(FileOf[t]) :
               old.spec[SpecOf[u]] = new.spec[SpecOf[u]] /\ old.fix[u] = new.fix[u]
    PROVE  Blocking(Findings(m, old, diff, diff)) # {}
<1> DEFINE f == FileOf[t]
           blocks(k) == <<k, f, "none">>
<1>0. diff.from = old /\ diff.head = new
  OBVIOUS
<1>1. t \in Targets /\ f \in Files /\ t \in TestsOf(f) \cap Listed(m)
  BY FrozenTestsAssumption DEF Listed, TestsOf
<1>2. Channel(m, f, diff) = "none"
  BY <1>0 DEF Channel, TestsOf, Listed
<1>3. old.test[f] # None /\ old.test[f] # new.test[f]
  BY DEF Weaker
<1>4. \A k \in Kinds(m, f, diff, diff) : blocks(k) \in Findings(m, old, diff, diff)
  <2>1. Kinds(m, f, diff, diff) \subseteq FileKinds
    BY DEF Kinds, FileKinds
  <2>2. Changed(f, diff)
    BY <1>0, <1>3 DEF Changed
  <2> QED
    BY <1>1, <1>2, <2>1, <2>2 DEF Findings, Channels
<1>5. CASE Kinds(m, f, diff, diff) # {}
  <2>1. PICK k \in Kinds(m, f, diff, diff) : blocks(k) \in Findings(m, old, diff, diff)
    BY <1>4, <1>5
  <2> QED
    BY <2>1 DEF Blocking
<1>6. CASE Kinds(m, f, diff, diff) = {}
  <2>1. new.test[f] # None
    BY <1>0, <1>6 DEF Kinds
  <2>2. Skip \notin new.test[f] \ old.test[f]
    BY <1>0, <1>3, <1>6, <2>1 DEF Kinds, Added, LinesOf
  <2>3. Removed(f, diff) # {}
    BY <1>0, <1>3, <2>1, <2>2 DEF Weaker, Removed, LinesOf
  <2>4. CASE Weakened(m, f, old, diff, diff)
    <3>1. blocks("TEST_WEAKENED_UNKNOWN") \in Findings(m, old, diff, diff)
      BY <1>0, <1>1, <1>2, <1>3, <2>4 DEF Findings, Changed, FileKinds, Channels
    <3> QED
      BY <3>1 DEF Blocking
  <2>5. CASE ~ Weakened(m, f, old, diff, diff)
    <3>1. PICK u \in Listed(m) \cap TestsOf(f) : m[u].test # old.test[f]
      BY <1>6, <2>3, <2>5 DEF Weakened
    <3>2. u \in Stale(m, old)
      BY <3>1 DEF Stale, Pin, TestsOf
    <3>3. <<"MANIFEST_STALE", u, "none">> \in Findings(m, old, diff, diff)
      BY <3>2 DEF Findings
    <3> QED
      BY <3>3 DEF Blocking
  <2> QED
    BY <2>4, <2>5
<1> QED
  BY <1>5, <1>6

(* A close is judged on the main that acgate has read, which the feature   *)
(* contains.                                                               *)
LEMMA KeptByClose ==
    ASSUME Typed, GateSaw, MergeFeature, gate.current,
           NEW t \in Listed(mains[gate.upto].manifest),
           Weaker(mains[gate.upto].test[FileOf[t]], feature.test[FileOf[t]])
    PROVE  \/ gate.manifest[t] = None
           \/ \E u \in TestsOf(FileOf[t]) :
                \/ mains[gate.upto].spec[SpecOf[u]] # feature.spec[SpecOf[u]]
                \/ mains[gate.upto].fix[u] # feature.fix[u]
<1> DEFINE main == mains[gate.upto]
<1> SUFFICES ASSUME gate.manifest[t] # None,
                    \A u \in TestsOf(FileOf[t]) :
                        main.spec[SpecOf[u]] = feature.spec[SpecOf[u]] /\ main.fix[u] = feature.fix[u]
             PROVE  FALSE
  OBVIOUS
<1>1. gate # None /\ gate.findings # None /\ Blocking(gate.findings) = {} /\ base = Len(mains)
  BY DEF MergeFeature
<1>2. Lesser(gate.upto, base) = gate.upto
  BY <1>1 DEF Typed, GateTyped, RefsTyped, Lesser
<1>3. /\ gate.listing = [from |-> main, head |-> feature]
      /\ gate.findings = Findings(gate.manifest, main, gate.listing, gate.listing)
  BY <1>1, <1>2 DEF GateSaw
<1>4. t \in Listed(gate.manifest)
  BY DEF Listed
<1> HIDE DEF main
<1>5. Weaker(main.test[FileOf[t]], feature.test[FileOf[t]])
  BY DEF main
<1>6. Blocking(Findings(gate.manifest, main, gate.listing, gate.listing)) # {}
  BY <1>3, <1>4, <1>5, WeakerBlocks
<1> QED
  BY <1>1, <1>3, <1>6

LEMMA OnlyMergesClose ==
    ASSUME [Next]_vars, Closes PROVE MergeFeature
BY DEF Closes, Next, vars, refs, MakeAuthorWorktree, Writes, CommitWork, SessionEnds,
   RunRed,
   FreezeEntries, FreezePins, FreezeCommit, ReportPass, Fail, Raise, AuthorRun, BeginGate,
   JudgeGate,
   EndClose, CommitToFeature, FreezeByHand, HandOver, CommitToMain, Rebase, Fetch

(* A frozen test on the main that acgate has read loses no line and is not *)
(* skipped by the close that it has let pass, whatever moves in between    *)
(* (FrozenTestsKept, with its exceptions).                                 *)
THEOREM TestsStayFrozen == Spec => FrozenTestsKept
<1> DEFINE Kept1(t) ==
        Weaker(mains[gate.upto].test[FileOf[t]], feature.test[FileOf[t]]) =>
          \/ gate.manifest[t] = None
          \/ \E u \in TestsOf(FileOf[t]) :
              \/ mains[gate.upto].spec[SpecOf[u]] # feature.spec[SpecOf[u]]
              \/ mains[gate.upto].fix[u] # feature.fix[u]
<1>1. Init => GateSaw
  BY DEF Init, GateSaw
<1>2. Typed /\ GateSaw /\ [Next]_vars => GateSaw'
  BY GateStep
<1>3. Typed /\ GateSaw /\ [Next]_vars =>
        (Closes => \A t \in Listed(mains[gate.upto].manifest) : Kept1(t))
  <2> SUFFICES ASSUME Typed, GateSaw, [Next]_vars, Closes,
                      NEW t \in Listed(mains[gate.upto].manifest)
               PROVE  Kept1(t)
    OBVIOUS
  <2>1. MergeFeature /\ gate.current
    BY OnlyMergesClose DEF Closes
  <2> QED
    BY <2>1, KeptByClose
<1>4. Typed /\ GateSaw /\ [Next]_vars =>
        [Closes => LET main == mains[gate.upto]
                   IN  \A t \in Listed(main.manifest) :
                         Weaker(main.test[FileOf[t]], feature.test[FileOf[t]]) =>
                         \/ gate.manifest[t] = None
                         \/ \E u \in TestsOf(FileOf[t]) :
                             main.spec[SpecOf[u]] # feature.spec[SpecOf[u]] \/ main.fix[u] # feature.fix[u]]_vars
  BY <1>3
<1> QED
  BY <1>1, <1>2, <1>4, TypedAlways, PTL DEF Spec, FrozenTestsKept

-----------------------------------------------------------------------------
(* What the author's run knows of its branch and of its worktree.  Each of *)
(* them, when the session is over: but for what the red command has        *)
(* written, what the listed paths say is so.                               *)
Left(tree, c) == c \notin check.wrote /\ (c = "manifest" => c \notin tree.moved \ start.moved)

Sound(tree) ==
    /\ Left(tree, "spec") => tree.spec = start.spec
    /\ Left(tree, "fix") => tree.fix = start.fix
    /\ tree.other \subseteq start.other \cup {"red"}
    /\ Left(tree, "manifest") => tree.manifest = start.manifest

(* The two differ only in what the red command has written. *)
Together ==
    /\ "spec" \notin check.wrote => work.spec = author.spec
    /\ \A f \in Files : f \notin check.wrote => work.test[f] = author.test[f]

(* The worktree, when it has the new entries. *)
Complete(tree) ==
    /\ \E t \in Listed(tree.manifest) :
        FileOf[t] \in check.touched /\ (Left(tree, "manifest") => t \notin Listed(start.manifest))
    /\ Left(tree, "spec") => tree.spec = start.spec
    /\ Left(tree, "fix") => tree.fix = start.fix
    /\ tree.other \subseteq start.other \cup {"red"}
    /\ Left(tree, "manifest") => Listed(start.manifest) \subseteq Listed(tree.manifest)

Pinned == \A t \in Listed(work.manifest) : work.manifest[t] = Pin(t, author)

Known ==
    /\ pc = "session" => check.wrote = {}
    /\ pc \in {"red", "verdict"} /\ check.touched \subseteq Files => Sound(author) /\ Sound(work)
    /\ pc \in {"red", "verdict", "pins", "commit"} => Together
    /\ pc = "verdict" => \A t \in check.authored : t \in Targets /\ FileOf[t] \in check.touched
    /\ pc \in {"verdict", "pins", "commit"} => author = check.head
    /\ pc \in {"pins", "commit"} => Complete(work)
    /\ pc = "commit" => Pinned
    /\ pc = "report" => Earned

(* A step outside of the run leaves it as it is. *)
LEMMA KnownStutters ==
    ASSUME Known, UNCHANGED <<branch, pipeline>> PROVE Known'
BY DEF branch, pipeline, Known, Sound, Left, Together, Complete, Pinned, Earned, Untouched

LEMMA KnownMake ==
    ASSUME Typed, MakeAuthorWorktree PROVE Known'
BY DEF MakeAuthorWorktree, Known, NoCheck

LEMMA KnownOver ==
    ASSUME pc' \in {"pass", "fail", "error"} PROVE Known'
BY DEF Known

(* An edit of a sound tree is sound, for more has been written. *)
LEMMA EditsAreSound ==
    ASSUME NEW tree \in Trees, NEW new \in Trees,
           \/ new \in Edits(tree)
           \/ new = [tree EXCEPT !.other = @ \cup {"red"}]
    PROVE  /\ \A c \in {"spec", "fix", "manifest"} : new[c] # tree[c] => c \in Paths(tree, new)
           /\ \A f \in Files : new.test[f] # tree.test[f] => f \in Paths(tree, new)
           /\ new.other \subseteq tree.other \cup {"red"}
           /\ tree.moved \subseteq new.moved
<1>1. /\ \A c \in {"spec", "fix", "manifest"} : new[c] # tree[c] => c \in Paths(tree, new)
      /\ \A f \in Files : new.test[f] # tree.test[f] => f \in Paths(tree, new)
  BY DEF Paths, Kept
<1>2. CASE new = [tree EXCEPT !.other = @ \cup {"red"}]
  BY <1>1, <1>2 DEF Trees
<1>3. CASE new \in Edits(tree)
  <2>1. CASE TestEdit(tree, new)
    BY <1>1, <2>1 DEF TestEdit, Trees
  <2>2. CASE SpecEdit(tree, new)
    BY <1>1, <2>2 DEF SpecEdit, Trees
  <2>3. CASE EntryEdit(tree, new)
    BY <1>1, <2>3 DEF EntryEdit, Trees
  <2>4. CASE SourceMove(tree, new)
    BY <1>1, <2>4 DEF SourceMove, Trees
  <2>5. CASE ManifestMove(tree, new)
    BY <1>1, <2>5 DEF ManifestMove, Trees
  <2> QED
    BY <1>3, <2>1, <2>2, <2>3, <2>4, <2>5, EditKinds
<1> QED
  BY <1>2, <1>3

LEMMA KnownWrites ==
    ASSUME Typed, Known, Writes PROVE Known'
<1>1. pc \in {"session", "red"} /\ pc' = pc /\ UNCHANGED <<author, start>>
  BY DEF Writes
<1>2. {author, start, work, work'} \subseteq Trees /\ check \in CheckTypes
  BY <1>1, TypeWrites DEF Typed, Working, RunSteps, CheckTyped
<1> DEFINE P == Paths(work, work')
<1>3. CASE pc = "session"
  <2>1. check'.wrote = check.wrote
    BY <1>2, <1>3 DEF Writes, CheckTypes
  <2> QED
    BY <1>1, <1>3, <2>1 DEF Known
<1>4. CASE pc = "red"
  <2>1. check' = [check EXCEPT !.wrote = @ \cup P]
    BY <1>4 DEF Writes
  <2>2. work' \in Edits(work) \/ work' = [work EXCEPT !.other = @ \cup {"red"}]
    BY <1>4 DEF Writes
  <2>3. /\ \A c \in {"spec", "fix", "manifest"} : work'[c] # work[c] => c \in P
        /\ \A f \in Files : work'.test[f] # work.test[f] => f \in P
        /\ work'.other \subseteq work.other \cup {"red"}
        /\ work.moved \subseteq work'.moved
    BY <1>2, <2>2, EditsAreSound
  <2> HIDE DEF P
  <2>4. check'.wrote = check.wrote \cup P /\ check'.touched = check.touched
    BY <1>2, <2>1 DEF CheckTypes
  <2>5. /\ work'.spec # work.spec => "spec" \in P
        /\ work'.fix # work.fix => "fix" \in P
        /\ work'.manifest # work.manifest => "manifest" \in P
    BY <1>2, <2>3 DEF Trees
  <2>6. check.touched \subseteq Files => Sound(author)' /\ Sound(work)'
    BY <1>1, <1>4, <2>3, <2>4, <2>5 DEF Known, Sound, Left
  <2>7. Together'
    BY <1>1, <1>4, <2>3, <2>4, <2>5 DEF Known, Together
  <2> QED
    BY <1>1, <1>4, <2>4, <2>6, <2>7 DEF Known
<1> QED
  BY <1>1, <1>3, <1>4

LEMMA KnownCommits ==
    ASSUME Typed, Known, CommitWork PROVE Known'
BY DEF CommitWork, pipeline, Known, Sound, Left, Together

LEMMA KnownSessionEnds ==
    ASSUME Typed, Known, SessionEnds PROVE Known'
<1>1. /\ pc = "session" /\ pc' = "red" /\ author' = work /\ work' = work /\ start' = start
      /\ check' = [check EXCEPT !.committed = author # work, !.touched = Touched(start, work)]
  BY DEF SessionEnds
<1>2. {author, start, work} \subseteq Trees /\ check \in CheckTypes
  BY <1>1 DEF Typed, Working, RunSteps, CheckTyped
<1>3. check'.touched = Touched(start, work) /\ check'.wrote = {}
  BY <1>1, <1>2 DEF Known, CheckTypes
<1>4. Together'
  BY <1>1 DEF Together
<1>5. ASSUME Touched(start, work) \subseteq Files PROVE Sound(work)'
  <2>1. \A c \in Kept : c \notin Touched(start, work)
    BY <1>5, FrozenTestsAssumption
  <2>2. /\ start["spec"] = work["spec"] /\ start["fix"] = work["fix"]
        /\ start["other"] = work["other"]
        /\ start["manifest"] = work["manifest"] \/ "manifest" \in work.moved \ start.moved
    BY <2>1 DEF Touched, Paths, Kept
  <2>3. /\ start.spec = work.spec /\ start.fix = work.fix /\ start.other = work.other
        /\ start.manifest = work.manifest \/ "manifest" \in work.moved \ start.moved
    BY <1>2, <2>2 DEF Trees
  <2> QED
    BY <1>1, <2>3 DEF Sound, Left
<1>6. check'.touched \subseteq Files => Sound(author)' /\ Sound(work)'
  BY <1>1, <1>3, <1>5 DEF Sound, Left
<1> QED
  BY <1>1, <1>4, <1>6 DEF Known

LEMMA KnownRed ==
    ASSUME Typed, Known, RunRed PROVE Known'
<1>1. PICK red \in BOOLEAN, claimed \in Claims :
        check' = [check EXCEPT
                !.red = red,
                !.authored = {t \in claimed :
                    /\ red /\ check.committed
                    /\ work.test[FileOf[t]] # None
                    /\ FileOf[t] \in check.touched},
                !.head = author]
  BY DEF RunRed
<1> DEFINE A == {t \in claimed : /\ red /\ check.committed
                                 /\ work.test[FileOf[t]] # None
                                 /\ FileOf[t] \in check.touched}
<1>2. check' = [check EXCEPT !.red = red, !.authored = A, !.head = author]
  BY <1>1
<1>3. \A t \in A : t \in Targets /\ FileOf[t] \in check.touched
  BY DEF Claims
<1> HIDE DEF A
<1>4. /\ check'.touched = check.touched /\ check'.wrote = check.wrote
      /\ check'.authored = A /\ check'.head = author
  BY <1>2 DEF Typed, CheckTyped, CheckTypes
<1>5. pc = "red" /\ pc' = "verdict" /\ UNCHANGED <<author, start, work>>
  BY DEF RunRed, branch
<1>6. check'.touched \subseteq Files => Sound(author)' /\ Sound(work)'
  BY <1>4, <1>5 DEF Known, Sound, Left
<1>7. Together'
  BY <1>4, <1>5 DEF Known, Together
<1> QED
  BY <1>3, <1>4, <1>5, <1>6, <1>7 DEF Known

LEMMA KnownEntries ==
    ASSUME Typed, Known, FreezeEntries PROVE Known'
<1>1. /\ pc = "verdict" /\ pc' = "pins" /\ UNCHANGED <<author, start, check>>
      /\ work' = [work EXCEPT !.manifest = WithNew]
      /\ check.authored # {} /\ check.touched \subseteq Files
      /\ check.authored \cap Listed(work.manifest) = {}
  BY DEF FreezeEntries, Eligible
<1>2. {author, start, work} \subseteq Trees
  BY <1>1 DEF Typed, Working, RunSteps
<1>3. /\ work'.spec = work.spec /\ work'.fix = work.fix /\ work'.test = work.test
      /\ work'.other = work.other /\ work'.moved = work.moved /\ work'.manifest = WithNew
  BY <1>1, <1>2 DEF Trees
<1>4. Sound(work) /\ Together /\ author = check.head
  BY <1>1 DEF Known
<1>5. \A t \in check.authored : t \in Listed(work'.manifest)
  BY <1>1, <1>3, FrozenTestsAssumption DEF Known, Listed, WithNew
<1>6. Listed(work.manifest) \subseteq Listed(work'.manifest)
  BY <1>3, FrozenTestsAssumption DEF Listed, WithNew
<1>7. \A c : Left(work, c)' = Left(work, c)
  BY <1>1, <1>3 DEF Left
<1>8. \E t \in Listed(work'.manifest) :
        FileOf[t] \in check.touched /\ (Left(work, "manifest") => t \notin Listed(start.manifest))
  <2>1. PICK t \in check.authored : TRUE
    BY <1>1
  <2> QED
    BY <1>1, <1>4, <1>5, <2>1 DEF Known, Sound
<1>9. Complete(work)'
  BY <1>1, <1>3, <1>4, <1>6, <1>7, <1>8 DEF Complete, Sound
<1>10. Together'
  BY <1>1, <1>3, <1>4 DEF Together
<1> QED
  BY <1>1, <1>4, <1>9, <1>10 DEF Known

LEMMA KnownPins ==
    ASSUME Typed, Known, FreezePins PROVE Known'
<1>1. /\ pc = "pins" /\ pc' = "commit" /\ UNCHANGED <<author, start, check>>
      /\ CanFreeze(work.manifest, author)
      /\ work' = [work EXCEPT !.manifest = Freeze(@, author)]
  BY DEF FreezePins
<1>2. {author, start, work} \subseteq Trees
  BY <1>1 DEF Typed, Working, RunSteps
<1>3. /\ work'.spec = work.spec /\ work'.fix = work.fix /\ work'.test = work.test
      /\ work'.other = work.other /\ work'.moved = work.moved
      /\ work'.manifest = Freeze(work.manifest, author)
  BY <1>1, <1>2 DEF Trees
<1>4. work.manifest \in [Targets -> Entries]
  BY <1>2 DEF Trees
<1>5. /\ Listed(work'.manifest) = Listed(work.manifest)
      /\ \A t \in Listed(work.manifest) : work'.manifest[t] = Pin(t, author)
  BY <1>1, <1>2, <1>3, <1>4, FrozenManifests
<1>6. Complete(work) /\ Together /\ author = check.head
  BY <1>1 DEF Known
<1>7. \A c : Left(work, c)' = Left(work, c)
  BY <1>1, <1>3 DEF Left
<1>8. Complete(work)'
  BY <1>1, <1>3, <1>5, <1>6, <1>7 DEF Complete
<1>9. Together'
  BY <1>1, <1>3, <1>6 DEF Together
<1>10. Pinned'
  BY <1>1, <1>5 DEF Pinned
<1> QED
  BY <1>1, <1>6, <1>8, <1>9, <1>10 DEF Known

LEMMA KnownCommit ==
    ASSUME Typed, Known, FreezeCommit PROVE Known'
<1>1. pc = "commit" /\ pc' = "report" /\ author' = work /\ UNCHANGED <<start, work, check>>
  BY DEF FreezeCommit
<1>2. Complete(work) /\ Together /\ Pinned
  BY <1>1 DEF Known
<1>3. {author, start, work} \subseteq Trees
  BY <1>1 DEF Typed, Working, RunSteps
<1>4. \A c : Untouched(c)' = Left(work, c)
  BY <1>1 DEF Untouched, Left
<1>5. work["spec"] = work.spec /\ start["spec"] = start.spec
      /\ work["fix"] = work.fix /\ start["fix"] = start.fix
  OBVIOUS
<1>6. \A t \in Listed(work.manifest) :
        Left(work, FileOf[t]) /\ Left(work, "spec") => work.manifest[t] = Pin(t, work)
  BY <1>2, FrozenTestsAssumption DEF Pinned, Pin, Together, Left, Listed
<1>7. Earned'
  BY <1>1, <1>2, <1>4, <1>5, <1>6 DEF Complete, Earned
<1> QED
  BY <1>1, <1>7 DEF Known

LEMMA KnownStep == Typed /\ Known /\ [Next]_vars => Known'
<1> SUFFICES ASSUME Typed, Known, [Next]_vars PROVE Known'
  OBVIOUS
<1>1. CASE UNCHANGED vars
  BY <1>1, KnownStutters DEF vars
<1>2. CASE BeginGate \/ JudgeGate \/ EndClose \/ MergeFeature
  BY <1>2, KnownStutters DEF BeginGate, JudgeGate, EndClose, MergeFeature, GateRun
<1>3. CASE CommitToFeature \/ FreezeByHand \/ HandOver \/ CommitToMain \/ Rebase \/ Fetch
  BY <1>3, KnownStutters DEF CommitToFeature, FreezeByHand, HandOver, CommitToMain,
     Rebase, Fetch,
     MoveFeature, Elsewhere
<1>4. CASE ReportPass \/ Fail \/ Raise
  BY <1>4, KnownOver DEF ReportPass, Fail, Raise
<1> QED
  BY <1>1, <1>2, <1>3, <1>4, KnownMake, KnownWrites, KnownCommits, KnownSessionEnds,
     KnownRed,
     KnownEntries, KnownPins, KnownCommit DEF Next

LEMMA OnlyRunsEnd ==
    ASSUME [Next]_vars, pc' # pc, pc' \in {"pass", "fail", "error"}
    PROVE  ReportPass \/ Fail \/ Raise
BY DEF Next, vars, refs, branch, pipeline, MakeAuthorWorktree, Writes, CommitWork,
   SessionEnds, RunRed,
   FreezeEntries, FreezePins, FreezeCommit, BeginGate, JudgeGate, EndClose, MergeFeature,
   GateRun,
   CommitToFeature, FreezeByHand, HandOver, CommitToMain, Rebase, Fetch, MoveFeature, Elsewhere

(* The verdict of a run and what its branch holds agree, whatever the      *)
(* session and the red command write, and wherever the run fails or is cut *)
(* off (VerdictIsEarned, with its exceptions).                             *)
THEOREM VerdictsAreEarned == Spec => VerdictIsEarned
<1> DEFINE Agrees ==
        /\ pc # "pass" /\ pc' = "pass" => Earned
        /\ pc # "fail" /\ pc' = "fail" => author = check.head
        /\ pc \in {"verdict", "pins", "commit", "report"} /\ pc' = "error" =>
            author = check.head \/ Earned
<1>1. Init => Known
  BY DEF Init, Known
<1>2. Typed /\ Known /\ [Next]_vars => Known'
  BY KnownStep
<1>3. Typed /\ Known /\ [Next]_vars => Agrees
  <2> SUFFICES ASSUME Known, [Next]_vars PROVE Agrees
    OBVIOUS
  <2>1. pc # "pass" /\ pc' = "pass" => pc = "report"
    BY OnlyRunsEnd DEF ReportPass, Fail, Raise
  <2>2. pc # "fail" /\ pc' = "fail" => pc \in {"verdict", "pins", "commit"}
    BY OnlyRunsEnd DEF ReportPass, Fail, Raise
  <2> QED
    BY <2>1, <2>2 DEF Known
<1>4. Typed /\ Known /\ [Next]_vars =>
       [ /\ pc # "pass" /\ pc' = "pass" => Earned
         /\ pc # "fail" /\ pc' = "fail" => author = check.head
         /\ pc \in {"verdict", "pins", "commit", "report"} /\ pc' = "error" =>
             author = check.head \/ Earned ]_vars
  BY <1>3
<1> QED
  BY <1>1, <1>2, <1>4, TypedAlways, PTL DEF Spec, VerdictIsEarned

-----------------------------------------------------------------------------
(* The mutation probe.  Where it is says what it has settled: a worktree   *)
(* there is is counted, a mutant is tried only when the baseline is over.  *)
Counted == trees = unremoved + (IF throwaway = Nil THEN 0 ELSE 1)

Places ==
    /\ stage = "add" => mutant < NumMutants
    /\ stage = "edit" => mutant # 0
    /\ stage = "stop" => mutant = 0
    /\ mutant # 0 => toCheck = {}
    /\ toCheck \subseteq {cmdOf[m] : m \in Mutants}
    /\ stage \in {"test", "stop"} /\ mutant = 0 =>
        ~ injected /\ cmd \in {cmdOf[m] : m \in Mutants}
    /\ stage \in {"edit", "test"} /\ mutant # 0 => cmd = cmdOf[mutant]
    /\ stage = "test" /\ mutant # 0 => injected /\ throwaway \in applies[mutant]

(* As long as nothing disturbs it, a worktree is of what the reference is. *)
Undisturbed == ~ disturbed => services = "up" /\ throwaway \in {ref, Nil}

AtBaselineOf(c) == mutant = 0 /\ cmd = c /\ stage \in {"test", "stop", "raise"}

(* What is not to be checked any more has passed. *)
BaselineIsGreen ==
    ~ disturbed /\ stage \in Running =>
        \A m \in Mutants :
            cmdOf[m] \notin toCheck => AtBaselineOf(cmdOf[m]) \/ ref \in green[cmdOf[m]]

StopIsRed == ~ disturbed /\ stage = "stop" => unstarted \/ ref \notin green[cmd]

(* Every mutant up to where the probe is has an outcome, *)
UpToHere ==
    stage \in {"add", "edit", "test", "drop"} =>
        \A m \in Mutants :
            outcomes[m] = Nil => m > mutant \/ (m = mutant /\ stage \in {"edit", "test"})

(* and the outcome has its grounds in the commit that was probed. *)
Grounds(m) ==
    /\ outcomes[m] = "killed" => ref \in applies[m] /\ ref \in green[cmdOf[m]] /\ ref \in sees[m]
    /\ outcomes[m] = "survived" => ref \notin sees[m]
    /\ outcomes[m] = "apply_failed" => ref \notin applies[m]
    /\ outcomes[m] = "error" => unstarted

Grounded == ~ disturbed => \A m \in Mutants : Grounds(m)

ProbeInv ==
    /\ ProbeTypeOK /\ Counted /\ Places
    /\ Undisturbed /\ BaselineIsGreen /\ StopIsRed /\ UpToHere /\ Grounded /\ VerdictIsEvidence

-----------------------------------------------------------------------------
(* Nothing is settled yet. *)
LEMMA ProbeInitOK == ProbeInit => ProbeInv
<1> SUFFICES ASSUME ProbeInit PROVE ProbeInv
  OBVIOUS
<1> USE ProbeAssumption DEF ProbeInit, Mutants, Commits
<1>1. ProbeTypeOK
  <2>1. /\ \A m \in Mutants : applies[m] \in SUBSET Commits /\ sees[m] \in SUBSET Commits
        /\ green \in [Cmds -> SUBSET Commits] /\ cmdOf \in [Mutants -> Cmds]
    OBVIOUS
  <2>2. toCheck \subseteq Cmds
    BY <2>1
  <2>3. outcomes \in [Mutants -> Outcomes \cup {Nil}]
    OBVIOUS
  <2>4. /\ ref \in Commits /\ services \in {"up", "down"} /\ stage \in Running
        /\ mutant \in 0..NumMutants /\ cmd = Nil /\ throwaway = Nil /\ verdict = Nil
        /\ trees \in Nat /\ unremoved \in Nat /\ failures \in Nat
    BY DEF Running
  <2>5. injected \in BOOLEAN /\ {unstarted, disturbed} \subseteq BOOLEAN
    OBVIOUS
  <2>6. {applies[m] : m \in Mutants} \cup {sees[m] : m \in Mutants} \subseteq SUBSET Commits
    BY <2>1
  <2>7. stage = "add"
    OBVIOUS
  <2> QED
    BY ONLY <2>1, <2>2, <2>3, <2>4, <2>5, <2>6, <2>7 DEF ProbeTypeOK
<1>2. Counted /\ Places
  BY DEF Counted, Places
<1>3. Undisturbed /\ BaselineIsGreen /\ StopIsRed /\ UpToHere
  BY DEF Undisturbed, BaselineIsGreen, StopIsRed, UpToHere
<1>4. Grounded
  BY DEF Grounded, Grounds
<1>5. VerdictIsEvidence
  BY DEF VerdictIsEvidence
<1> QED
  BY <1>1, <1>2, <1>3, <1>4, <1>5 DEF ProbeInv

(* Another worktree, for a baseline or for the next mutant.                *)
LEMMA MakeThrowawayKeeps ==
    ASSUME ProbeInv, MakeThrowaway
    PROVE  ProbeInv'
<1>0. /\ ProbeTypeOK /\ Counted /\ Places /\ Undisturbed /\ BaselineIsGreen /\ UpToHere /\ Grounded
      /\ stage = "add" /\ UNCHANGED <<catalog, world, outcomes, verdict, unremoved, unstarted>>
      /\ throwaway' = ref /\ trees' = trees + 1 /\ injected' = FALSE
  BY DEF ProbeInv, MakeThrowaway, Goes
<1>1. ref \in Commits /\ ref # Nil /\ throwaway = Nil /\ NumMutants \in Nat /\ mutant \in Nat
  BY <1>0, ProbeAssumption DEF ProbeTypeOK
<1>2. \/ /\ BaselineDone /\ stage' = "edit" /\ mutant' = mutant + 1
         /\ cmd' = cmdOf[mutant + 1] /\ toCheck' = toCheck
      \/ /\ ~ BaselineDone /\ stage' = "test" /\ mutant' = mutant
         /\ cmd' \in toCheck /\ toCheck' = toCheck \ {cmd'}
  BY DEF MakeThrowaway, Goes
<1>3. mutant' \in 0..NumMutants /\ cmd' \in Cmds /\ toCheck' \subseteq toCheck
  <2>1. CASE BaselineDone
    <3>1. mutant + 1 \in Mutants
      BY <1>0, <1>1 DEF Places, Mutants
    <3> QED
      BY <1>0, <1>1, <1>2, <2>1, <3>1 DEF ProbeTypeOK, Mutants
  <2>2. CASE ~ BaselineDone
    BY <1>0, <1>1, <1>2, <2>2 DEF ProbeTypeOK
  <2> QED
    BY <2>1, <2>2
<1>4. ProbeTypeOK'
  <2>1. /\ UNCHANGED <<cmdOf, applies, green, sees, ref, services, failures, disturbed>>
        /\ UNCHANGED <<outcomes, verdict, unremoved, unstarted>>
    BY <1>0 DEF catalog, world
  <2>2. stage' \in {"edit", "test"} /\ toCheck' \subseteq Cmds
    BY <1>0, <1>2, <1>3 DEF ProbeTypeOK
  <2>3. trees' \in Nat
    <3>1. trees \in Nat
      BY <1>0 DEF ProbeTypeOK
    <3> QED
      BY <1>0, <3>1
  <2>4. throwaway' \in Commits /\ throwaway' # Nil
    BY <1>0, <1>1
  <2>5. injected' \in BOOLEAN /\ {unstarted, disturbed}' \subseteq BOOLEAN
    BY <1>0, <2>1, Zenon DEF ProbeTypeOK
  <2> QED
    BY <1>0, <1>3, <2>1, <2>2, <2>3, <2>4, <2>5 DEF ProbeTypeOK, Running
<1>5. Counted'
  BY <1>0, <1>1 DEF Counted, ProbeTypeOK
<1>6. Places'
  <2>1. CASE BaselineDone
    BY <1>0, <1>1, <1>2, <2>1 DEF Places, BaselineDone, catalog
  <2>2. CASE ~ BaselineDone
    <3>1. mutant = 0
      BY <1>0, <2>2 DEF Places, BaselineDone
    <3> QED
      BY <1>0, <1>2, <2>2, <3>1 DEF Places, catalog
  <2> QED
    BY <2>1, <2>2
<1>7. Undisturbed'
  BY <1>0 DEF Undisturbed, world
<1>8. BaselineIsGreen'
  <2> SUFFICES ASSUME ~ disturbed', NEW m \in Mutants, cmdOf[m] \notin toCheck'
               PROVE  AtBaselineOf(cmdOf[m])' \/ ref \in green[cmdOf[m]]
    BY <1>0 DEF BaselineIsGreen, catalog, world
  <2>1. CASE cmdOf[m] \notin toCheck
    BY <1>0, <2>1 DEF BaselineIsGreen, AtBaselineOf, Running, world
  <2>2. CASE cmdOf[m] \in toCheck
    <3>1. ~ BaselineDone /\ cmdOf[m] = cmd' /\ mutant' = mutant /\ stage' = "test"
      BY <1>2, <2>2 DEF BaselineDone
    <3>2. mutant = 0
      BY <1>0, <3>1 DEF Places, BaselineDone
    <3> QED
      BY <1>0, <3>1, <3>2 DEF AtBaselineOf, catalog
  <2> QED
    BY <2>1, <2>2
<1>9. StopIsRed'
  BY <1>2 DEF StopIsRed
<1>10. UpToHere'
  BY <1>0, <1>1, <1>2 DEF UpToHere, Mutants
<1>11. Grounded'
  BY <1>0 DEF Grounded, Grounds, catalog, world
<1>12. VerdictIsEvidence'
  BY <1>0, <1>2, ProbeAssumption DEF ProbeTypeOK, VerdictIsEvidence
<1> QED
  BY <1>4, <1>5, <1>6, <1>7, <1>8, <1>9, <1>10, <1>11, <1>12 DEF ProbeInv

(* Steps that move the probe and leave what it has found.                  *)
LEMMA StageKeeps ==
    ASSUME ProbeInv, UNCHANGED <<catalog, world, probe>>,
           \/ stage \in {"edit", "test"} /\ stage' = "raise"
           \/ stage \in Running /\ stage' = "killed"
    PROVE  ProbeInv'
<1>0. /\ UNCHANGED <<cmdOf, applies, green, sees, ref, services, failures, disturbed>>
      /\ UNCHANGED <<toCheck, mutant, cmd, throwaway, injected, outcomes, verdict, trees>>
      /\ UNCHANGED <<unremoved, unstarted>>
      /\ ProbeTypeOK /\ Counted /\ Places /\ Undisturbed /\ BaselineIsGreen /\ Grounded
  BY DEF catalog, world, probe, ProbeInv
<1>1. ProbeTypeOK'
  BY <1>0 DEF ProbeTypeOK, Running, Ended
<1>2. Counted' /\ Places'
  BY <1>0 DEF Counted, Places
<1>3. Undisturbed' /\ StopIsRed' /\ UpToHere'
  BY <1>0 DEF Undisturbed, StopIsRed, UpToHere
<1>4. BaselineIsGreen'
  BY <1>0 DEF BaselineIsGreen, AtBaselineOf, Running, Places
<1>5. Grounded'
  BY <1>0 DEF Grounded, Grounds
<1>6. VerdictIsEvidence'
  BY <1>0, ProbeAssumption DEF ProbeTypeOK, VerdictIsEvidence, Running
<1> QED
  BY <1>1, <1>2, <1>3, <1>4, <1>5, <1>6 DEF ProbeInv

(* An error ends the probe: one worktree less, or one more left behind.    *)
LEMMA ErrorKeeps ==
    ASSUME ProbeInv, stage \in Running, stage' \in {"git_error", "uncaught"},
           throwaway' = Nil, NEW n \in Nat, trees' = n, unremoved' = n,
           UNCHANGED <<catalog, world, toCheck, mutant, cmd, injected, outcomes, verdict, unstarted>>
    PROVE  ProbeInv'
<1>0. /\ UNCHANGED <<cmdOf, applies, green, sees, ref, services, failures, disturbed>>
      /\ UNCHANGED <<toCheck, mutant, cmd, injected, outcomes, verdict, unstarted>>
      /\ ProbeTypeOK /\ Counted /\ Places /\ Undisturbed /\ BaselineIsGreen /\ Grounded
  BY DEF catalog, world, ProbeInv
<1>1. ProbeTypeOK'
  BY <1>0 DEF ProbeTypeOK, Running, Ended
<1>2. Counted'
  <2>1. trees' = unremoved' + 0
    OBVIOUS
  <2> QED
    BY <2>1 DEF Counted
<1>3. Places'
  BY <1>0 DEF Places
<1>4. Undisturbed' /\ StopIsRed' /\ UpToHere' /\ BaselineIsGreen'
  BY <1>0 DEF Undisturbed, StopIsRed, UpToHere, BaselineIsGreen, Running
<1>5. Grounded'
  BY <1>0 DEF Grounded, Grounds
<1>6. VerdictIsEvidence'
  BY <1>0, ProbeAssumption DEF ProbeTypeOK, VerdictIsEvidence, Running
<1> QED
  BY <1>1, <1>2, <1>3, <1>4, <1>5, <1>6 DEF ProbeInv

LEMMA AddErrorKeeps ==
    ASSUME ProbeInv, MakeThrowawayFails PROVE ProbeInv'
<1>1. stage = "add" /\ throwaway = Nil /\ trees = unremoved /\ trees \in Nat
  BY DEF MakeThrowawayFails, Goes, ProbeInv, ProbeTypeOK, Counted
<1> QED
  BY <1>1, ErrorKeeps DEF MakeThrowawayFails, Goes, Running

LEMMA DropErrorKeeps ==
    ASSUME ProbeInv, DropThrowawayFails PROVE ProbeInv'
<1>1. stage \in {"drop", "stop", "raise"} /\ trees = unremoved + 1 /\ trees \in Nat /\ unremoved \in Nat
  BY DEF DropThrowawayFails, ProbeInv, ProbeTypeOK, Counted
<1>2. trees' = unremoved' /\ unremoved' \in Nat
  BY <1>1 DEF DropThrowawayFails, Gone, LeftBehind
<1> QED
  BY <1>1, <1>2, ErrorKeeps DEF DropThrowawayFails, Goes, Running

(* The edits of the mutant: where they find nothing, that is the outcome.  *)
LEMMA ApplyMutantKeeps ==
    ASSUME ProbeInv, ApplyMutant
    PROVE  ProbeInv'
<1>0. /\ ProbeTypeOK /\ Counted /\ Places /\ Undisturbed /\ BaselineIsGreen /\ UpToHere /\ Grounded
      /\ stage = "edit" /\ stage' \in {"test", "drop"} /\ mutant # 0
      /\ UNCHANGED <<cmdOf, applies, green, sees, ref, services, failures, disturbed>>
      /\ UNCHANGED <<toCheck, mutant, cmd, throwaway, verdict, trees, unremoved, unstarted>>
  BY DEF ProbeInv, ApplyMutant, Goes, catalog, world, Places
<1>1. \/ /\ stage' = "test" /\ throwaway \in applies[mutant] /\ injected' = TRUE
         /\ outcomes' = outcomes
      \/ /\ stage' = "drop" /\ throwaway \notin applies[mutant] /\ injected' \in BOOLEAN
         /\ outcomes' = [outcomes EXCEPT ![mutant] = "apply_failed"]
  BY DEF ApplyMutant, Goes, Outcome
<1>2. mutant \in Mutants /\ mutant \in Nat /\ NumMutants \in Nat
  BY <1>0, ProbeAssumption DEF ProbeTypeOK, Mutants
<1>3. outcomes' \in [Mutants -> Outcomes \cup {Nil}]
  BY <1>0, <1>1 DEF ProbeTypeOK, Outcomes
<1>4. ProbeTypeOK'
  BY <1>0, <1>1, <1>3 DEF ProbeTypeOK, Running, Ended
<1>5. Counted' /\ Places' /\ Undisturbed' /\ StopIsRed'
  BY <1>0, <1>1 DEF Counted, Places, Undisturbed, StopIsRed
<1>6. BaselineIsGreen'
  BY <1>0 DEF BaselineIsGreen, AtBaselineOf, Running
<1>7. UpToHere'
  <2>1. CASE stage' = "test"
    BY <1>0, <1>1, <2>1 DEF UpToHere
  <2>2. CASE stage' = "drop"
    <3>1. \A m \in Mutants : outcomes'[m] = IF m = mutant THEN "apply_failed" ELSE outcomes[m]
      BY <1>0, <1>1, <2>2 DEF ProbeTypeOK
    <3>2. "apply_failed" # Nil
      BY ProbeAssumption
    <3> QED
      BY <1>0, <2>2, <3>1, <3>2 DEF UpToHere
  <2> QED
    BY <1>0, <2>1, <2>2
<1>8. Grounded'
  <2> SUFFICES ASSUME ~ disturbed', NEW m \in Mutants
               PROVE  Grounds(m)'
    BY DEF Grounded
  <2>1. Grounds(m)
    BY <1>0 DEF Grounded
  <2>2. CASE outcomes'[m] = outcomes[m]
    BY <1>0, <2>1, <2>2 DEF Grounds
  <2>3. CASE m = mutant /\ outcomes'[m] = "apply_failed" /\ throwaway \notin applies[mutant]
    <3>1. throwaway = ref
      BY <1>0 DEF Undisturbed, ProbeTypeOK
    <3> QED
      BY <1>0, <2>3, <3>1 DEF Grounds
  <2> QED
    BY <1>0, <1>1, <2>2, <2>3 DEF ProbeTypeOK
<1>9. VerdictIsEvidence'
  BY <1>0, ProbeAssumption DEF ProbeTypeOK, VerdictIsEvidence
<1> QED
  BY <1>4, <1>5, <1>6, <1>7, <1>8, <1>9 DEF ProbeInv

(* A command of the baseline: what is done with is green, what stops the   *)
(* probe is red or has not started.                                        *)
LEMMA BaselineKeeps ==
    ASSUME ProbeInv, RunTest, mutant = 0
    PROVE  ProbeInv'
<1>0. /\ ProbeTypeOK /\ Counted /\ Places /\ Undisturbed /\ BaselineIsGreen /\ UpToHere /\ Grounded
      /\ stage = "test" /\ outcomes' = outcomes
      /\ UNCHANGED <<cmdOf, applies, green, sees, ref, services, failures, disturbed>>
      /\ UNCHANGED <<toCheck, mutant, cmd, throwaway, injected, verdict, trees, unremoved>>
  BY DEF ProbeInv, RunTest, Goes, catalog, world
<1>1. \/ Passes /\ stage' = "drop" /\ unstarted' = unstarted
      \/ ~ Passes /\ stage' = "stop" /\ unstarted' = unstarted
      \/ stage' = "stop" /\ unstarted' = TRUE
  BY DEF RunTest, Goes
<1>2. /\ unstarted' \in BOOLEAN
      /\ stage' \in {"drop", "stop"}
  BY <1>0, <1>1 DEF ProbeTypeOK
<1>3. ProbeTypeOK'
  BY <1>0, <1>2 DEF ProbeTypeOK, Running, Ended
<1>4. Counted' /\ Places' /\ Undisturbed'
  BY <1>0, <1>2 DEF Counted, Places, Undisturbed
<1>5. ~ disturbed => services = "up" /\ throwaway = ref /\ ~ injected
  BY <1>0 DEF Undisturbed, ProbeTypeOK, Places
<1>6. BaselineIsGreen'
  <2> SUFFICES ASSUME ~ disturbed', NEW m \in Mutants, cmdOf[m] \notin toCheck
               PROVE  AtBaselineOf(cmdOf[m])' \/ ref \in green[cmdOf[m]]
    BY <1>0 DEF BaselineIsGreen
  <2>1. CASE ~ AtBaselineOf(cmdOf[m])
    BY <1>0, <2>1 DEF BaselineIsGreen, Running
  <2>2. CASE AtBaselineOf(cmdOf[m]) /\ stage' = "stop"
    BY <1>0, <2>2 DEF AtBaselineOf
  <2>3. CASE AtBaselineOf(cmdOf[m]) /\ Passes
    BY <1>0, <1>5, <2>3 DEF AtBaselineOf, Passes
  <2> QED
    BY <1>1, <2>1, <2>2, <2>3
<1>7. StopIsRed'
  BY <1>0, <1>1, <1>5 DEF StopIsRed, Passes
<1>8. UpToHere'
  BY <1>0, <1>2, ProbeAssumption DEF UpToHere, Mutants
<1>9. Grounded'
  BY <1>0, <1>1 DEF Grounded, Grounds
<1>10. VerdictIsEvidence'
  BY <1>0, <1>2, ProbeAssumption DEF ProbeTypeOK, VerdictIsEvidence
<1> QED
  BY <1>3, <1>4, <1>6, <1>7, <1>8, <1>9, <1>10 DEF ProbeInv

(* The command of a mutant: undisturbed, it can only fail because of it.   *)
LEMMA TestKeeps ==
    ASSUME ProbeInv, RunTest, mutant # 0
    PROVE  ProbeInv'
<1>0. /\ ProbeTypeOK /\ Counted /\ Places /\ Undisturbed /\ BaselineIsGreen /\ UpToHere /\ Grounded
      /\ stage = "test" /\ stage' = "drop"
      /\ UNCHANGED <<cmdOf, applies, green, sees, ref, services, failures, disturbed>>
      /\ UNCHANGED <<toCheck, mutant, cmd, throwaway, injected, verdict, trees, unremoved>>
  BY DEF ProbeInv, RunTest, Goes, catalog, world
<1>1. PICK o \in {"survived", "killed", "error"} :
          /\ outcomes' = [outcomes EXCEPT ![mutant] = o]
          /\ \/ o = "survived" /\ Passes /\ unstarted' = unstarted
             \/ o = "killed" /\ ~ Passes /\ unstarted' = unstarted
             \/ o = "error" /\ unstarted' = TRUE
  BY DEF RunTest, Goes, Outcome
<1>2. mutant \in Mutants /\ mutant \in Nat /\ NumMutants \in Nat
  BY <1>0, ProbeAssumption DEF ProbeTypeOK, Mutants
<1>3. /\ outcomes' \in [Mutants -> Outcomes \cup {Nil}]
      /\ \A m \in Mutants : outcomes'[m] = IF m = mutant THEN o ELSE outcomes[m]
      /\ unstarted' \in BOOLEAN /\ o # Nil
  BY <1>0, <1>1, ProbeAssumption DEF ProbeTypeOK, Outcomes
<1>4. ProbeTypeOK'
  BY <1>0, <1>3 DEF ProbeTypeOK, Running, Ended
<1>5. Counted' /\ Places' /\ Undisturbed' /\ StopIsRed'
  BY <1>0 DEF Counted, Places, Undisturbed, StopIsRed
<1>6. BaselineIsGreen'
  BY <1>0 DEF BaselineIsGreen, AtBaselineOf, Running
<1>7. UpToHere'
  BY <1>0, <1>3 DEF UpToHere
<1>8. Grounded'
  <2> SUFFICES ASSUME ~ disturbed', NEW m \in Mutants
               PROVE  Grounds(m)'
    BY DEF Grounded
  <2>1. Grounds(m)
    BY <1>0 DEF Grounded
  <2>2. CASE m # mutant
    BY <1>0, <1>1, <1>3, <2>1, <2>2 DEF Grounds
  <2>3. CASE m = mutant
    <3>1. /\ services = "up" /\ throwaway = ref /\ injected /\ cmd = cmdOf[m] /\ ref \in applies[m]
      BY <1>0, <2>3 DEF Undisturbed, ProbeTypeOK, Places
    <3>2. ref \in green[cmdOf[m]]
      BY <1>0, <1>2 DEF BaselineIsGreen, AtBaselineOf, Running, Places
    <3>3. Passes <=> ref \notin sees[m]
      BY <2>3, <3>1, <3>2 DEF Passes
    <3> QED
      BY <1>0, <1>1, <1>3, <2>3, <3>1, <3>2, <3>3 DEF Grounds
  <2> QED
    BY <2>2, <2>3
<1>9. VerdictIsEvidence'
  BY <1>0, ProbeAssumption DEF ProbeTypeOK, VerdictIsEvidence
<1> QED
  BY <1>4, <1>5, <1>6, <1>7, <1>8, <1>9 DEF ProbeInv

(* The worktree goes, and with the last one comes the report.              *)
LEMMA DropThrowawayKeeps ==
    ASSUME ProbeInv, DropThrowaway
    PROVE  ProbeInv'
<1>0. /\ ProbeTypeOK /\ Counted /\ Places /\ Undisturbed /\ BaselineIsGreen /\ StopIsRed
      /\ UpToHere /\ Grounded
      /\ stage \in {"drop", "stop", "raise"} /\ stage' = AfterDrop /\ throwaway' = Nil
      /\ UNCHANGED <<cmdOf, applies, green, sees, ref, services, failures, disturbed>>
      /\ UNCHANGED <<toCheck, mutant, cmd, injected, outcomes, unstarted>>
  BY DEF ProbeInv, DropThrowaway, Goes, catalog, world
<1>1. \/ stage = "stop" /\ stage' = "over"
      \/ stage = "raise" /\ stage' = "uncaught"
      \/ stage = "drop" /\ mutant = NumMutants /\ stage' = "over"
      \/ stage = "drop" /\ mutant # NumMutants /\ stage' = "add"
  BY <1>0 DEF AfterDrop
<1>2. \/ stage' # "over" /\ verdict' = Nil
      \/ stage = "stop" /\ stage' = "over" /\ verdict' = "fail"
      \/ /\ stage = "drop" /\ mutant = NumMutants /\ stage' = "over"
         /\ verdict' = IF AllKilled THEN "pass" ELSE "fail"
  <2>1. Report
    BY DEF DropThrowaway
  <2>2. CASE stage = "stop"
    BY <1>0, <1>1, <2>1, <2>2 DEF Report
  <2>3. CASE stage = "raise"
    BY <1>0, <1>1, <2>1, <2>3 DEF Report
  <2>4. CASE stage = "drop" /\ stage' = "add"
    BY <1>0, <1>1, <2>1, <2>4 DEF Report
  <2>5. CASE stage = "drop" /\ stage' = "over"
    BY <1>0, <1>1, <2>1, <2>5 DEF Report
  <2> QED
    BY <1>1, <2>2, <2>3, <2>4, <2>5
<1>3. throwaway # Nil /\ trees = unremoved + 1 /\ unremoved \in Nat
  BY <1>0 DEF ProbeTypeOK, Counted
<1>4. /\ trees' \in Nat /\ unremoved' \in Nat
      /\ trees' = unremoved' + 0
  BY <1>3 DEF DropThrowaway, Gone, LeftBehind
<1>5. ProbeTypeOK'
  <2>1. /\ stage' \in {"add", "over", "uncaught"} /\ stage' \in Running \cup Ended
        /\ verdict' \in {"pass", "fail", Nil} /\ (verdict' # Nil <=> stage' = "over")
    BY <1>1, <1>2, ProbeAssumption DEF Running, Ended
  <2>2. {unstarted, disturbed}' \subseteq BOOLEAN
    BY <1>0 DEF ProbeTypeOK
  <2> QED
    BY <1>0, <1>4, <2>1, <2>2 DEF ProbeTypeOK
<1>6. Counted'
  BY <1>0, <1>4 DEF Counted
<1>7. Places'
  <2>1. stage' = "add" => mutant < NumMutants
    <3>1. mutant \in 0..NumMutants /\ NumMutants \in Nat
      BY <1>0, ProbeAssumption DEF ProbeTypeOK
    <3> QED
      BY <1>1, <3>1
  <2> QED
    BY <1>0, <1>1, <2>1 DEF Places
<1>8. Undisturbed' /\ StopIsRed'
  BY <1>0, <1>1 DEF Undisturbed, StopIsRed
<1>9. BaselineIsGreen'
  BY <1>0, <1>1 DEF BaselineIsGreen, AtBaselineOf, Running
<1>10. UpToHere'
  BY <1>0, <1>1 DEF UpToHere
<1>11. Grounded'
  BY <1>0 DEF Grounded, Grounds
<1>12. VerdictIsEvidence'
  <2> DEFINE proven == {m \in Mutants : ref \in applies[m] \cap green[cmdOf[m]] \cap sees[m]}
  <2> SUFFICES ASSUME ~ disturbed
               PROVE  /\ verdict' = "pass" => proven = Mutants
                      /\ verdict' = "fail" => proven # Mutants \/ unstarted
    BY <1>0 DEF VerdictIsEvidence
  <2>1. CASE stage' # "over" /\ verdict' = Nil
    BY <2>1, ProbeAssumption
  <2>2. CASE stage = "stop" /\ verdict' = "fail"
    <3>1. PICK m \in Mutants : cmd = cmdOf[m]
      BY <1>0, <2>2 DEF Places
    <3>2. unstarted \/ ref \notin green[cmdOf[m]]
      BY <1>0, <2>2, <3>1 DEF StopIsRed
    <3> QED
      BY <2>2, <3>2
  <2>3. CASE /\ stage = "drop" /\ mutant = NumMutants
             /\ verdict' = IF AllKilled THEN "pass" ELSE "fail"
    <3>1. CASE AllKilled
      <4>1. \A m \in Mutants : m \in proven
        BY <1>0, <3>1 DEF AllKilled, Grounded, Grounds
      <4> QED
        BY <2>3, <3>1, <4>1
    <3>2. CASE ~ AllKilled
      <4>1. PICK m \in Mutants : outcomes[m] # "killed"
        BY <3>2 DEF AllKilled
      <4>2. outcomes[m] # Nil
        BY <1>0, <2>3, ProbeAssumption DEF UpToHere, Mutants
      <4>3. outcomes[m] \in {"survived", "apply_failed", "error"}
        BY <1>0, <4>1, <4>2 DEF ProbeTypeOK, Outcomes
      <4>4. m \notin proven \/ unstarted
        BY <1>0, <4>3 DEF Grounded, Grounds
      <4> QED
        BY <2>3, <3>2, <4>4
    <3> QED
      BY <3>1, <3>2
  <2> QED
    BY <1>2, <2>1, <2>2, <2>3
<1> QED
  BY <1>5, <1>6, <1>7, <1>8, <1>9, <1>10, <1>11, <1>12 DEF ProbeInv

(* Once disturbed, nothing is claimed of the verdict any more.             *)
LEMMA DisturbanceKeeps ==
    ASSUME ProbeInv, RefMoves \/ ServicesFail \/ ServicesRecover
    PROVE  ProbeInv'
<1>0. /\ ProbeTypeOK /\ Counted /\ Places /\ Undisturbed /\ UpToHere
      /\ disturbed' = TRUE
      /\ UNCHANGED <<cmdOf, applies, green, sees, stage>>
      /\ UNCHANGED <<toCheck, mutant, cmd, throwaway, injected, outcomes, verdict, trees>>
      /\ UNCHANGED <<unremoved, unstarted>>
  BY DEF ProbeInv, RefMoves, ServicesFail, ServicesRecover, catalog, probe, Undisturbed,
     ProbeTypeOK
<1>1. ref' \in Commits /\ services' \in {"up", "down"} /\ failures' \in Nat
  <2>1. MaxMoves \in Nat /\ ref \in 0..MaxMoves /\ failures \in Nat /\ services \in {"up", "down"}
    BY <1>0, ProbeAssumption DEF ProbeTypeOK, Commits
  <2> QED
    BY <2>1 DEF RefMoves, ServicesFail, ServicesRecover, Commits
<1>2. ProbeTypeOK'
  BY <1>0, <1>1 DEF ProbeTypeOK
<1>3. Counted' /\ Places' /\ UpToHere'
  BY <1>0 DEF Counted, Places, UpToHere
<1>4. Undisturbed' /\ BaselineIsGreen' /\ StopIsRed' /\ Grounded' /\ VerdictIsEvidence'
  BY <1>0 DEF Undisturbed, BaselineIsGreen, StopIsRed, Grounded, VerdictIsEvidence
<1> QED
  BY <1>2, <1>3, <1>4 DEF ProbeInv

(* Nothing changes when nothing happens to the probe. *)
LEMMA ProbeStutters == ProbeInv /\ UNCHANGED probeVars => ProbeInv'
<1> SUFFICES ASSUME ProbeInv, UNCHANGED probeVars
             PROVE  ProbeInv'
  OBVIOUS
<1>0. /\ UNCHANGED <<cmdOf, applies, green, sees, ref, services, failures, disturbed, stage>>
      /\ UNCHANGED <<toCheck, mutant, cmd, throwaway, injected, outcomes, verdict, trees>>
      /\ UNCHANGED <<unremoved, unstarted>>
  BY DEF probeVars, catalog, world, probe
<1>1. ProbeTypeOK' /\ Counted' /\ Places'
  BY <1>0 DEF ProbeInv, ProbeTypeOK, Counted, Places
<1>2. Undisturbed' /\ BaselineIsGreen' /\ StopIsRed' /\ UpToHere'
  BY <1>0 DEF ProbeInv, Undisturbed, BaselineIsGreen, AtBaselineOf, StopIsRed, UpToHere
<1>3. Grounded' /\ VerdictIsEvidence'
  BY <1>0 DEF ProbeInv, Grounded, Grounds, VerdictIsEvidence
<1> QED
  BY <1>1, <1>2, <1>3 DEF ProbeInv

(* Each action has its lemma. *)
LEMMA ProbeInvariance == ProbeSpec => []ProbeInv
<1>1. ASSUME ProbeInv, ProbeNext
      PROVE  ProbeInv'
  <2>1. CASE MakeThrowaway
    BY <1>1, <2>1, MakeThrowawayKeeps
  <2>2. CASE ApplyMutantRaises \/ RunTestRaises \/ Killed
    BY <1>1, <2>2, StageKeeps DEF ApplyMutantRaises, RunTestRaises, Killed, Goes
  <2>3. CASE ApplyMutant
    BY <1>1, <2>3, ApplyMutantKeeps
  <2>4. CASE RunTest
    BY <1>1, <2>4, BaselineKeeps, TestKeeps
  <2>5. CASE DropThrowaway
    BY <1>1, <2>5, DropThrowawayKeeps
  <2>6. CASE RefMoves \/ ServicesFail \/ ServicesRecover
    BY <1>1, <2>6, DisturbanceKeeps
  <2>7. CASE MakeThrowawayFails \/ DropThrowawayFails
    BY <1>1, <2>7, AddErrorKeeps, DropErrorKeeps
  <2> QED
    BY <1>1, <2>1, <2>2, <2>3, <2>4, <2>5, <2>6, <2>7 DEF ProbeNext, RunProbe
<1>2. ProbeInv /\ [ProbeNext]_probeVars => ProbeInv'
  BY <1>1, ProbeStutters
<1> QED
  BY ProbeInitOK, <1>2, PTL DEF ProbeSpec

(* The variables of the mutation probe keep their types, and it has a      *)
(* worktree at each step that uses one, and a verdict exactly when it is   *)
(* over (run_probe).                                                       *)
THEOREM ProbeTypeCorrectness == ProbeSpec => []ProbeTypeOK
<1>1. ProbeInv => ProbeTypeOK
  BY DEF ProbeInv
<1> QED
  BY ProbeInvariance, <1>1, PTL

(* Undisturbed, the verdict of the mutation probe is evidence, for any     *)
(* catalog and any commands: a pass needs every mutant to apply, and its   *)
(* command to be green without it and red with it (run_probe).             *)
THEOREM VerdictsAreEvidence == ProbeSpec => []VerdictIsEvidence
<1>1. ProbeInv => VerdictIsEvidence
  BY DEF ProbeInv
<1> QED
  BY ProbeInvariance, <1>1, PTL

(* However the probe ends, only a worktree whose removal failed, one whose *)
(* making git has reported in no text, or the one in use when it was       *)
(* killed, is left (_drop_throwaway in a finally).                         *)
THEOREM ProbeLeavesNothing == ProbeSpec => []NothingLeft
<1>1. ProbeInv => NothingLeft
  BY DEF ProbeInv, Counted, NothingLeft
<1> QED
  BY ProbeInvariance, <1>1, PTL

=============================================================================
