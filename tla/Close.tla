------------------------------- MODULE Close -------------------------------
(***************************************************************************)
(* Closing a feature: `close run` takes the feature branch through eight   *)
(* steps (close_harness/harness.py), the review among them (C5), and the   *)
(* last of which is the merge gate (C6), which a user may also run by hand *)
(* with the reports of earlier runs.  Nothing locks the repository: every  *)
(* git command looks a branch up afresh, while the branch, the main branch *)
(* and the blocks move on.                                                 *)
(*                                                                         *)
(* A commit is known by how many commits of the feature and how many of    *)
(* others it has; its tree is known by the same.  The feature branch is    *)
(* only ever added to or rebased: that is what the coordinator does.       *)
(***************************************************************************)
EXTENDS Naturals

CONSTANTS
    Procs,          \* runs of `close run` and `gate run`
    None,
    Torn,           \* what a file holds into which two runs have written at once
    PullRequest,    \* does gh know a pull request of the feature branch?
    MayBeDry,       \* the kinds of run that a user may ask to be dry
    MaxFeature,     \* bound: commits on the feature branch
    MaxOthers       \* bound: commits of others on main

ASSUME CloseAssumption ==
    /\ PullRequest \in BOOLEAN
    /\ MayBeDry \subseteq {"close", "branch", "pr"}
    /\ MaxFeature \in Nat
    /\ MaxOthers \in Nat
    /\ {None, Torn} \cap [f : Nat, o : Nat] = {}
    /\ None \notin {"pass", "fail", "approve", "block"}

Commits == [f : Nat, o : Nat]

(* git merge-base --is-ancestor b a *)
Contains(a, b) == a.f >= b.f /\ a.o >= b.o

VARIABLES
    remote,         \* main in the origin repository
    tracking,       \* origin/main
    local,          \* refs/heads/main
    feature,        \* the feature branch
    prHead,         \* the head of its pull request
    block,          \* the block file of the feature
    label,          \* does the pull request carry human:block?
    diffFile,       \* the feature head whose diff feature_diff.patch holds, Torn for
                    \* parts of two
    taken,          \* the feature head whose diff a run holds and has not written yet
    pc,
    how,            \* "close", or the gate by hand for the "branch" or the "pr"
    dry,            \* --gate-dry-run, --dry-run
    vr,             \* verify_report
    rr,             \* review_report
    sha,            \* pr_sha in the gate
    mergeable,      \* ff_mergeable
    verdict,        \* of the close report or the gate report
    since,          \* history: the feature branch when a close run began, and the diffs
                    \* other runs held then, until its authorization is checked
    pushed,         \* history: what the run pushed to main
    stood           \* history: the runs whose block has stood since they began

Ended == {"over", "dead"}

refs == <<remote, tracking, local, feature, prHead>>
blocks == <<block, label>>
params == <<how, dry, since>>
diff == <<diffFile, taken>>
reports == <<vr, rr>>
vars == <<refs, blocks, params, reports, diff, pc, sha, mergeable, verdict, pushed, stood>>

NoVerify == [tree |-> None, verdict |-> None]
NoReview == [tree |-> None, diff |-> None, ofPR |-> FALSE, verdict |-> None]

Init ==
    /\ remote = [f |-> 0, o |-> 0]
    /\ tracking = remote
    /\ local = remote
    /\ feature = [f |-> 1, o |-> 0]
    /\ prHead = feature
    /\ block = "clear"
    /\ label = FALSE
    /\ diffFile = None
    /\ pc = [p \in Procs |-> "new"]
    /\ how = [p \in Procs |-> "close"]
    /\ dry = [p \in Procs |-> FALSE]
    /\ vr = [p \in Procs |-> NoVerify]
    /\ rr = [p \in Procs |-> NoReview]
    /\ sha = [p \in Procs |-> None]
    /\ mergeable = [p \in Procs |-> FALSE]
    /\ verdict = [p \in Procs |-> None]
    /\ taken = [p \in Procs |-> None]
    /\ since = [p \in Procs |-> {}]
    /\ pushed = [p \in Procs |-> None]
    /\ stood = {}

-----------------------------------------------------------------------------
Goes(p, from, to) ==
    /\ pc[p] = from
    /\ pc' = [pc EXCEPT ![p] = to]
    /\ verdict' = verdict

(* The run writes its report and ends. *)
Ends(p, from, v) ==
    /\ pc[p] = from
    /\ pc' = [pc EXCEPT ![p] = "over"]
    /\ verdict' = [verdict EXCEPT ![p] = v]

(* A CloseError or a GateContractError, or the run is killed: no report. *)
Fails(p, from) == Goes(p, from, "dead")

MaySetDry(p, h) ==
    \E d \in IF h \in MayBeDry THEN BOOLEAN ELSE {FALSE} : dry' = [dry EXCEPT ![p] = d]

(* Mutant: a block file that cannot be read is taken for none. *)
HumanBlockOrUnreadable(p) ==
    \/ block \in {"clear", "unreadable"} /\ Goes(p, "new", "acgate")
    \/ block = "blocked" /\ Ends(p, "new", "blocked")

(* Step 1.  A block file that cannot be read counts as a block. *)
HumanBlock(p) ==
    \/ block = "clear" /\ Goes(p, "new", "acgate")
    \/ block = "blocked" /\ Ends(p, "new", "blocked")
    \/ block = "unreadable" /\ Fails(p, "new")

(* The runs that have taken a diff and not written it yet. *)
Holding == {q \in Procs : pc[q] \in {"authz_open", "authz_write"}}

StartClose(p) ==
    /\ HumanBlock(p)
    /\ MaySetDry(p, "close")
    /\ how' = [how EXCEPT ![p] = "close"]
    /\ since' = [since EXCEPT ![p] = {feature} \cup {taken[q] : q \in Holding}]
    /\ stood' = IF block = "clear" THEN stood ELSE stood \cup {p}
    /\ UNCHANGED <<refs, blocks, reports, diff, sha, mergeable, pushed>>

(* A check passes, or is skipped where its input may be missing; or it     *)
(* finds something; or it raises.                                          *)
Check(p, step, next) ==
    /\ Goes(p, step, next) \/ Ends(p, step, "held") \/ Fails(p, step)
    /\ UNCHANGED <<refs, blocks, params, reports, diff, sha, mergeable, pushed, stood>>

AcGate(p) == Check(p, "acgate", "authz")

SeamLint(p) == Check(p, "seamlint", "mutation")

Mutation(p) == Check(p, "mutation", "verify")

(* The diff is taken first, and then goes to a file that all runs for the  *)
(* feature share: opening it empties it.                                   *)
TakeFeatureDiff(p) ==
    /\ \/ Goes(p, "authz", "authz_open") /\ taken' = [taken EXCEPT ![p] = feature]
       \/ Ends(p, "authz", "held") /\ taken' = taken      \* no authorization.yaml
       \/ Fails(p, "authz") /\ taken' = taken
    /\ UNCHANGED <<refs, blocks, params, reports, diffFile, sha, mergeable, pushed, stood>>

(* Mutant: the file of another run is taken for one's own. *)
OpenFeatureDiffOrKeep(p) ==
    /\ \/ Goes(p, "authz_open", "authz_write") /\ diffFile' = None /\ taken' = taken
       \/ /\ diffFile # None
          /\ Goes(p, "authz_open", "authz_check")
          /\ taken' = [taken EXCEPT ![p] = None]
          /\ diffFile' = diffFile
    /\ UNCHANGED <<refs, blocks, params, reports, sha, mergeable, pushed, stood>>

OpenFeatureDiff(p) ==
    /\ Goes(p, "authz_open", "authz_write")
    /\ diffFile' = None
    /\ UNCHANGED <<refs, blocks, params, reports, taken, sha, mergeable, pushed, stood>>

(* Where another run has written since, the end of its longer diff stays.  *)
WriteFeatureDiff(p) ==
    /\ Goes(p, "authz_write", "authz_check")
    /\ diffFile' \in {taken[p]} \cup (IF diffFile = None THEN {} ELSE {Torn})
    /\ taken' = [taken EXCEPT ![p] = None]
    /\ UNCHANGED <<refs, blocks, params, reports, sha, mergeable, pushed, stood>>

Authz(p) ==
    /\ \/ Goes(p, "authz_check", "seamlint")
       \/ Ends(p, "authz_check", "held")
       \/ Fails(p, "authz_check")
    /\ since' = [since EXCEPT ![p] = {}]
    /\ UNCHANGED <<refs, blocks, how, dry, reports, diff, sha, mergeable, pushed, stood>>

(* The detached worktree that verify_cmd runs in is of one commit, and it  *)
(* is that commit's tree the report is stamped with.                       *)
CheckOut(p) ==
    /\ \/ /\ Goes(p, "verify", "verify_cmd")
          /\ vr' = [vr EXCEPT ![p].tree = feature]
       \/ Fails(p, "verify") /\ vr' = vr
    /\ UNCHANGED <<refs, blocks, params, rr, diff, sha, mergeable, pushed, stood>>

RunVerifyCmd(p) ==
    /\ \/ /\ Goes(p, "verify_cmd", "review")
          /\ vr' = [vr EXCEPT ![p].verdict = "pass"]
       \/ /\ Ends(p, "verify_cmd", "held")
          /\ vr' = [vr EXCEPT ![p].verdict = "fail"]
    /\ UNCHANGED <<refs, blocks, params, rr, diff, sha, mergeable, pushed, stood>>

(* gh is asked first, also for the name of a branch. *)
FetchPrDiff(p) ==
    /\ \/ /\ Goes(p, "review", "ticket")
          /\ \/ rr' = [rr EXCEPT ![p].diff = feature]
             \/ PullRequest /\ rr' = [rr EXCEPT ![p].diff = prHead, ![p].ofPR = TRUE]
       \/ Fails(p, "review") /\ rr' = rr
    /\ UNCHANGED <<refs, blocks, params, vr, diff, sha, mergeable, pushed, stood>>

StampReview(p) ==
    /\ Goes(p, "ticket", "session")
    /\ rr' = [rr EXCEPT ![p].tree = feature]
    /\ UNCHANGED <<refs, blocks, params, vr, diff, sha, mergeable, pushed, stood>>

ReviewSession(p) ==
    /\ \/ /\ Goes(p, "session", "gate")
          /\ rr' = [rr EXCEPT ![p].verdict = "approve"]
       \/ /\ Ends(p, "session", "held")
          /\ rr' = [rr EXCEPT ![p].verdict = "block"]
       \/ Fails(p, "session") /\ rr' = rr          \* it timed out, or crashed
    /\ UNCHANGED <<refs, blocks, params, vr, diff, sha, mergeable, pushed, stood>>

-----------------------------------------------------------------------------
(* `gate run` by hand, with a verify report and a review report that are   *)
(* on disk, of the same run or not.                                        *)
StartGate(p) ==
    /\ \E h \in {"branch", "pr"} :
        /\ h = "pr" => PullRequest
        /\ how' = [how EXCEPT ![p] = h]
        /\ MaySetDry(p, h)
        /\ stood' = IF h = "pr" /\ label THEN stood \cup {p} ELSE stood
    /\ \E q \in {q \in Procs : vr[q].verdict # None}, r \in {r \in Procs : rr[r].verdict # None} :
        /\ vr' = [vr EXCEPT ![p] = vr[q]]
        /\ rr' = [rr EXCEPT ![p] = rr[r]]
    /\ Goes(p, "new", "gate")
    /\ UNCHANGED <<refs, blocks, since, diff, sha, mergeable, pushed>>

(* resolve_pr_sha, which asks gh about a pull request and git otherwise. *)
Head(p) == IF how[p] = "pr" THEN prHead ELSE feature

(* Both reports must carry the tree that is being merged. *)
Fresh(p, tree) == vr[p].tree = tree /\ rr[p].tree = tree

ResolvePrSha(p) ==
    /\ sha' = [sha EXCEPT ![p] = Head(p)]
    /\ \/ Fresh(p, Head(p)) /\ Goes(p, "gate", "ff_fetch")
       \/ ~ Fresh(p, Head(p)) /\ Fails(p, "gate")
       \/ how[p] = "pr" /\ Fails(p, "gate")                    \* gh gives no answer
    /\ UNCHANGED <<refs, blocks, params, reports, diff, mergeable, pushed, stood>>

(* A fetch that fails here is ignored. *)
ProbeBase(p) ==
    /\ Goes(p, "ff_fetch", "ff_check")
    /\ tracking' \in {remote, tracking}
    /\ UNCHANGED <<remote, local, feature, prHead, blocks, params, reports, diff, sha, mergeable,
                   pushed, stood>>

(* Mutant: a head that cannot be resolved is passed on. *)
IsFfMergeableUnresolved(p) ==
    /\ Goes(p, "ff_check", "rules")
    /\ \/ mergeable' = [mergeable EXCEPT ![p] = Contains(Head(p), tracking)]
       \/ how[p] = "pr" /\ mergeable' = [mergeable EXCEPT ![p] = None]
    /\ UNCHANGED <<refs, blocks, params, reports, diff, sha, pushed, stood>>

(* The head is looked up a second time; unknown counts as not mergeable. *)
IsFfMergeable(p) ==
    /\ Goes(p, "ff_check", "rules")
    /\ \/ mergeable' = [mergeable EXCEPT ![p] = Contains(Head(p), tracking)]
       \/ how[p] = "pr" /\ mergeable' = [mergeable EXCEPT ![p] = FALSE]
    /\ UNCHANGED <<refs, blocks, params, reports, diff, sha, pushed, stood>>

(* The four rules, in the order of precedence of their reasons. *)
Reason(p, blocked) ==
    CASE blocked -> "HUMAN_BLOCKED"
      [] ~ blocked /\ vr[p].verdict # "pass" -> "VERIFY_NOT_PASS"
      [] ~ blocked /\ vr[p].verdict = "pass" /\ rr[p].verdict # "approve" -> "REVIEW_NOT_APPROVE"
      [] ~ blocked /\ vr[p].verdict = "pass" /\ rr[p].verdict = "approve" ->
            IF mergeable[p] THEN "none" ELSE "NOT_FF_MERGEABLE"

Judge(p, reason) ==
    \/ reason \in {"HUMAN_BLOCKED", "VERIFY_NOT_PASS", "NOT_FF_MERGEABLE"} /\ Ends(p, "rules", "held")
    \/ reason = "REVIEW_NOT_APPROVE" /\ dry[p] /\ Ends(p, "rules", "held")
    \/ reason = "REVIEW_NOT_APPROVE" /\ ~ dry[p] /\ Goes(p, "rules", "recovery")
    \/ reason = "none" /\ dry[p] /\ Ends(p, "rules", "merged")
    \/ reason = "none" /\ ~ dry[p] /\ Goes(p, "rules", "fetch")

(* Only a pull request has labels; if gh does not answer there is none. *)
EvaluateRules(p) ==
    /\ \/ Judge(p, Reason(p, how[p] = "pr" /\ label)) /\ stood' = stood
       \/ how[p] = "pr" /\ Judge(p, Reason(p, FALSE)) /\ stood' = stood \ {p}
    /\ UNCHANGED <<refs, blocks, params, reports, diff, sha, mergeable, pushed>>

(* R1: the label, then the comment, whose failure changes nothing.  There  *)
(* is no R1 for a branch.                                                  *)
R1Recovery(p) ==
    /\ \/ /\ how[p] = "pr"
          /\ Ends(p, "recovery", "held")
          /\ label' = TRUE
       \/ Fails(p, "recovery") /\ label' = label
    /\ UNCHANGED <<refs, block, params, reports, diff, sha, mergeable, pushed, stood>>

FetchBase(p) ==
    /\ \/ Goes(p, "fetch", "push") /\ tracking' = remote
       \/ Fails(p, "fetch") /\ tracking' = tracking
    /\ UNCHANGED <<remote, local, feature, prHead, blocks, params, reports, diff, sha, mergeable,
                   pushed, stood>>

(* The remote takes fast-forwards only. *)
Accepts(c) == Contains(c, remote)

(* Mutant: it is the branch that is pushed. *)
PushBranch(p) ==
    /\ \/ /\ Goes(p, "push", "update_ref")
          /\ Accepts(Head(p))
          /\ remote' = Head(p)
          /\ tracking' = Head(p)
          /\ pushed' = [pushed EXCEPT ![p] = Head(p)]
       \/ Fails(p, "push") /\ UNCHANGED <<remote, tracking, pushed>>
    /\ UNCHANGED <<local, feature, prHead, blocks, params, reports, diff, sha, mergeable, stood>>

(* Mutant: the exit code of git push is not looked at. *)
PushUnchecked(p) ==
    /\ Goes(p, "push", "update_ref")
    /\ \/ /\ Accepts(sha[p])
          /\ remote' = sha[p]
          /\ tracking' = sha[p]
          /\ pushed' = [pushed EXCEPT ![p] = sha[p]]
       \/ UNCHANGED <<remote, tracking, pushed>>
    /\ UNCHANGED <<local, feature, prHead, blocks, params, reports, diff, sha, mergeable, stood>>

Push(p) ==
    /\ \/ /\ Goes(p, "push", "update_ref")
          /\ Accepts(sha[p])
          /\ remote' = sha[p]
          /\ tracking' = sha[p]
          /\ pushed' = [pushed EXCEPT ![p] = sha[p]]
       \/ Fails(p, "push") /\ UNCHANGED <<remote, tracking, pushed>>
    /\ UNCHANGED <<local, feature, prHead, blocks, params, reports, diff, sha, mergeable, stood>>

UpdateRef(p) ==
    /\ \/ Ends(p, "update_ref", "merged") /\ local' = sha[p]
       \/ Fails(p, "update_ref") /\ local' = local
    /\ UNCHANGED <<remote, tracking, feature, prHead, blocks, params, reports, diff, sha, mergeable,
                   pushed, stood>>

(* The run is killed. *)
Crash(p) ==
    /\ pc[p] \notin {"new"} \cup Ended
    /\ Fails(p, pc[p])
    /\ taken' = [taken EXCEPT ![p] = None]
    /\ UNCHANGED <<refs, blocks, params, reports, diffFile, sha, mergeable, pushed, stood>>

CloseStep(p) ==
    \/ StartClose(p)
    \/ AcGate(p)
    \/ TakeFeatureDiff(p)
    \/ OpenFeatureDiff(p)
    \/ WriteFeatureDiff(p)
    \/ Authz(p)
    \/ SeamLint(p)
    \/ Mutation(p)
    \/ CheckOut(p)
    \/ RunVerifyCmd(p)
    \/ FetchPrDiff(p)
    \/ StampReview(p)
    \/ ReviewSession(p)

GateStep(p) ==
    \/ StartGate(p)
    \/ ResolvePrSha(p)
    \/ ProbeBase(p)
    \/ IsFfMergeable(p)
    \/ EvaluateRules(p)
    \/ R1Recovery(p)
    \/ FetchBase(p)
    \/ Push(p)
    \/ UpdateRef(p)

-----------------------------------------------------------------------------
(* What others do meanwhile. *)
CommitToFeature ==
    /\ feature.f < MaxFeature
    /\ feature' = [feature EXCEPT !.f = @ + 1]
    /\ UNCHANGED <<remote, tracking, local, prHead, label, block, stood>>

RebaseFeature ==
    /\ feature.o < remote.o
    /\ feature' = [feature EXCEPT !.o = remote.o]
    /\ UNCHANGED <<remote, tracking, local, prHead, label, block, stood>>

PublishFeature ==
    /\ PullRequest
    /\ prHead' = feature
    /\ UNCHANGED <<remote, tracking, local, feature, label, block, stood>>

CommitToMain ==
    /\ remote.o < MaxOthers
    /\ remote' = [remote EXCEPT !.o = @ + 1]
    /\ UNCHANGED <<tracking, local, feature, prHead, label, block, stood>>

(* `close block` and `close unblock`; both refuse a file they cannot read. *)
SetBlock ==
    /\ block # "unreadable"
    /\ block' = "blocked"
    /\ UNCHANGED <<refs, label, stood>>

ClearBlock ==
    /\ block # "unreadable"
    /\ block' = "clear"
    /\ stood' = {p \in stood : how[p] # "close"}
    /\ UNCHANGED <<refs, label>>

DamageBlockFile ==
    /\ block' = "unreadable"
    /\ UNCHANGED <<refs, label, stood>>

RemoveBlockFile ==
    /\ block = "unreadable"
    /\ block' = "clear"
    /\ stood' = {p \in stood : how[p] # "close"}
    /\ UNCHANGED <<refs, label>>

SetLabel ==
    /\ PullRequest
    /\ label' = TRUE
    /\ UNCHANGED <<refs, block, stood>>

RemoveLabel ==
    /\ label' = FALSE
    /\ stood' = {p \in stood : how[p] # "pr"}
    /\ UNCHANGED <<refs, block>>

(* Bounds: nothing happens when all runs are over, nor to the block file   *)
(* when no run is left to read it.                                         *)
BlockMoves ==
    /\ \E p \in Procs : pc[p] = "new"
    /\ SetBlock \/ ClearBlock \/ DamageBlockFile \/ RemoveBlockFile

Others ==
    /\ \E p \in Procs : pc[p] \notin Ended
    /\ \/ CommitToFeature \/ RebaseFeature \/ PublishFeature \/ CommitToMain
       \/ BlockMoves \/ SetLabel \/ RemoveLabel
    /\ UNCHANGED <<params, reports, diff, pc, sha, mergeable, verdict, pushed>>

Next ==
    \/ \E p \in Procs : CloseStep(p) \/ GateStep(p) \/ Crash(p)
    \/ Others

Spec == Init /\ [][Next]_vars

-----------------------------------------------------------------------------
ClosePcs == {"acgate", "authz", "authz_open", "authz_write", "authz_check", "seamlint",
             "mutation", "verify", "verify_cmd", "review", "ticket", "session"}
GatePcs == {"gate", "ff_fetch", "ff_check", "rules", "recovery", "fetch", "push", "update_ref"}

(* The variables keep their types, for what the harness, C5 and C6 write.  *)
TypeOK ==
    /\ {remote, tracking, local, feature, prHead} \subseteq Commits
    /\ block \in {"clear", "blocked", "unreadable"}
    /\ label \in BOOLEAN
    /\ diffFile \in Commits \cup {None, Torn}
    /\ taken \in [Procs -> Commits \cup {None}]
    /\ pc \in [Procs -> {"new"} \cup ClosePcs \cup GatePcs \cup Ended]
    /\ how \in [Procs -> {"close", "branch", "pr"}]
    /\ dry \in [Procs -> BOOLEAN]
    /\ vr \in [Procs -> [tree : Commits \cup {None}, verdict : {"pass", "fail", None}]]
    /\ rr \in [Procs -> [tree : Commits \cup {None}, diff : Commits \cup {None}, ofPR : BOOLEAN,
                         verdict : {"approve", "block", None}]]
    /\ sha \in [Procs -> Commits \cup {None}]
    /\ mergeable \in [Procs -> BOOLEAN]
    /\ verdict \in [Procs -> {"merged", "held", "blocked", None}]
    /\ since \in [Procs -> SUBSET Commits]
    /\ pushed \in [Procs -> Commits \cup {None}]
    /\ stood \subseteq Procs

(* What reaches main was passed by verify_cmd and approved by the review,  *)
(* both under the tree that was pushed, however the branch moves between   *)
(* the steps (execute_gate resolves it once for all of them).              *)
OnlyCheckedIsPushed ==
    \A p \in Procs : pushed[p] # None =>
        /\ vr[p] = [tree |-> pushed[p], verdict |-> "pass"]
        /\ rr[p].tree = pushed[p]
        /\ rr[p].verdict = "approve"

(* The reviewer's diff is fetched before the tree is stamped on its report *)
(* (execute_review), and may be older: but in a close run it is no older   *)
(* than what was verified, so that two tickets of one tree have the diff   *)
(* between them.  This needs the diff to be git's, and the branch to be    *)
(* only added to.                                                          *)
ReviewSawMerge ==
    \A p \in Procs :
        pushed[p] # None /\ how[p] = "close" /\ ~ rr[p].ofPR => rr[p].diff = pushed[p]

(* No step takes a commit off the origin's main, though others push        *)
(* between the fetch and the push of ff_merge_to_main.                     *)
RemoteOnlyFastForwards == [][Contains(remote', remote)]_vars

(* The local main never holds what the origin's main does not: a push that *)
(* is refused or lost leaves nothing behind (ff_merge_to_main).            *)
LocalFollowsRemote == Contains(remote, local)

(* A report tells the truth, also after other runs and others' pushes:     *)
(* merged means that main has the commit; held, blocked and a dry run mean *)
(* that the run pushed nothing (run_close, execute_gate).                  *)
ReportIsTrue ==
    \A p \in Procs : pc[p] = "over" =>
        IF verdict[p] = "merged" /\ ~ dry[p]
        THEN sha[p] # None /\ Contains(remote, sha[p])
        ELSE pushed[p] = None

(* While a block stands that was there when a run began, and that the run  *)
(* could see, the run pushes nothing: the block file for a close run, its  *)
(* damage included, the label for a gate of the pull request (load_block,  *)
(* has_human_block_label).                                                 *)
BlockHolds == \A p \in Procs : pushed[p] # None => p \notin stood

(* The authorization check judges the branch as it was when the run began, *)
(* or later, although runs share the file the diff is in; unless the file  *)
(* is just being written by another run, or holds what another run had     *)
(* taken before and wrote after it (_write_feature_diff, _step_authz).     *)
AuthzIsCurrent ==
    \A p \in Procs : pc[p] = "authz_check" /\ diffFile \notin {None, Torn} =>
        \E c \in since[p] : Contains(diffFile, c)

(* What a run merges is what its steps have looked at, however the branch  *)
(* and the pull request change between them: the commit that was verified, *)
(* approved and shown to the reviewer (run_close).                         *)
MergeIsChecked == OnlyCheckedIsPushed /\ ReviewSawMerge

(* A merge is made and told as a whole: a push that fails or is lost, or a *)
(* run that is killed, leaves the local main without what the origin does  *)
(* not have, and no report claims or denies a merge wrongly.               *)
NothingHalfMerged == LocalFollowsRemote /\ ReportIsTrue

=============================================================================
