---------------------------- MODULE CloseProofs ----------------------------
(* Proofs about closing, for any number of runs, commits and blocks.       *)
EXTENDS Close, TLAPS

(* The diff that is reviewed lies between the two tickets.                 *)
Between(p) ==
    /\ pc[p] \in ClosePcs => how[p] = "close"
    /\ pc[p] \in {"verify_cmd", "review", "ticket"} =>
          vr[p].tree \in Commits /\ Contains(feature, vr[p].tree)
    /\ pc[p] = "ticket" =>
          /\ rr[p].diff \in Commits
          /\ ~ rr[p].ofPR => Contains(rr[p].diff, vr[p].tree) /\ Contains(feature, rr[p].diff)
    /\ how[p] = "close" /\ pc[p] \in {"session"} \cup GatePcs =>
          /\ {vr[p].tree, rr[p].diff, rr[p].tree} \subseteq Commits
          /\ ~ rr[p].ofPR => Contains(rr[p].diff, vr[p].tree) /\ Contains(rr[p].tree, rr[p].diff)

(* What a run holds, and what the gate has established, at each step.      *)
Gated(p) ==
    /\ p \in Holding => taken[p] \in Commits
    /\ pc[p] \in GatePcs \ {"gate"} => sha[p] \in Commits /\ Fresh(p, sha[p])
    /\ pc[p] \in {"fetch", "push", "update_ref"} =>
          /\ vr[p].verdict = "pass" /\ rr[p].verdict = "approve"
          /\ ~ dry[p] /\ p \notin stood

(* A run that has pushed.                                                  *)
Pushed(p) ==
    /\ sha[p] \in Commits /\ pushed[p] = sha[p]
    /\ pc[p] \in {"update_ref"} \cup Ended
    /\ pc[p] = "over" => verdict[p] = "merged"
    /\ ~ dry[p] /\ p \notin stood
    /\ Fresh(p, sha[p]) /\ vr[p].verdict = "pass" /\ rr[p].verdict = "approve"
    /\ how[p] = "close" /\ ~ rr[p].ofPR => rr[p].diff = sha[p]
    /\ Contains(remote, sha[p])

Pushes(p) ==
    /\ pushed[p] # None => Pushed(p)
    /\ pc[p] = "update_ref" => pushed[p] # None
    /\ pc[p] = "over" /\ verdict[p] = "merged" /\ ~ dry[p] => pushed[p] # None

(* A run whose block has stood since it began.                             *)
Stopped(p) ==
    p \in stood =>
        /\ pc[p] # "new"
        /\ how[p] = "close" => pc[p] \in Ended
        /\ how[p] # "branch"
        /\ how[p] = "pr" => label

Local(p) == Between(p) /\ Gated(p) /\ Pushes(p) /\ Stopped(p)

IInv == TypeOK /\ LocalFollowsRemote /\ \A p \in Procs : Local(p)

(* What a step leaves alone of a run that does not take it.                *)
Untouched(p) ==
    /\ pc'[p] = pc[p] /\ verdict'[p] = verdict[p] /\ how'[p] = how[p] /\ dry'[p] = dry[p]
    /\ vr'[p] = vr[p] /\ rr'[p] = rr[p]
    /\ taken'[p] = taken[p] /\ sha'[p] = sha[p] /\ pushed'[p] = pushed[p]
    /\ p \in stood' => p \in stood /\ (how[p] = "pr" /\ label => label')

(* How what is shared may change.                                          *)
Advances ==
    /\ Contains(feature', feature)
    /\ Contains(remote', remote)

-----------------------------------------------------------------------------
(* Containment orders the commits.                                         *)
LEMMA Reflexive == ASSUME NEW a \in Commits PROVE Contains(a, a)
BY DEF Commits, Contains

(* Containment is transitive.                                               *)
LEMMA Transitive ==
    ASSUME NEW a \in Commits, NEW b \in Commits, NEW c \in Commits,
           Contains(a, b), Contains(b, c)
    PROVE  Contains(a, c)
BY DEF Commits, Contains

(* Two commits that contain one another are one.                           *)
LEMMA Antisymmetric ==
    ASSUME NEW a \in Commits, NEW b \in Commits, Contains(a, b), Contains(b, a)
    PROVE  a = b
<1>1. a.f = b.f /\ a.o = b.o
  BY DEF Commits, Contains
<1> QED
  BY <1>1 DEF Commits

(* None stands for no commit.                                               *)
LEMMA NoneIsNoCommit == None \notin Commits
BY CloseAssumption DEF Commits

(* Refs and files advancing do no harm to a run that takes no step.        *)
LEMMA Frame ==
    ASSUME IInv, TypeOK', Advances, NEW q \in Procs, Untouched(q)
    PROVE  Local(q)'
<1> USE DEF Untouched
<1>0. /\ Local(q) /\ TypeOK
      /\ feature \in Commits /\ feature' \in Commits
      /\ remote \in Commits /\ remote' \in Commits
      /\ Contains(feature', feature) /\ Contains(remote', remote)
  BY DEF IInv, TypeOK, Advances
<1>1. \A c \in Commits : Contains(feature, c) => Contains(feature', c)
  BY <1>0, Transitive
<1>2. \A c \in Commits : Contains(remote, c) => Contains(remote', c)
  BY <1>0, Transitive
<1>4. Between(q)'
  BY <1>0, <1>1 DEF Local, Between
<1>5. Gated(q)'
  BY <1>0 DEF Local, Gated, Holding, Fresh
<1>6. Pushes(q)'
  BY <1>0, <1>2 DEF Local, Pushes, Pushed, Fresh
<1>7. Stopped(q)'
  BY <1>0 DEF Local, Stopped
<1> QED
  BY <1>4, <1>5, <1>6, <1>7 DEF Local

(* What a step must show of the run that takes it and of the refs, for the *)
(* invariant to hold after it.                                             *)
LEMMA StepBy ==
    ASSUME IInv, TypeOK', Advances, LocalFollowsRemote', NEW p \in Procs, Local(p)',
           \A q \in Procs \ {p} : Untouched(q)
    PROVE  IInv'
<1>1. ASSUME NEW q \in Procs PROVE Local(q)'
  <2>1. CASE q = p
    BY <2>1
  <2>2. CASE q # p
    BY <2>2, Frame
  <2> QED
    BY <2>1, <2>2
<1> QED
  BY <1>1 DEF IInv

(* A close run that begins has the feature branch as it is.                *)
LEMMA StartCloseKeeps == ASSUME IInv, NEW p \in Procs, StartClose(p) PROVE IInv'
<1> USE DEF StartClose, Goes, Ends, Fails, refs, blocks, params, reports, diff
<1>0. TypeOK /\ LocalFollowsRemote /\ Local(p)
  BY DEF IInv
<1>1. TypeOK'
  <2>1. {feature} \cup {taken[q] : q \in Holding} \subseteq Commits
    BY <1>0 DEF IInv, Local, Gated, TypeOK, Holding
  <2>2. since' \in [Procs -> SUBSET Commits]
    BY <1>0, <2>1 DEF TypeOK
  <2> QED
    BY <1>0, <2>2 DEF TypeOK, ClosePcs, GatePcs, Ended, HumanBlock, MaySetDry
<1>2. Advances
  BY <1>0, Reflexive DEF Advances, TypeOK
<1>3. LocalFollowsRemote'
  BY <1>0 DEF LocalFollowsRemote
<1>4. Local(p)'
  BY <1>0, <1>1, Reflexive
  DEF Local, Between, Gated, Holding, Fresh, Pushes, Pushed, Stopped, TypeOK,
      ClosePcs, GatePcs, Ended, HumanBlock, MaySetDry
<1>5. ASSUME NEW q \in Procs \ {p} PROVE Untouched(q)
  BY <1>0 DEF Untouched, TypeOK, HumanBlock, MaySetDry
<1> QED
  BY <1>1, <1>2, <1>3, <1>4, <1>5, StepBy

(* Checks that leave nothing behind.                                       *)
LEMMA AcGateKeeps == ASSUME IInv, NEW p \in Procs, AcGate(p) PROVE IInv'
<1> USE DEF AcGate, Goes, Ends, Fails, refs, blocks, params, reports, diff, Check
<1>0. TypeOK /\ LocalFollowsRemote /\ Local(p)
  BY DEF IInv
<1>1. TypeOK'
  BY <1>0 DEF TypeOK, ClosePcs, GatePcs, Ended
<1>2. Advances
  BY <1>0, Reflexive DEF Advances, TypeOK
<1>3. LocalFollowsRemote'
  BY <1>0 DEF LocalFollowsRemote
<1>4. Local(p)'
  BY <1>0, <1>1, Reflexive
  DEF Local, Between, Gated, Holding, Fresh, Pushes, Pushed, Stopped, TypeOK,
      ClosePcs, GatePcs, Ended
<1>5. ASSUME NEW q \in Procs \ {p} PROVE Untouched(q)
  BY <1>0 DEF Untouched, TypeOK
<1> QED
  BY <1>1, <1>2, <1>3, <1>4, <1>5, StepBy

(* The seam check, likewise.                                               *)
LEMMA SeamLintKeeps == ASSUME IInv, NEW p \in Procs, SeamLint(p) PROVE IInv'
<1> USE DEF SeamLint, Goes, Ends, Fails, refs, blocks, params, reports, diff, Check
<1>0. TypeOK /\ LocalFollowsRemote /\ Local(p)
  BY DEF IInv
<1>1. TypeOK'
  BY <1>0 DEF TypeOK, ClosePcs, GatePcs, Ended
<1>2. Advances
  BY <1>0, Reflexive DEF Advances, TypeOK
<1>3. LocalFollowsRemote'
  BY <1>0 DEF LocalFollowsRemote
<1>4. Local(p)'
  BY <1>0, <1>1, Reflexive
  DEF Local, Between, Gated, Holding, Fresh, Pushes, Pushed, Stopped, TypeOK,
      ClosePcs, GatePcs, Ended
<1>5. ASSUME NEW q \in Procs \ {p} PROVE Untouched(q)
  BY <1>0 DEF Untouched, TypeOK
<1> QED
  BY <1>1, <1>2, <1>3, <1>4, <1>5, StepBy

(* The mutation probe, likewise.                                           *)
LEMMA MutationKeeps == ASSUME IInv, NEW p \in Procs, Mutation(p) PROVE IInv'
<1> USE DEF Mutation, Goes, Ends, Fails, refs, blocks, params, reports, diff, Check
<1>0. TypeOK /\ LocalFollowsRemote /\ Local(p)
  BY DEF IInv
<1>1. TypeOK'
  BY <1>0 DEF TypeOK, ClosePcs, GatePcs, Ended
<1>2. Advances
  BY <1>0, Reflexive DEF Advances, TypeOK
<1>3. LocalFollowsRemote'
  BY <1>0 DEF LocalFollowsRemote
<1>4. Local(p)'
  BY <1>0, <1>1, Reflexive
  DEF Local, Between, Gated, Holding, Fresh, Pushes, Pushed, Stopped, TypeOK,
      ClosePcs, GatePcs, Ended
<1>5. ASSUME NEW q \in Procs \ {p} PROVE Untouched(q)
  BY <1>0 DEF Untouched, TypeOK
<1> QED
  BY <1>1, <1>2, <1>3, <1>4, <1>5, StepBy

(* A diff is taken of the feature as it is.                                *)
LEMMA TakeFeatureDiffKeeps == ASSUME IInv, NEW p \in Procs, TakeFeatureDiff(p) PROVE IInv'
<1> USE DEF TakeFeatureDiff, Goes, Ends, Fails, refs, blocks, params, reports, diff
<1>0. TypeOK /\ LocalFollowsRemote /\ Local(p)
  BY DEF IInv
<1>1. TypeOK'
  <2>1. taken' \in [Procs -> Commits \cup {None}]
    BY <1>0 DEF TypeOK
  <2> QED
    BY <1>0, <2>1 DEF TypeOK, ClosePcs, GatePcs, Ended
<1>2. Advances
  BY <1>0, Reflexive DEF Advances, TypeOK
<1>3. LocalFollowsRemote'
  BY <1>0 DEF LocalFollowsRemote
<1>4. Local(p)'
  BY <1>0, <1>1, Reflexive
  DEF Local, Between, Gated, Holding, Fresh, Pushes, Pushed, Stopped, TypeOK,
      ClosePcs, GatePcs, Ended
<1>5. ASSUME NEW q \in Procs \ {p} PROVE Untouched(q)
  BY <1>0 DEF Untouched, TypeOK
<1> QED
  BY <1>1, <1>2, <1>3, <1>4, <1>5, StepBy

(* The file is emptied.                                                    *)
LEMMA OpenFeatureDiffKeeps == ASSUME IInv, NEW p \in Procs, OpenFeatureDiff(p) PROVE IInv'
<1> USE DEF OpenFeatureDiff, Goes, Ends, Fails, refs, blocks, params, reports, diff
<1>0. TypeOK /\ LocalFollowsRemote /\ Local(p)
  BY DEF IInv
<1>1. TypeOK'
  BY <1>0 DEF TypeOK, ClosePcs, GatePcs, Ended
<1>2. Advances
  BY <1>0, Reflexive DEF Advances, TypeOK
<1>3. LocalFollowsRemote'
  BY <1>0 DEF LocalFollowsRemote
<1>4. Local(p)'
  BY <1>0, <1>1, Reflexive
  DEF Local, Between, Gated, Holding, Fresh, Pushes, Pushed, Stopped, TypeOK,
      ClosePcs, GatePcs, Ended
<1>5. ASSUME NEW q \in Procs \ {p} PROVE Untouched(q)
  BY <1>0 DEF Untouched, TypeOK
<1> QED
  BY <1>1, <1>2, <1>3, <1>4, <1>5, StepBy

(* A diff goes from the hands of the run into the file.                    *)
LEMMA WriteFeatureDiffKeeps == ASSUME IInv, NEW p \in Procs, WriteFeatureDiff(p) PROVE IInv'
<1> USE DEF WriteFeatureDiff, Goes, Ends, Fails, refs, blocks, params, reports, diff
<1>0. TypeOK /\ LocalFollowsRemote /\ Local(p)
  BY DEF IInv
<1>1. TypeOK'
  <2>1. diffFile' \in Commits \cup {None, Torn} /\ taken' \in [Procs -> Commits \cup {None}]
    BY <1>0 DEF TypeOK
  <2>2. pc' \in [Procs -> {"new"} \cup ClosePcs \cup GatePcs \cup Ended]
    BY <1>0 DEF TypeOK, ClosePcs, GatePcs, Ended
  <2> QED
    BY <1>0, <2>1, <2>2 DEF TypeOK
<1>2. Advances
  BY <1>0, Reflexive DEF Advances, TypeOK
<1>3. LocalFollowsRemote'
  BY <1>0 DEF LocalFollowsRemote
<1>4. Local(p)'
  BY <1>0, <1>1, Reflexive
  DEF Local, Between, Gated, Holding, Fresh, Pushes, Pushed, Stopped, TypeOK,
      ClosePcs, GatePcs, Ended
<1>5. ASSUME NEW q \in Procs \ {p} PROVE Untouched(q)
  BY <1>0 DEF Untouched, TypeOK
<1> QED
  BY <1>1, <1>2, <1>3, <1>4, <1>5, StepBy

(* The check itself changes nothing that is shared.                        *)
LEMMA AuthzKeeps == ASSUME IInv, NEW p \in Procs, Authz(p) PROVE IInv'
<1> USE DEF Authz, Goes, Ends, Fails, refs, blocks, params, reports, diff
<1>0. TypeOK /\ LocalFollowsRemote /\ Local(p)
  BY DEF IInv
<1>1. TypeOK'
  BY <1>0 DEF TypeOK, ClosePcs, GatePcs, Ended
<1>2. Advances
  BY <1>0, Reflexive DEF Advances, TypeOK
<1>3. LocalFollowsRemote'
  BY <1>0 DEF LocalFollowsRemote
<1>4. Local(p)'
  BY <1>0, <1>1, Reflexive
  DEF Local, Between, Gated, Holding, Fresh, Pushes, Pushed, Stopped, TypeOK,
      ClosePcs, GatePcs, Ended
<1>5. ASSUME NEW q \in Procs \ {p} PROVE Untouched(q)
  BY <1>0 DEF Untouched, TypeOK
<1> QED
  BY <1>1, <1>2, <1>3, <1>4, <1>5, StepBy

(* The verification stamps what it checks out.                             *)
LEMMA CheckOutKeeps == ASSUME IInv, NEW p \in Procs, CheckOut(p) PROVE IInv'
<1> USE DEF CheckOut, Goes, Ends, Fails, refs, blocks, params, reports, diff
<1>0. TypeOK /\ LocalFollowsRemote /\ Local(p)
  BY DEF IInv
<1>1. TypeOK'
  <2> DEFINE R == [tree : Commits \cup {None}, verdict : {"pass", "fail", None}]
  <2>1. [vr[p] EXCEPT !.tree = feature] \in R
    BY <1>0 DEF TypeOK
  <2>2. vr' \in [Procs -> R]
    BY <1>0, <2>1 DEF TypeOK
  <2>3. pc' \in [Procs -> {"new"} \cup ClosePcs \cup GatePcs \cup Ended]
    BY <1>0 DEF TypeOK, ClosePcs, GatePcs, Ended
  <2>4. verdict' \in [Procs -> {"merged", "held", "blocked", None}]
    BY <1>0 DEF TypeOK
  <2> QED
    BY <1>0, <2>2, <2>3, <2>4 DEF TypeOK
<1>2. Advances
  BY <1>0, Reflexive DEF Advances, TypeOK
<1>3. LocalFollowsRemote'
  BY <1>0 DEF LocalFollowsRemote
<1>4. Local(p)'
  BY <1>0, <1>1, Reflexive
  DEF Local, Between, Gated, Holding, Fresh, Pushes, Pushed, Stopped, TypeOK,
      ClosePcs, GatePcs, Ended
<1>5. ASSUME NEW q \in Procs \ {p} PROVE Untouched(q)
  BY <1>0 DEF Untouched, TypeOK
<1> QED
  BY <1>1, <1>2, <1>3, <1>4, <1>5, StepBy

(* The verdict is added to the report of the tree checked out.             *)
LEMMA RunVerifyCmdKeeps == ASSUME IInv, NEW p \in Procs, RunVerifyCmd(p) PROVE IInv'
<1> USE DEF RunVerifyCmd, Goes, Ends, Fails, refs, blocks, params, reports, diff
<1>0. TypeOK /\ LocalFollowsRemote /\ Local(p)
  BY DEF IInv
<1>1. TypeOK'
  <2> DEFINE R == [tree : Commits \cup {None}, verdict : {"pass", "fail", None}]
  <2>0. vr[p] \in R /\ feature \in Commits /\ prHead \in Commits
    BY <1>0 DEF TypeOK
  <2>1. [vr[p] EXCEPT !.verdict = "pass"] \in R
    BY <2>0
  <2>2. [vr[p] EXCEPT !.verdict = "fail"] \in R
    BY <2>0
  <2>3. vr' \in [Procs -> R]
    BY <1>0, <2>1, <2>2 DEF TypeOK
  <2>4. pc' \in [Procs -> {"new"} \cup ClosePcs \cup GatePcs \cup Ended]
    BY <1>0 DEF TypeOK, ClosePcs, GatePcs, Ended
  <2>5. verdict' \in [Procs -> {"merged", "held", "blocked", None}]
    BY <1>0 DEF TypeOK
  <2> QED
    BY <1>0, <2>3, <2>4, <2>5 DEF TypeOK
<1>2. Advances
  BY <1>0, Reflexive DEF Advances, TypeOK
<1>3. LocalFollowsRemote'
  BY <1>0 DEF LocalFollowsRemote
<1>4. Local(p)'
  <2>2. Between(p)'
    <3>1. /\ pc[p] = "verify_cmd" /\ pc'[p] \in {"review"} \cup Ended
          /\ how' = how /\ rr' = rr /\ feature' = feature /\ vr'[p].tree = vr[p].tree
      BY <1>0 DEF TypeOK, Ended
    <3> QED
      BY <1>0, <3>1 DEF Local, Between, ClosePcs, GatePcs, Ended
  <2>3. Gated(p)'
    BY <1>0, <1>1, Reflexive DEF Local, Gated, Holding, Fresh, TypeOK, ClosePcs, GatePcs,
       Ended
  <2>4. Pushes(p)'
    BY <1>0, <1>1, Reflexive DEF Local, Pushes, Pushed, Fresh, Gated, Holding, TypeOK,
       ClosePcs, GatePcs, Ended
  <2>5. Stopped(p)'
    BY <1>0, <1>1, Reflexive DEF Local, Stopped, Gated, TypeOK, ClosePcs, GatePcs, Ended
  <2> QED
    BY <2>2, <2>3, <2>4, <2>5 DEF Local
<1>5. ASSUME NEW q \in Procs \ {p} PROVE Untouched(q)
  BY <1>0 DEF Untouched, TypeOK
<1> QED
  BY <1>1, <1>2, <1>3, <1>4, <1>5, StepBy

(* A diff of the branch is of the branch as it is.                         *)
LEMMA FetchPrDiffKeeps == ASSUME IInv, NEW p \in Procs, FetchPrDiff(p) PROVE IInv'
<1> USE DEF FetchPrDiff, Goes, Ends, Fails, refs, blocks, params, reports, diff
<1>0. TypeOK /\ LocalFollowsRemote /\ Local(p)
  BY DEF IInv
<1>1. TypeOK'
  <2> DEFINE R == [tree : Commits \cup {None}, diff : Commits \cup {None}, ofPR : BOOLEAN,
                   verdict : {"approve", "block", None}]
  <2>0. rr[p] \in R /\ feature \in Commits /\ prHead \in Commits
    BY <1>0 DEF TypeOK
  <2>1. [rr[p] EXCEPT !.diff = feature] \in R
    BY <2>0
  <2>2. [rr[p] EXCEPT !.diff = prHead, !.ofPR = TRUE] \in R
    BY <2>0
  <2>3. rr' \in [Procs -> R]
    BY <1>0, <2>1, <2>2 DEF TypeOK
  <2>4. pc' \in [Procs -> {"new"} \cup ClosePcs \cup GatePcs \cup Ended]
    BY <1>0 DEF TypeOK, ClosePcs, GatePcs, Ended
  <2>5. verdict' \in [Procs -> {"merged", "held", "blocked", None}]
    BY <1>0 DEF TypeOK
  <2> QED
    BY <1>0, <2>3, <2>4, <2>5 DEF TypeOK
<1>2. Advances
  BY <1>0, Reflexive DEF Advances, TypeOK
<1>3. LocalFollowsRemote'
  BY <1>0 DEF LocalFollowsRemote
<1>4. Local(p)'
  BY <1>0, <1>1, Reflexive
  DEF Local, Between, Gated, Holding, Fresh, Pushes, Pushed, Stopped, TypeOK,
      ClosePcs, GatePcs, Ended
<1>5. ASSUME NEW q \in Procs \ {p} PROVE Untouched(q)
  BY <1>0 DEF Untouched, TypeOK
<1> QED
  BY <1>1, <1>2, <1>3, <1>4, <1>5, StepBy

(* The ticket is of the branch as it is, and so no older than the diff.    *)
LEMMA StampReviewKeeps == ASSUME IInv, NEW p \in Procs, StampReview(p) PROVE IInv'
<1> USE DEF StampReview, Goes, Ends, Fails, refs, blocks, params, reports, diff
<1>0. TypeOK /\ LocalFollowsRemote /\ Local(p)
  BY DEF IInv
<1>1. TypeOK'
  <2> DEFINE R == [tree : Commits \cup {None}, diff : Commits \cup {None}, ofPR : BOOLEAN,
                   verdict : {"approve", "block", None}]
  <2>1. [rr[p] EXCEPT !.tree = feature] \in R
    BY <1>0 DEF TypeOK
  <2>2. rr' \in [Procs -> R]
    BY <1>0, <2>1 DEF TypeOK
  <2>3. pc' \in [Procs -> {"new"} \cup ClosePcs \cup GatePcs \cup Ended]
    BY <1>0 DEF TypeOK, ClosePcs, GatePcs, Ended
  <2>4. verdict' \in [Procs -> {"merged", "held", "blocked", None}]
    BY <1>0 DEF TypeOK
  <2> QED
    BY <1>0, <2>2, <2>3, <2>4 DEF TypeOK
<1>2. Advances
  BY <1>0, Reflexive DEF Advances, TypeOK
<1>3. LocalFollowsRemote'
  BY <1>0 DEF LocalFollowsRemote
<1>4. Local(p)'
  BY <1>0, <1>1, Reflexive
  DEF Local, Between, Gated, Holding, Fresh, Pushes, Pushed, Stopped, TypeOK,
      ClosePcs, GatePcs, Ended
<1>5. ASSUME NEW q \in Procs \ {p} PROVE Untouched(q)
  BY <1>0 DEF Untouched, TypeOK
<1> QED
  BY <1>1, <1>2, <1>3, <1>4, <1>5, StepBy

(* The verdict is added to the report of the tree stamped.                 *)
LEMMA ReviewSessionKeeps == ASSUME IInv, NEW p \in Procs, ReviewSession(p) PROVE IInv'
<1> USE DEF ReviewSession, Goes, Ends, Fails, refs, blocks, params, reports, diff
<1>0. TypeOK /\ LocalFollowsRemote /\ Local(p)
  BY DEF IInv
<1>1. TypeOK'
  <2> DEFINE R == [tree : Commits \cup {None}, diff : Commits \cup {None}, ofPR : BOOLEAN,
                   verdict : {"approve", "block", None}]
  <2>0. rr[p] \in R /\ feature \in Commits /\ prHead \in Commits
    BY <1>0 DEF TypeOK
  <2>1. [rr[p] EXCEPT !.verdict = "approve"] \in R
    BY <2>0
  <2>2. [rr[p] EXCEPT !.verdict = "block"] \in R
    BY <2>0
  <2>3. rr' \in [Procs -> R]
    BY <1>0, <2>1, <2>2 DEF TypeOK
  <2>4. pc' \in [Procs -> {"new"} \cup ClosePcs \cup GatePcs \cup Ended]
    BY <1>0 DEF TypeOK, ClosePcs, GatePcs, Ended
  <2>5. verdict' \in [Procs -> {"merged", "held", "blocked", None}]
    BY <1>0 DEF TypeOK
  <2> QED
    BY <1>0, <2>3, <2>4, <2>5 DEF TypeOK
<1>2. Advances
  BY <1>0, Reflexive DEF Advances, TypeOK
<1>3. LocalFollowsRemote'
  BY <1>0 DEF LocalFollowsRemote
<1>4. Local(p)'
  <2>1. Between(p)'
    <3>1. /\ pc[p] = "session" /\ pc'[p] \in {"gate"} \cup Ended
          /\ how' = how /\ vr' = vr /\ feature' = feature
      BY <1>0 DEF TypeOK, Ended
    <3>2. rr'[p].tree = rr[p].tree /\ rr'[p].diff = rr[p].diff /\ rr'[p].ofPR = rr[p].ofPR
      BY <1>0 DEF TypeOK
    <3> QED
      BY <1>0, <3>1, <3>2 DEF Local, Between, ClosePcs, GatePcs, Ended
  <2>2. Gated(p)'
    BY <1>0, <1>1 DEF Local, Gated, Holding, Fresh, TypeOK, ClosePcs, GatePcs, Ended
  <2>3. Pushes(p)'
    BY <1>0, <1>1 DEF Local, Pushes, Pushed, Fresh, TypeOK, ClosePcs, GatePcs, Ended
  <2>4. Stopped(p)'
    BY <1>0, <1>1 DEF Local, Stopped, TypeOK, ClosePcs, GatePcs, Ended
  <2> QED
    BY <2>1, <2>2, <2>3, <2>4 DEF Local
<1>5. ASSUME NEW q \in Procs \ {p} PROVE Untouched(q)
  BY <1>0 DEF Untouched, TypeOK
<1> QED
  BY <1>1, <1>2, <1>3, <1>4, <1>5, StepBy

(* A gate by hand has reports of earlier runs.                             *)
LEMMA StartGateKeeps == ASSUME IInv, NEW p \in Procs, StartGate(p) PROVE IInv'
<1> USE DEF StartGate, Goes, Ends, Fails, refs, blocks, params, reports, diff
<1>0. TypeOK /\ LocalFollowsRemote /\ Local(p)
  BY DEF IInv
<1>1. TypeOK'
  <2>1. PICK q \in Procs : vr' = [vr EXCEPT ![p] = vr[q]]
    BY DEF StartGate
  <2>2. PICK r \in Procs : rr' = [rr EXCEPT ![p] = rr[r]]
    BY DEF StartGate
  <2>3. pc' \in [Procs -> {"new"} \cup ClosePcs \cup GatePcs \cup Ended]
    BY <1>0 DEF TypeOK, ClosePcs, GatePcs, Ended
  <2>4. how' \in [Procs -> {"close", "branch", "pr"}]
    BY <1>0 DEF TypeOK
  <2>6. dry' \in [Procs -> BOOLEAN]
    <3>1. PICK h \in {"branch", "pr"} : MaySetDry(p, h)
      BY DEF StartGate
    <3>2. PICK d \in BOOLEAN : dry' = [dry EXCEPT ![p] = d]
      BY <3>1 DEF MaySetDry
    <3> QED
      BY <1>0, <3>2 DEF TypeOK
  <2>5. stood' \subseteq Procs
    BY <1>0 DEF TypeOK
  <2> QED
    BY <1>0, <2>1, <2>2, <2>3, <2>4, <2>5, <2>6 DEF TypeOK
<1>2. Advances
  BY <1>0, Reflexive DEF Advances, TypeOK
<1>3. LocalFollowsRemote'
  BY <1>0 DEF LocalFollowsRemote
<1>4. Local(p)'
  BY <1>0, <1>1, Reflexive
  DEF Local, Between, Gated, Holding, Fresh, Pushes, Pushed, Stopped, TypeOK,
      ClosePcs, GatePcs, Ended, MaySetDry
<1>5. ASSUME NEW q \in Procs \ {p} PROVE Untouched(q)
  BY <1>0 DEF Untouched, TypeOK, MaySetDry
<1> QED
  BY <1>1, <1>2, <1>3, <1>4, <1>5, StepBy

(* From here on both tickets are of the commit to be merged.               *)
LEMMA ResolvePrShaKeeps == ASSUME IInv, NEW p \in Procs, ResolvePrSha(p) PROVE IInv'
<1> USE DEF ResolvePrSha, Goes, Ends, Fails, refs, blocks, params, reports, diff
<1>0. TypeOK /\ LocalFollowsRemote /\ Local(p)
  BY DEF IInv
<1>1. TypeOK'
  BY <1>0 DEF TypeOK, ClosePcs, GatePcs, Ended, Head
<1>2. Advances
  BY <1>0, Reflexive DEF Advances, TypeOK
<1>3. LocalFollowsRemote'
  BY <1>0 DEF LocalFollowsRemote
<1>4. Local(p)'
  BY <1>0, <1>1, Reflexive
  DEF Local, Between, Gated, Holding, Fresh, Pushes, Pushed, Stopped, TypeOK,
      ClosePcs, GatePcs, Ended, Head
<1>5. ASSUME NEW q \in Procs \ {p} PROVE Untouched(q)
  BY <1>0 DEF Untouched, TypeOK, Head
<1> QED
  BY <1>1, <1>2, <1>3, <1>4, <1>5, StepBy

(* origin/main may be old: nothing rests on it but a verdict of the rules. *)
LEMMA ProbeBaseKeeps == ASSUME IInv, NEW p \in Procs, ProbeBase(p) PROVE IInv'
<1> USE DEF ProbeBase, Goes, Ends, Fails, refs, blocks, params, reports, diff
<1>0. TypeOK /\ LocalFollowsRemote /\ Local(p)
  BY DEF IInv
<1>1. TypeOK'
  BY <1>0 DEF TypeOK, ClosePcs, GatePcs, Ended
<1>2. Advances
  BY <1>0, Reflexive DEF Advances, TypeOK
<1>3. LocalFollowsRemote'
  BY <1>0 DEF LocalFollowsRemote
<1>4. Local(p)'
  BY <1>0, <1>1, Reflexive
  DEF Local, Between, Gated, Holding, Fresh, Pushes, Pushed, Stopped, TypeOK,
      ClosePcs, GatePcs, Ended
<1>5. ASSUME NEW q \in Procs \ {p} PROVE Untouched(q)
  BY <1>0 DEF Untouched, TypeOK
<1> QED
  BY <1>1, <1>2, <1>3, <1>4, <1>5, StepBy

(* The head resolved anew is used for that verdict alone.                  *)
LEMMA IsFfMergeableKeeps == ASSUME IInv, NEW p \in Procs, IsFfMergeable(p) PROVE IInv'
<1> USE DEF IsFfMergeable, Goes, Ends, Fails, refs, blocks, params, reports, diff
<1>0. TypeOK /\ LocalFollowsRemote /\ Local(p)
  BY DEF IInv
<1>1. TypeOK'
  BY <1>0 DEF TypeOK, ClosePcs, GatePcs, Ended, Contains
<1>2. Advances
  BY <1>0, Reflexive DEF Advances, TypeOK
<1>3. LocalFollowsRemote'
  BY <1>0 DEF LocalFollowsRemote
<1>4. Local(p)'
  BY <1>0, <1>1, Reflexive
  DEF Local, Between, Gated, Holding, Fresh, Pushes, Pushed, Stopped, TypeOK,
      ClosePcs, GatePcs, Ended
<1>5. ASSUME NEW q \in Procs \ {p} PROVE Untouched(q)
  BY <1>0 DEF Untouched, TypeOK
<1> QED
  BY <1>1, <1>2, <1>3, <1>4, <1>5, StepBy

(* What passes the rules is verified, approved, not dry and not blocked.   *)
LEMMA EvaluateRulesKeeps == ASSUME IInv, NEW p \in Procs, EvaluateRules(p) PROVE IInv'
<1> USE DEF EvaluateRules, Goes, Ends, Fails, refs, blocks, params, reports, diff
<1>0. TypeOK /\ LocalFollowsRemote /\ Local(p)
  BY DEF IInv
<1>1. TypeOK'
  BY <1>0 DEF TypeOK, ClosePcs, GatePcs, Ended, Judge, Reason
<1>2. Advances
  BY <1>0, Reflexive DEF Advances, TypeOK
<1>3. LocalFollowsRemote'
  BY <1>0 DEF LocalFollowsRemote
<1>4. Local(p)'
  BY <1>0, <1>1, Reflexive
  DEF Local, Between, Gated, Holding, Fresh, Pushes, Pushed, Stopped, TypeOK,
      ClosePcs, GatePcs, Ended, Judge, Reason
<1>5. ASSUME NEW q \in Procs \ {p} PROVE Untouched(q)
  BY <1>0 DEF Untouched, TypeOK, Judge, Reason
<1> QED
  BY <1>1, <1>2, <1>3, <1>4, <1>5, StepBy

(* The label only ever adds to what blocks.                                *)
LEMMA R1RecoveryKeeps == ASSUME IInv, NEW p \in Procs, R1Recovery(p) PROVE IInv'
<1> USE DEF R1Recovery, Goes, Ends, Fails, refs, blocks, params, reports, diff
<1>0. TypeOK /\ LocalFollowsRemote /\ Local(p)
  BY DEF IInv
<1>1. TypeOK'
  BY <1>0 DEF TypeOK, ClosePcs, GatePcs, Ended
<1>2. Advances
  BY <1>0, Reflexive DEF Advances, TypeOK
<1>3. LocalFollowsRemote'
  BY <1>0 DEF LocalFollowsRemote
<1>4. Local(p)'
  BY <1>0, <1>1, Reflexive
  DEF Local, Between, Gated, Holding, Fresh, Pushes, Pushed, Stopped, TypeOK,
      ClosePcs, GatePcs, Ended
<1>5. ASSUME NEW q \in Procs \ {p} PROVE Untouched(q)
  BY <1>0 DEF Untouched, TypeOK
<1> QED
  BY <1>1, <1>2, <1>3, <1>4, <1>5, StepBy

(* The fetch moves origin/main alone.                                      *)
LEMMA FetchBaseKeeps == ASSUME IInv, NEW p \in Procs, FetchBase(p) PROVE IInv'
<1> USE DEF FetchBase, Goes, Ends, Fails, refs, blocks, params, reports, diff
<1>0. TypeOK /\ LocalFollowsRemote /\ Local(p)
  BY DEF IInv
<1>1. TypeOK'
  <2>1. {remote', tracking', local', feature', prHead'} \subseteq Commits
    BY <1>0 DEF TypeOK
  <2>2. pc' \in [Procs -> {"new"} \cup ClosePcs \cup GatePcs \cup Ended]
    BY <1>0 DEF TypeOK, ClosePcs, GatePcs, Ended
  <2>3. verdict' \in [Procs -> {"merged", "held", "blocked", None}]
    BY <1>0 DEF TypeOK
  <2>4. pushed' \in [Procs -> Commits \cup {None}]
    BY <1>0 DEF TypeOK
  <2> QED
    BY <1>0, <2>1, <2>2, <2>3, <2>4 DEF TypeOK
<1>2. Advances
  BY <1>0, Reflexive DEF Advances, TypeOK
<1>3. LocalFollowsRemote'
  BY <1>0 DEF LocalFollowsRemote
<1>4. Local(p)'
  BY <1>0, <1>1, Reflexive
  DEF Local, Between, Gated, Holding, Fresh, Pushes, Pushed, Stopped, TypeOK,
      ClosePcs, GatePcs, Ended
<1>5. ASSUME NEW q \in Procs \ {p} PROVE Untouched(q)
  BY <1>0 DEF Untouched, TypeOK
<1> QED
  BY <1>1, <1>2, <1>3, <1>4, <1>5, StepBy

(* A push is of a commit that contains the main branch it moves.           *)
LEMMA PushKeeps == ASSUME IInv, NEW p \in Procs, Push(p) PROVE IInv'
<1> USE DEF Push, Goes, Ends, Fails, refs, blocks, params, reports, diff, Accepts
<1>0. TypeOK /\ LocalFollowsRemote /\ Local(p)
  BY DEF IInv
<1>a. pc[p] \in {"push", "update_ref"} => sha[p] \in Commits
  BY <1>0 DEF Local, Gated, GatePcs
<1>b. /\ {remote, local, remote', sha[p]} \subseteq Commits \/ remote' = remote
      /\ remote' = remote \/ Contains(remote', remote)
      /\ {remote, local} \subseteq Commits /\ local' = local /\ Contains(remote, local)
  BY <1>0, <1>a DEF LocalFollowsRemote, TypeOK
<1>1. TypeOK'
  <2>1. {remote', tracking', local', feature', prHead'} \subseteq Commits
    BY <1>0, <1>a DEF TypeOK
  <2>2. pc' \in [Procs -> {"new"} \cup ClosePcs \cup GatePcs \cup Ended]
    BY <1>0 DEF TypeOK, ClosePcs, GatePcs, Ended
  <2>3. verdict' \in [Procs -> {"merged", "held", "blocked", None}]
    BY <1>0 DEF TypeOK
  <2>4. pushed' \in [Procs -> Commits \cup {None}]
    BY <1>0, <1>a DEF TypeOK
  <2> QED
    BY <1>0, <2>1, <2>2, <2>3, <2>4 DEF TypeOK
<1>2. Advances
  BY <1>0, Reflexive, <1>a DEF Advances, TypeOK
<1>3. LocalFollowsRemote'
  <2>1. CASE remote' = remote
    BY <1>b, <2>1 DEF LocalFollowsRemote
  <2>2. CASE remote' # remote
    BY <1>b, <2>2, Transitive DEF LocalFollowsRemote
  <2> QED
    BY <2>1, <2>2
<1>4. Local(p)'
  <2>2. Between(p)'
    BY <1>0, <1>1, Reflexive, <1>a DEF Local, Between, Gated, TypeOK, ClosePcs, GatePcs,
       Ended
  <2>3. Gated(p)'
    BY <1>0, <1>1, Reflexive, <1>a DEF Local, Gated, Holding, Fresh, TypeOK, ClosePcs,
       GatePcs, Ended
  <2>4. Pushes(p)'
    <3>1. CASE Goes(p, "push", "update_ref")
      <4>1. /\ sha[p] \in Commits /\ Fresh(p, sha[p]) /\ ~ dry[p] /\ p \notin stood
            /\ vr[p].verdict = "pass" /\ rr[p].verdict = "approve"
        BY <1>0, <3>1 DEF Local, Gated, GatePcs
      <4>2. how[p] = "close" /\ ~ rr[p].ofPR => rr[p].diff = sha[p]
        BY <1>0, <3>1, <4>1, Antisymmetric DEF Local, Between, GatePcs, Fresh
      <4>3. remote' = sha[p] /\ pushed'[p] = sha[p] /\ pc'[p] = "update_ref"
        BY <1>0, <3>1 DEF TypeOK
      <4>4. Contains(remote', sha[p])
        BY <4>1, <4>3, Reflexive
      <4> QED
        BY <4>1, <4>2, <4>3, <4>4, NoneIsNoCommit DEF Pushes, Pushed, Fresh
    <3>2. CASE Fails(p, "push") /\ UNCHANGED <<remote, tracking, pushed>>
      BY <1>0, <3>2 DEF Local, Pushes, Pushed, Fresh, TypeOK, Ended
    <3> QED
      BY <3>1, <3>2
  <2>5. Stopped(p)'
    BY <1>0, <1>1, Reflexive, <1>a DEF Local, Stopped, Gated, TypeOK, ClosePcs, GatePcs,
       Ended
  <2> QED
    BY <2>2, <2>3, <2>4, <2>5 DEF Local
<1>5. ASSUME NEW q \in Procs \ {p} PROVE Untouched(q)
  BY <1>0 DEF Untouched, TypeOK
<1> QED
  BY <1>1, <1>2, <1>3, <1>4, <1>5, StepBy

(* The local main follows a push that is on the remote for good.           *)
LEMMA UpdateRefKeeps == ASSUME IInv, NEW p \in Procs, UpdateRef(p) PROVE IInv'
<1> USE DEF UpdateRef, Goes, Ends, Fails, refs, blocks, params, reports, diff
<1>0. TypeOK /\ LocalFollowsRemote /\ Local(p)
  BY DEF IInv
<1>a. pc[p] \in {"push", "update_ref"} => sha[p] \in Commits
  BY <1>0 DEF Local, Gated, GatePcs
<1>1. TypeOK'
  <2>1. {remote', tracking', local', feature', prHead'} \subseteq Commits
    BY <1>0, <1>a DEF TypeOK
  <2>2. pc' \in [Procs -> {"new"} \cup ClosePcs \cup GatePcs \cup Ended]
    BY <1>0 DEF TypeOK, ClosePcs, GatePcs, Ended
  <2>3. verdict' \in [Procs -> {"merged", "held", "blocked", None}]
    BY <1>0 DEF TypeOK
  <2>4. pushed' \in [Procs -> Commits \cup {None}]
    BY <1>0 DEF TypeOK
  <2> QED
    BY <1>0, <2>1, <2>2, <2>3, <2>4 DEF TypeOK
<1>2. Advances
  BY <1>0, Reflexive DEF Advances, TypeOK
<1>3. LocalFollowsRemote'
  <2>1. pc[p] = "update_ref" /\ Contains(remote, sha[p])
    BY <1>0, NoneIsNoCommit DEF Local, Pushes, Pushed
  <2> QED
    BY <1>0, <2>1 DEF LocalFollowsRemote
<1>4. Local(p)'
  BY <1>0, <1>1, Reflexive
  DEF Local, Between, Gated, Holding, Fresh, Pushes, Pushed, Stopped, TypeOK,
      ClosePcs, GatePcs, Ended
<1>5. ASSUME NEW q \in Procs \ {p} PROVE Untouched(q)
  BY <1>0 DEF Untouched, TypeOK
<1> QED
  BY <1>1, <1>2, <1>3, <1>4, <1>5, StepBy

(* A killed run leaves things as they are.                                 *)
LEMMA CrashKeeps == ASSUME IInv, NEW p \in Procs, Crash(p) PROVE IInv'
<1> USE DEF Crash, Goes, Ends, Fails, refs, blocks, params, reports, diff
<1>0. TypeOK /\ LocalFollowsRemote /\ Local(p)
  BY DEF IInv
<1>1. TypeOK'
  BY <1>0 DEF TypeOK, ClosePcs, GatePcs, Ended
<1>2. Advances
  BY <1>0, Reflexive DEF Advances, TypeOK
<1>3. LocalFollowsRemote'
  BY <1>0 DEF LocalFollowsRemote
<1>4. Local(p)'
  BY <1>0, <1>1, Reflexive
  DEF Local, Between, Gated, Holding, Fresh, Pushes, Pushed, Stopped, TypeOK,
      ClosePcs, GatePcs, Ended
<1>5. ASSUME NEW q \in Procs \ {p} PROVE Untouched(q)
  BY <1>0 DEF Untouched, TypeOK
<1> QED
  BY <1>1, <1>2, <1>3, <1>4, <1>5, StepBy

(* Others add to the branches, and lift blocks only for all to see.        *)
LEMMA OthersKeep == ASSUME IInv, Others PROVE IInv'
<1> USE DEF BlockMoves, CommitToFeature, RebaseFeature, PublishFeature, CommitToMain, SetBlock,
            ClearBlock, DamageBlockFile, RemoveBlockFile, SetLabel, RemoveLabel,
            refs, params, reports, diff
<1>0. TypeOK /\ LocalFollowsRemote /\ \A q \in Procs : Local(q)
  BY DEF IInv
<1>1. {remote, tracking, local, feature, prHead} \subseteq Commits
  BY <1>0 DEF TypeOK
<1>2. feature' \in Commits /\ Contains(feature', feature)
  <2>1. CASE CommitToFeature
    BY <1>1, <2>1 DEF Commits, Contains
  <2>2. CASE RebaseFeature
    BY <1>1, <2>2 DEF Commits, Contains
  <2>3. CASE feature' = feature
    BY <1>1, <2>3, Reflexive
  <2> QED
    BY <2>1, <2>2, <2>3 DEF Others
<1>3. remote' \in Commits /\ Contains(remote', remote)
  <2>1. CASE CommitToMain
    BY <1>1, <2>1 DEF Commits, Contains
  <2>2. CASE remote' = remote
    BY <1>1, <2>2, Reflexive
  <2> QED
    BY <2>1, <2>2 DEF Others
<1>4. /\ tracking' = tracking /\ local' = local /\ prHead' \in Commits
      /\ block' \in {"clear", "blocked", "unreadable"}
      /\ label' \in BOOLEAN
      /\ stood' \subseteq stood
  BY <1>0, <1>1 DEF Others, TypeOK
<1>5. TypeOK'
  BY <1>0, <1>2, <1>3, <1>4 DEF Others, TypeOK
<1>6. Advances
  BY <1>2, <1>3 DEF Advances, Others
<1>7. LocalFollowsRemote'
  BY <1>0, <1>1, <1>3, <1>4, Transitive DEF LocalFollowsRemote
<1>8. ASSUME NEW q \in Procs PROVE Untouched(q)
  <2>1. q \in stood' => q \in stood /\ (how[q] = "pr" /\ label => label')
    BY <1>0 DEF Others, TypeOK
  <2> QED
    BY <2>1 DEF Others, Untouched
<1> QED
  BY <1>5, <1>6, <1>7, <1>8, Frame DEF IInv

-----------------------------------------------------------------------------
(* At the start nothing has been checked, merged or blocked.               *)
LEMMA InitIInv == Init => IInv
<1> SUFFICES ASSUME Init PROVE IInv
  OBVIOUS
<1>1. [f |-> 0, o |-> 0] \in Commits /\ [f |-> 1, o |-> 0] \in Commits
  BY DEF Commits
<1>2. NoVerify \in [tree : Commits \cup {None}, verdict : {"pass", "fail", None}]
  BY DEF NoVerify
<1>3. NoReview \in [tree : Commits \cup {None}, diff : Commits \cup {None}, ofPR : BOOLEAN,
                    verdict : {"approve", "block", None}]
  BY DEF NoReview
<1>4. TypeOK
  BY <1>1, <1>2, <1>3 DEF Init, TypeOK
<1>5. LocalFollowsRemote
  BY <1>1, Reflexive DEF Init, LocalFollowsRemote
<1>6. ASSUME NEW p \in Procs PROVE Local(p)
  BY DEF Init, Local, Between, Gated, Holding, Pushes, Stopped, ClosePcs, GatePcs
<1> QED
  BY <1>4, <1>5, <1>6 DEF IInv

(* Every step keeps the invariant.                                         *)
LEMMA NextIInv == IInv /\ [Next]_vars => IInv'
<1> SUFFICES ASSUME IInv, [Next]_vars PROVE IInv'
  OBVIOUS
<1>1. CASE UNCHANGED vars
  <2>1. TypeOK' /\ LocalFollowsRemote'
    BY <1>1 DEF IInv, TypeOK, LocalFollowsRemote, vars, refs, blocks, params, reports, diff
  <2>2. Advances
    BY <1>1, Reflexive DEF IInv, TypeOK, Advances, vars, refs
  <2>3. ASSUME NEW q \in Procs PROVE Untouched(q)
    BY <1>1 DEF Untouched, vars, refs, blocks, params, reports, diff
  <2> QED
    BY <2>1, <2>2, <2>3, Frame DEF IInv
<1>2. CASE Others
  BY <1>2, OthersKeep
<1>3. ASSUME NEW p \in Procs, CloseStep(p) PROVE IInv'
  BY <1>3, StartCloseKeeps, AcGateKeeps, TakeFeatureDiffKeeps, OpenFeatureDiffKeeps,
     WriteFeatureDiffKeeps, AuthzKeeps, SeamLintKeeps, MutationKeeps, CheckOutKeeps,
     RunVerifyCmdKeeps, FetchPrDiffKeeps, StampReviewKeeps,
     ReviewSessionKeeps DEF CloseStep
<1>4. ASSUME NEW p \in Procs, GateStep(p) PROVE IInv'
  BY <1>4, StartGateKeeps, ResolvePrShaKeeps, ProbeBaseKeeps, IsFfMergeableKeeps,
     EvaluateRulesKeeps, R1RecoveryKeeps, FetchBaseKeeps, PushKeeps, UpdateRefKeeps DEF
     GateStep
<1>5. ASSUME NEW p \in Procs, Crash(p) PROVE IInv'
  BY <1>5, CrashKeeps
<1> QED
  BY <1>1, <1>2, <1>3, <1>4, <1>5 DEF Next

(* The invariant holds in every state of every history.                    *)
THEOREM Invariance == Spec => []IInv
BY InitIInv, NextIInv, PTL DEF Spec

(* The variables of the harness and the gate keep their types.             *)
THEOREM TypeCorrectness == Spec => []TypeOK
<1>1. IInv => TypeOK
  BY DEF IInv
<1> QED
  BY <1>1, Invariance, PTL

(* What a run pushes to main (ff_merge_to_main) was verified and approved  *)
(* under its own tree, however the branch moves.                           *)
THEOREM PushesAreChecked == Spec => []OnlyCheckedIsPushed
<1>1. IInv => OnlyCheckedIsPushed
  <2> SUFFICES ASSUME IInv, NEW p \in Procs, pushed[p] # None
               PROVE  /\ vr[p] = [tree |-> pushed[p], verdict |-> "pass"]
                      /\ rr[p].tree = pushed[p]
                      /\ rr[p].verdict = "approve"
    BY DEF OnlyCheckedIsPushed
  <2>1. Pushed(p)
    BY DEF IInv, Local, Pushes
  <2>2. vr[p] \in [tree : Commits \cup {None}, verdict : {"pass", "fail", None}]
    BY DEF IInv, TypeOK
  <2> QED
    BY <2>1, <2>2 DEF Pushed, Fresh
<1> QED
  BY <1>1, Invariance, PTL

(* What a close run pushes is what the reviewer was shown (execute_review),*)
(* unless gh showed the pull request instead.                              *)
THEOREM PushesWereReviewed == Spec => []ReviewSawMerge
<1>1. IInv => ReviewSawMerge
  BY DEF IInv, Local, Pushes, Pushed, ReviewSawMerge
<1> QED
  BY <1>1, Invariance, PTL

(* A step that moves the origin's main moves it to a commit that has it.   *)
LEMMA RemoteStep == IInv /\ [Next]_vars => Contains(remote', remote)
<1> SUFFICES ASSUME IInv, [Next]_vars PROVE Contains(remote', remote)
  OBVIOUS
<1>1. remote \in Commits
  BY DEF IInv, TypeOK
<1>2. CASE remote' = remote
  BY <1>1, <1>2, Reflexive
<1>3. ASSUME NEW p \in Procs, Push(p) PROVE Contains(remote', remote)
  BY <1>1, <1>2, <1>3 DEF Push, Accepts
<1>4. CASE CommitToMain
  BY <1>1, <1>4 DEF CommitToMain, Commits, Contains
<1>5. ASSUME NEW p \in Procs, CloseStep(p) PROVE remote' = remote
  BY <1>5 DEF CloseStep, StartClose, AcGate, SeamLint, Mutation, Check, TakeFeatureDiff,
     OpenFeatureDiff, WriteFeatureDiff, Authz, CheckOut, RunVerifyCmd, FetchPrDiff,
     StampReview, ReviewSession, refs
<1>6. ASSUME NEW p \in Procs, GateStep(p), ~ Push(p) PROVE remote' = remote
  BY <1>6 DEF GateStep, StartGate, ResolvePrSha, ProbeBase, IsFfMergeable, EvaluateRules,
     R1Recovery, FetchBase, UpdateRef, refs
<1>7. ASSUME NEW p \in Procs, Crash(p) PROVE remote' = remote
  BY <1>7 DEF Crash, refs
<1>8. ASSUME Others, ~ CommitToMain PROVE remote' = remote
  BY <1>8 DEF Others, BlockMoves, CommitToFeature, RebaseFeature, PublishFeature, SetBlock,
     ClearBlock, DamageBlockFile, RemoveBlockFile, SetLabel, RemoveLabel, refs
<1>9. CASE UNCHANGED vars
  BY <1>2, <1>9 DEF vars, refs
<1> QED
  BY <1>2, <1>3, <1>4, <1>5, <1>6, <1>7, <1>8, <1>9 DEF Next

(* No step takes a commit off the origin's main (ff_merge_to_main).        *)
THEOREM RemoteAdvances == Spec => RemoteOnlyFastForwards
BY Invariance, RemoteStep, PTL DEF Spec, RemoteOnlyFastForwards

(* The local main never holds what the origin's main does not              *)
(* (ff_merge_to_main).                                                     *)
THEOREM LocalFollows == Spec => []LocalFollowsRemote
<1>1. IInv => LocalFollowsRemote
  BY DEF IInv
<1> QED
  BY <1>1, Invariance, PTL

(* Reports of merges, of holds and of dry runs stay true (run_close,       *)
(* execute_gate).                                                          *)
THEOREM ReportsAreTrue == Spec => []ReportIsTrue
<1>1. IInv => ReportIsTrue
  BY NoneIsNoCommit DEF IInv, Local, Pushes, Pushed, ReportIsTrue
<1> QED
  BY <1>1, Invariance, PTL

(* A block that stands stops every run that begins under it and can see it *)
(* (load_block, has_human_block_label).                                    *)
THEOREM BlocksHold == Spec => []BlockHolds
<1>1. IInv => BlockHolds
  BY DEF IInv, Local, Pushes, Pushed, BlockHolds
<1> QED
  BY <1>1, Invariance, PTL

-----------------------------------------------------------------------------
(* The file that runs share.                                               *)

AuthzPcs == {"acgate", "authz", "authz_open", "authz_write", "authz_check"}

(* No older than what the authorization of a run may come to judge.        *)
Recent(p, c) == \E s \in since[p] : Contains(c, s)

(* What the authorization check of a run is about to judge: the diffs in   *)
(* the hands of other runs may still come into the file.                   *)
Authorizes(p) ==
    /\ pc[p] \in AuthzPcs => Recent(p, feature) /\ \A q \in Holding : Recent(p, taken[q])
    /\ pc[p] = "authz_check" /\ diffFile \notin {None, Torn} => Recent(p, diffFile)

AInv == \A p \in Procs : Authorizes(p)

(* A diff in somebody's hands was there before or is of the feature, and   *)
(* the file is as it was or holds what somebody had in hand.               *)
LEMMA AuthorizesStep ==
    ASSUME TypeOK, AInv, Contains(feature', feature), feature' \in Commits, NEW q \in Procs,
           pc'[q] \in AuthzPcs => pc[q] \in AuthzPcs /\ since'[q] = since[q],
           \A r \in Holding' : taken'[r] = feature \/ (r \in Holding /\ taken'[r] = taken[r]),
           pc'[q] = "authz_check" /\ diffFile' \notin {None, Torn} =>
               \/ pc[q] = "authz_check" /\ diffFile' = diffFile
               \/ \E r \in Holding : diffFile' = taken[r]
    PROVE  Authorizes(q)'
<1>1. ASSUME pc'[q] \in AuthzPcs
      PROVE  /\ since'[q] = since[q]
             /\ Recent(q, feature) /\ \A r \in Holding : Recent(q, taken[r])
  BY <1>1 DEF AInv, Authorizes
<1>2. ASSUME pc'[q] \in AuthzPcs PROVE Recent(q, feature)'
  <2>1. PICK s \in since[q] : Contains(feature, s)
    BY <1>1, <1>2 DEF Recent
  <2>2. s \in Commits /\ feature \in Commits
    BY DEF TypeOK
  <2>3. Contains(feature', s)
    BY <2>1, <2>2, Transitive
  <2> QED
    BY <1>1, <1>2, <2>3 DEF Recent
<1>3. ASSUME pc'[q] \in AuthzPcs, NEW r \in Holding' PROVE Recent(q, taken[r])'
  <2>1. CASE taken'[r] = feature
    BY <1>1, <1>3, <2>1 DEF Recent
  <2>2. CASE r \in Holding /\ taken'[r] = taken[r]
    BY <1>1, <1>3, <2>2 DEF Recent
  <2> QED
    BY <2>1, <2>2
<1>4. ASSUME pc'[q] = "authz_check", diffFile' \notin {None, Torn} PROVE Recent(q, diffFile)'
  <2>1. pc'[q] \in AuthzPcs
    BY <1>4 DEF AuthzPcs
  <2>2. CASE pc[q] = "authz_check" /\ diffFile' = diffFile
    BY <1>1, <1>4, <2>1, <2>2 DEF AInv, Authorizes, Recent
  <2>3. ASSUME NEW r \in Holding, diffFile' = taken[r] PROVE Recent(q, diffFile)'
    BY <1>1, <2>1, <2>3 DEF Recent
  <2> QED
    BY <1>4, <2>2, <2>3
<1> QED
  BY <1>2, <1>3, <1>4 DEF Authorizes

(* The feature branch only goes forward.                                   *)
LEMMA FeatureStep == IInv /\ [Next]_vars => feature' \in Commits /\ Contains(feature', feature)
<1> SUFFICES ASSUME IInv, [Next]_vars
             PROVE  feature' \in Commits /\ Contains(feature', feature)
  OBVIOUS
<1>1. feature \in Commits /\ remote \in Commits
  BY DEF IInv, TypeOK
<1>2. CASE feature' = feature
  BY <1>1, <1>2, Reflexive
<1>3. CASE CommitToFeature
  BY <1>1, <1>3 DEF CommitToFeature, Commits, Contains
<1>4. CASE RebaseFeature
  BY <1>1, <1>4 DEF RebaseFeature, Commits, Contains
<1>5. ASSUME NEW p \in Procs, CloseStep(p) PROVE feature' = feature
  BY <1>5 DEF CloseStep, StartClose, AcGate, SeamLint, Mutation, Check, TakeFeatureDiff,
     OpenFeatureDiff, WriteFeatureDiff, Authz, CheckOut, RunVerifyCmd, FetchPrDiff,
     StampReview,
     ReviewSession, refs
<1>6. ASSUME NEW p \in Procs, GateStep(p) PROVE feature' = feature
  BY <1>6 DEF GateStep, StartGate, ResolvePrSha, ProbeBase, IsFfMergeable, EvaluateRules,
     R1Recovery, FetchBase, Push, UpdateRef, refs
<1>7. ASSUME NEW p \in Procs, Crash(p) PROVE feature' = feature
  BY <1>7 DEF Crash, refs
<1>8. ASSUME Others, ~ CommitToFeature, ~ RebaseFeature PROVE feature' = feature
  BY <1>8 DEF Others, BlockMoves, PublishFeature, CommitToMain, SetBlock, ClearBlock,
     DamageBlockFile, RemoveBlockFile, SetLabel, RemoveLabel, refs
<1>9. CASE UNCHANGED vars
  BY <1>2, <1>9 DEF vars, refs
<1> QED
  BY <1>2, <1>3, <1>4, <1>5, <1>6, <1>7, <1>8, <1>9 DEF Next

(* A run that begins may see the feature and the diffs held then.          *)
LEMMA StartAuthorizes ==
    ASSUME IInv, AInv, NEW p \in Procs, StartClose(p), NEW q \in Procs
    PROVE  Authorizes(q)'
<1> USE DEF StartClose, HumanBlock, Goes, Ends, Fails, refs, diff
<1>0. TypeOK
  BY DEF IInv
<1>1. /\ feature \in Commits /\ feature' = feature /\ taken' = taken /\ diffFile' = diffFile
      /\ \A c \in Commits : Contains(c, c)
  BY <1>0, Reflexive DEF TypeOK
<1>2. Holding' = Holding
  BY <1>0 DEF Holding, TypeOK
<1>3. CASE q # p
  <2>1. pc'[q] = pc[q] /\ since'[q] = since[q]
    BY <1>0, <1>3 DEF TypeOK
  <2> QED
    BY <1>0, <1>1, <1>2, <2>1, AuthorizesStep
<1>4. CASE q = p
  <2>1. /\ since'[q] = {feature} \cup {taken[r] : r \in Holding}
        /\ pc'[q] \notin {"authz_open", "authz_write", "authz_check"}
    BY <1>0, <1>4 DEF TypeOK, Ended
  <2>2. \A r \in Holding : taken[r] \in Commits
    BY DEF IInv, Local, Gated, Holding
  <2>3. Recent(q, feature)' /\ \A r \in Holding : Recent(q, taken[r])'
    BY <1>1, <2>1, <2>2 DEF Recent
  <2> QED
    BY <1>1, <1>2, <2>1, <2>3 DEF Authorizes, Holding
<1> QED
  BY <1>3, <1>4

(* A step that leaves the file and the diffs in hand alone.                *)
LEMMA ElseAuthorizes ==
    ASSUME TypeOK, AInv, Contains(feature', feature), feature' \in Commits,
           UNCHANGED <<taken, diffFile, since>>, NEW q \in Procs,
           \A r \in Procs : \/ pc'[r] = pc[r]
                            \/ pc'[r] \notin AuthzPcs
                            \/ pc[r] = "acgate" /\ pc'[r] = "authz"
    PROVE  Authorizes(q)'
<1>1. \A r \in Holding' : r \in Holding /\ taken'[r] = taken[r]
  BY DEF Holding, AuthzPcs
<1>2. pc'[q] \in AuthzPcs => pc[q] \in AuthzPcs /\ since'[q] = since[q]
  BY DEF AuthzPcs
<1>3. pc'[q] = "authz_check" => pc[q] = "authz_check" /\ diffFile' = diffFile
  BY DEF AuthzPcs
<1> QED
  BY <1>1, <1>2, <1>3, AuthorizesStep

(* Every step keeps what may come before the authorization recent.         *)
LEMMA NextAuthorizes == IInv /\ AInv /\ [Next]_vars => AInv'
<1> SUFFICES ASSUME IInv, AInv, [Next]_vars, NEW q \in Procs PROVE Authorizes(q)'
  BY DEF AInv
<1> USE DEF Goes, Ends, Fails
<1>0. TypeOK /\ feature \in Commits /\ feature' \in Commits /\ Contains(feature', feature)
  BY FeatureStep DEF IInv, TypeOK
<1>1. ASSUME NEW p \in Procs, StartClose(p) PROVE Authorizes(q)'
  BY <1>0, <1>1, StartAuthorizes
<1>2. ASSUME NEW p \in Procs, TakeFeatureDiff(p) PROVE Authorizes(q)'
  <2>1. /\ diffFile' = diffFile /\ since' = since
        /\ \A r \in Procs \ {p} : pc'[r] = pc[r] /\ taken'[r] = taken[r]
        /\ pc[p] = "authz" /\ pc'[p] \in {"authz_open"} \cup Ended
        /\ pc'[p] = "authz_open" => taken'[p] = feature
    BY <1>0, <1>2 DEF TakeFeatureDiff, TypeOK, params, Ended
  <2>2. \A r \in Holding' : taken'[r] = feature \/ (r \in Holding /\ taken'[r] = taken[r])
    BY <2>1 DEF Holding, Ended
  <2>3. pc'[q] \in AuthzPcs => pc[q] \in AuthzPcs /\ since'[q] = since[q]
    BY <2>1 DEF AuthzPcs, Ended
  <2>4. pc'[q] = "authz_check" => pc[q] = "authz_check" /\ diffFile' = diffFile
    BY <2>1 DEF Ended
  <2> QED
    BY <1>0, <2>2, <2>3, <2>4, AuthorizesStep
<1>3. ASSUME NEW p \in Procs, OpenFeatureDiff(p) PROVE Authorizes(q)'
  <2>1. /\ diffFile' = None /\ since' = since /\ taken' = taken
        /\ \A r \in Procs \ {p} : pc'[r] = pc[r]
        /\ pc[p] = "authz_open" /\ pc'[p] = "authz_write"
    BY <1>0, <1>3 DEF OpenFeatureDiff, TypeOK, params
  <2>2. \A r \in Holding' : r \in Holding /\ taken'[r] = taken[r]
    BY <2>1 DEF Holding
  <2>3. pc'[q] \in AuthzPcs => pc[q] \in AuthzPcs /\ since'[q] = since[q]
    BY <2>1 DEF AuthzPcs
  <2> QED
    BY <1>0, <2>1, <2>2, <2>3, AuthorizesStep
<1>4. ASSUME NEW p \in Procs, WriteFeatureDiff(p) PROVE Authorizes(q)'
  <2>1. /\ since' = since
        /\ \A r \in Procs \ {p} : pc'[r] = pc[r] /\ taken'[r] = taken[r]
        /\ pc[p] = "authz_write" /\ pc'[p] = "authz_check"
        /\ diffFile' \in {taken[p], Torn} /\ p \in Holding
    BY <1>0, <1>4 DEF WriteFeatureDiff, TypeOK, params, Holding
  <2>2. \A r \in Holding' : r \in Holding /\ taken'[r] = taken[r]
    BY <2>1 DEF Holding
  <2>3. pc'[q] \in AuthzPcs => pc[q] \in AuthzPcs /\ since'[q] = since[q]
    BY <2>1 DEF AuthzPcs
  <2> QED
    BY <1>0, <2>1, <2>2, <2>3, AuthorizesStep
<1>5. ASSUME NEW p \in Procs, Authz(p) PROVE Authorizes(q)'
  <2>1. /\ diffFile' = diffFile /\ taken' = taken
        /\ \A r \in Procs \ {p} : pc'[r] = pc[r] /\ since'[r] = since[r]
        /\ pc'[p] \in {"seamlint"} \cup Ended
    BY <1>0, <1>5 DEF Authz, TypeOK, diff, Ended
  <2>2. \A r \in Holding' : r \in Holding /\ taken'[r] = taken[r]
    BY <2>1 DEF Holding, Ended
  <2>3. pc'[q] \in AuthzPcs => pc[q] \in AuthzPcs /\ since'[q] = since[q]
    BY <2>1 DEF AuthzPcs, Ended
  <2>4. pc'[q] = "authz_check" => pc[q] = "authz_check" /\ diffFile' = diffFile
    BY <2>1 DEF Ended
  <2> QED
    BY <1>0, <2>2, <2>3, <2>4, AuthorizesStep
<1>6. ASSUME NEW p \in Procs, Crash(p) PROVE Authorizes(q)'
  <2>1. /\ diffFile' = diffFile /\ since' = since
        /\ \A r \in Procs \ {p} : pc'[r] = pc[r] /\ taken'[r] = taken[r]
        /\ pc'[p] = "dead"
    BY <1>0, <1>6 DEF Crash, TypeOK, params
  <2>2. \A r \in Holding' : r \in Holding /\ taken'[r] = taken[r]
    BY <2>1 DEF Holding
  <2>3. pc'[q] \in AuthzPcs => pc[q] \in AuthzPcs /\ since'[q] = since[q]
    BY <2>1 DEF AuthzPcs
  <2>4. pc'[q] = "authz_check" => pc[q] = "authz_check" /\ diffFile' = diffFile
    BY <2>1
  <2> QED
    BY <1>0, <2>2, <2>3, <2>4, AuthorizesStep
<1>7. ASSUME NEW p \in Procs, AcGate(p) \/ SeamLint(p) \/ Mutation(p) \/ CheckOut(p)
                              \/ RunVerifyCmd(p) \/ FetchPrDiff(p) \/ StampReview(p)
                              \/ ReviewSession(p)
      PROVE  Authorizes(q)'
  <2>1. UNCHANGED <<taken, diffFile, since>>
    BY <1>7 DEF AcGate, SeamLint, Mutation, Check, CheckOut, RunVerifyCmd, FetchPrDiff,
       StampReview, ReviewSession, params, diff
  <2>2. \A r \in Procs \ {p} : pc'[r] = pc[r]
    BY <1>0, <1>7 DEF AcGate, SeamLint, Mutation, Check, CheckOut, RunVerifyCmd,
       FetchPrDiff,
       StampReview, ReviewSession, TypeOK
  <2>3. pc'[p] \notin AuthzPcs \/ (pc[p] = "acgate" /\ pc'[p] = "authz")
    <3>1. CASE AcGate(p) \/ SeamLint(p) \/ Mutation(p)
      BY <1>0, <3>1 DEF AcGate, SeamLint, Mutation, Check, TypeOK, AuthzPcs
    <3>2. CASE ~ (AcGate(p) \/ SeamLint(p) \/ Mutation(p))
      BY <1>0, <1>7, <3>2 DEF CheckOut, RunVerifyCmd, FetchPrDiff, StampReview,
         ReviewSession,
         TypeOK, AuthzPcs
    <3> QED
      BY <3>1, <3>2
  <2> QED
    BY <1>0, <2>1, <2>2, <2>3, ElseAuthorizes
<1>8. ASSUME NEW p \in Procs, GateStep(p) PROVE Authorizes(q)'
  <2>1. /\ UNCHANGED <<taken, diffFile, since>>
        /\ \A r \in Procs : \/ pc'[r] = pc[r]
                            \/ pc'[r] \notin AuthzPcs
                            \/ pc[r] = "acgate" /\ pc'[r] = "authz"
    BY <1>0, <1>8 DEF GateStep, StartGate, ResolvePrSha, ProbeBase, IsFfMergeable,
       EvaluateRules,
       Judge, R1Recovery, FetchBase, Push, UpdateRef, TypeOK, params, diff, AuthzPcs
  <2> QED
    BY <1>0, <2>1, ElseAuthorizes
<1>9. CASE Others \/ UNCHANGED vars
  <2>1. UNCHANGED <<taken, diffFile, since>> /\ \A r \in Procs : pc'[r] = pc[r]
    BY <1>9 DEF Others, vars, params, diff
  <2> QED
    BY <1>0, <2>1, ElseAuthorizes
<1> QED
  BY <1>1, <1>2, <1>3, <1>4, <1>5, <1>6, <1>7, <1>8, <1>9 DEF Next, CloseStep

(* The authorization check judges the branch as it was when its run began, *)
(* or later, or what another run had taken before (_step_authz).           *)
THEOREM AuthzIsRecent == Spec => []AuthzIsCurrent
<1>1. Init => AInv
  BY DEF Init, AInv, Authorizes, AuthzPcs, Holding
<1>2. AInv => AuthzIsCurrent
  BY DEF AInv, Authorizes, AuthzIsCurrent, Recent
<1> QED
  BY <1>1, <1>2, Invariance, NextAuthorizes, PTL DEF Spec

(* Whatever moves between the steps of a run, it merges the commit that    *)
(* was verified, approved and shown to the reviewer (run_close).           *)
THEOREM MergesAreChecked == Spec => []MergeIsChecked
BY PushesAreChecked, PushesWereReviewed, PTL DEF MergeIsChecked

(* Merges that fail, are lost or are killed leave neither main nor the     *)
(* reports saying what is not so (ff_merge_to_main, run_close).            *)
THEOREM MergesAreWhole == Spec => []NothingHalfMerged
BY LocalFollows, ReportsAreTrue, PTL DEF NothingHalfMerged

=============================================================================
