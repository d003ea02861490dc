---------------------------- MODULE FixLoopProofs ---------------------------
(***************************************************************************)
(* Proofs about FixLoop for every value of its constants.                  *)
(***************************************************************************)
EXTENDS FixLoop, TLAPS, SequenceTheorems

-----------------------------------------------------------------------------
(* Branches.  The proofs below use these facts and leave Branch closed.    *)

LEMMA NoBranchTyped == NoBranch \in Branch
BY DEF NoBranch, Branch

LEMMA SingletonTyped ==
  ASSUME NEW n \in Nat
  PROVE  <<Base(n)>> \in Branch /\ <<Base(n)>> # NoBranch
BY DEF NoBranch, Branch, Base, Commit

(* What a rebase leaves is a branch.                                       *)
LEMMA ReplayTyped ==
  ASSUME NEW b \in Nat, NEW branch \in Branch, branch # NoBranch,
         NEW r \in RebaseResults(b, branch)
  PROVE  r \in Branch /\ r # NoBranch
<1>1. Len(branch) \in Nat /\ \A i \in 1 .. Len(branch) : branch[i] \in Commit
  BY LenProperties, ElementOfSeq DEF Branch
<1>2. Base(b) \in Commit
  BY DEF Base, Commit
<1>3. PICK n \in 1 .. Len(branch) : \E k \in Chosen(n, Len(branch)) :
             r = [i \in 1 .. n |-> IF i = 1 THEN Base(b) ELSE branch[k[i]]]
  BY DEF RebaseResults
<1>4. PICK k \in Chosen(n, Len(branch)) :
             r = [i \in 1 .. n |-> IF i = 1 THEN Base(b) ELSE branch[k[i]]]
  BY <1>3
<1>5. \A i \in 2 .. n : k[i] \in 1 .. Len(branch)
  BY <1>1 DEF Chosen
<1>6. \A i \in 1 .. n : r[i] \in Commit
  BY <1>1, <1>2, <1>4, <1>5
<1>7. r \in Seq(Commit) /\ Len(r) = n
  <2>1. r \in [1 .. n -> Commit]
    BY <1>4, <1>6
  <2>2. r \in Seq(Commit)
    BY <1>1, <2>1, SeqDef
  <2> QED
    BY <1>1, <2>1, <2>2, LenProperties
<1> QED
  BY <1>1, <1>7, EmptySeq DEF Branch, NoBranch

(* What commitAll leaves is a branch.                                      *)
LEMMA CommittedTyped ==
  ASSUME local \in Branch, attempt \in Nat
  PROVE  /\ Committed \in Branch
         /\ local # NoBranch => Committed # NoBranch
<1>1. Fix(attempt) \in Commit
  BY DEF Fix, Commit
<1>2. Append(local, Fix(attempt)) \in Branch /\ Append(local, Fix(attempt)) # NoBranch
  BY <1>1, AppendProperties DEF Branch, NoBranch
<1> QED
  BY <1>2 DEF Committed

(* What a person's push leaves is a branch.                                *)
LEMMA ForeignTyped ==
  ASSUME NEW kind \in ForeignKinds, NEW n \in Nat, remote \in Branch
  PROVE  /\ Append(remote, Foreign(kind, n)) \in Branch
         /\ <<Base(0), Foreign(kind, n)>> \in Branch
<1>1. Foreign(kind, n) \in Commit /\ Base(0) \in Commit
  BY DEF Foreign, Base, Commit
<1> QED
  BY <1>1, AppendProperties DEF Branch

-----------------------------------------------------------------------------
(* The first invariant: types, and the budgets.                            *)

(* The branch exists from the checkout on.                                 *)
HasBase == pc \notin {"checkout", "rejected", "done"} => local # NoBranch

(* Every pass that ran is charged to an attempt, to conflictPassesUsed or  *)
(* to the rebase that is running or has thrown.                            *)
Budgets ==
  /\ passes # 0 => pc \in {"resolve", "continue", "forcePush", "failedAfterPr", "rejected",
                           "done"}
  /\ conflictUsed + passes <= ConflictMaxTries
  /\ usage + passes = spent
  /\ spent + (IF pc \in {"checkout", "agent"} THEN 1 ELSE 0) <= attempt + conflictUsed + passes
  /\ pc = "done" /\ result.status # "error" => result.usage = usage

(* What the rebase and the flip rely on when they start.                   *)
Staged ==
  /\ pc \in {"resolve", "continue"} => onto # NotRebasing
  /\ pc = "flip" => lastCi \in {"green", "unverified"}

Ind == TypeOK /\ HasBase /\ Budgets /\ Staged

LEMMA InitInd == Init => Ind
<1> SUFFICES ASSUME Init PROVE Ind
  OBVIOUS
<1>1. pr \in BOOLEAN /\ label \in BOOLEAN
  BY Zenon DEF Init
<1>2. result \in Result /\ result.status = "running"
  BY DEF Init, Result
<1> QED
  BY <1>1, <1>2, NoBranchTyped, CiMaxTriesAssumption, ConflictMaxTriesAssumption
     DEF Init, Ind, TypeOK, HasBase, Budgets, Staged, Stages, NotRebasing

LEMMA NextInd == Ind /\ [Next]_vars => Ind'
<1> SUFFICES ASSUME Ind, [Next]_vars PROVE Ind'
  OBVIOUS
<1> USE CiMaxTriesAssumption, ConflictMaxTriesAssumption
    DEF Ind, TypeOK, HasBase, Budgets, Staged, Stages, Result, Goto, Return, Throw, progress, refs, hub,
        outside, history
<1>1. CASE CheckoutNewBranch
  BY <1>1, SingletonTyped DEF CheckoutNewBranch
<1>2. CASE AgentFinishes
  BY <1>2 DEF AgentFinishes, Measured
<1>3. CASE AgentFails
  BY <1>3 DEF AgentFails, Measured
<1>4. CASE AgentThrows
  BY <1>4 DEF AgentThrows
<1>5. CASE HandleNoDiff
  <2>1. label' \in BOOLEAN
    BY <1>5, Zenon DEF HandleNoDiff
  <2> QED
    BY <1>5, <2>1 DEF HandleNoDiff
<1>6. CASE LocalCheckFails
  BY <1>6 DEF LocalCheckFails, NextAttempt
<1>7. CASE LocalCheckPasses
  BY <1>7 DEF LocalCheckPasses
<1>8. CASE LocalCheckThrows
  BY <1>8 DEF LocalCheckThrows
<1>9. CASE CommitAndPush
  BY <1>9, CommittedTyped DEF CommitAndPush, PushLands, PushFails
<1>10. CASE OpenPullRequest
  <2>1. pr' \in BOOLEAN
    BY <1>10, Zenon DEF OpenPullRequest, EnsurePullRequest
  <2> QED
    BY <1>10, <2>1 DEF OpenPullRequest, EnsurePullRequest
<1>11. CASE ResolveMergeability
  BY <1>11 DEF ResolveMergeability
<1>12. CASE ConfirmOwnership
  BY <1>12 DEF ConfirmOwnership
<1>13. CASE RebaseOnto
  BY <1>13, ReplayTyped DEF RebaseOnto, NotRebasing
<1>14. CASE ResolvePass
  BY <1>14 DEF ResolvePass, GiveUpRebase, BudgetLeft
<1>15. CASE ResolveBudgetSpent
  BY <1>15 DEF ResolveBudgetSpent, GiveUpRebase
<1>16. CASE ResolveThrows
  BY <1>16 DEF ResolveThrows
<1>17. CASE RebaseContinue
  BY <1>17, ReplayTyped DEF RebaseContinue, RebaseFinishes, GiveUpRebase
<1>18. CASE ForcePushWithLease
  BY <1>18 DEF ForcePushWithLease
<1>19. CASE CiPasses
  BY <1>19 DEF CiPasses
<1>20. CASE CiRed
  BY <1>20 DEF CiRed, NextAttempt
<1>21. CASE CiInconclusive
  BY <1>21 DEF CiInconclusive
<1>22. CASE CiThrows
  BY <1>22 DEF CiThrows
<1>23. CASE FlipToReady
  BY <1>23 DEF FlipToReady
<1>24. CASE ExhaustedNoDiff
  BY <1>24 DEF ExhaustedNoDiff
<1>25. CASE ExhaustedPush
  BY <1>25, CommittedTyped DEF ExhaustedPush, PushLands, PushFails
<1>26. CASE ExhaustedOpenPr
  <2>1. pr' \in BOOLEAN
    BY <1>26, Zenon DEF ExhaustedOpenPr, EnsurePullRequest
  <2> QED
    BY <1>26, <2>1 DEF ExhaustedOpenPr, EnsurePullRequest
<1>27. CASE ExhaustedComment
  BY <1>27 DEF ExhaustedComment
<1>28. CASE ExhaustedAnnotate
  BY <1>28 DEF ExhaustedAnnotate
<1>29. CASE FinishNeedsRebase
  BY <1>29 DEF FinishNeedsRebase, LeaveDraft
<1>30. CASE FinishFailedAfterPr
  BY <1>30 DEF FinishFailedAfterPr, LeaveDraft
<1>31. CASE NightCatches
  BY <1>31 DEF NightCatches
<1>32. CASE BaseAdvances
  BY <1>32 DEF BaseAdvances, program
<1>33. ASSUME NEW kind \in HumanKinds, NEW over \in BOOLEAN, HumanPush(kind, over)
       PROVE  Ind'
  BY <1>33, ForeignTyped, HumanKindsAssumption DEF HumanPush, program
<1>34. CASE UNCHANGED vars
  BY <1>34 DEF vars
<1> QED
  BY <1>1, <1>2, <1>3, <1>4, <1>5, <1>6, <1>7, <1>8, <1>9, <1>10, <1>11, <1>12, <1>13, <1>14,
     <1>15, <1>16, <1>17, <1>18, <1>19, <1>20, <1>21, <1>22, <1>23, <1>24, <1>25, <1>26, <1>27,
     <1>28, <1>29, <1>30, <1>31, <1>32, <1>33, <1>34
     DEF Next, Program, People, Finished, FixPass, LocalCheck, Publish, ConflictGate, CiGate,
         Exhausted, Finish

(* The state keeps its types; in particular the attempts and the conflict  *)
(* passes never leave ci_max_tries and conflict_max_tries.                 *)
THEOREM TypeCorrect == Spec => []TypeOK
<1>1. Ind => TypeOK
  BY DEF Ind
<1> QED
  BY <1>1, InitInd, NextInd, PTL DEF Spec

LEMMA IndInvariant == Spec => []Ind
BY InitInd, NextInd, PTL DEF Spec

(* For every ci_max_tries and conflict_max_tries the agent runs at most    *)
(* their sum for an issue.                                                 *)
THEOREM SpendBounded == Spec => []PassesBounded
<1>1. Ind => PassesBounded
  BY CiMaxTriesAssumption, ConflictMaxTriesAssumption DEF Ind, TypeOK, Budgets, PassesBounded
<1> QED
  BY <1>1, IndInvariant, PTL

(* Every measured pass is in the returned usage, or was lost in a rebase   *)
(* that threw.                                                             *)
THEOREM UsageReported == Spec => []UsageIsReported
<1>1. Ind => UsageIsReported
  BY DEF Ind, TypeOK, Budgets, UsageIsReported
<1> QED
  BY <1>1, IndInvariant, PTL

-----------------------------------------------------------------------------
(* The second invariant: the pull request, the gate and the result.        *)

HasPr == {"mergeable", "ownership", "rebase", "resolve", "continue", "forcePush", "ci", "flip",
          "exhaustedComment", "needsRebase", "failedAfterPr"}

(* The program's `pr', GitHub's pull request and the pushed head agree     *)
(* until an error leaves the loop.                                         *)
PrKnown ==
  /\ pc \in HasPr => pr
  /\ pc \in {"checkout", "noDiff", "openPr", "exhaustedOpenPr"} => ~pr
  /\ pc = "agent" /\ pr => attempt > 1
  /\ pr => prState # "none" /\ headSha # NoBranch
  /\ ~pr /\ pc \notin {"rejected", "done"} => prState = "none"
  /\ ~pr /\ pc \notin {"openPr", "exhaustedOpenPr", "rejected", "done"} => headSha = NoBranch
  /\ pc \in {"openPr", "exhaustedOpenPr"} => headSha # NoBranch

(* What stands between the last push and the flip: origin has the head     *)
(* unless a person pushed, and the flip follows a wait for that head.      *)
GateHolds ==
  /\ humans = 0 /\ pc \in {"openPr", "mergeable", "ci", "flip"} => remote = headSha
  /\ pc = "flip" => gated = headSha
  /\ prState = "ready" => pc \in {"failedAfterPr", "done"}

EndsTruly == ResultIsTrue /\ (label => pc = "done")

GateInd == PrKnown /\ GateHolds /\ ReadyWasGated /\ EndsTruly

LEMMA InitGateInd == Init => GateInd
BY DEF Init, GateInd, PrKnown, GateHolds, ReadyWasGated, EndsTruly, ResultIsTrue, HasPr

LEMMA NextGateInd == Ind /\ GateInd /\ [Next]_vars => GateInd'
<1> SUFFICES ASSUME Ind, GateInd, [Next]_vars PROVE GateInd'
  OBVIOUS
<1> USE DEF Ind, TypeOK, HasBase, Staged, GateInd, PrKnown, GateHolds, ReadyWasGated, EndsTruly,
            ResultIsTrue, HasPr, Goto, Return, Throw, progress, refs, hub, outside, history
<1>1. CASE CheckoutNewBranch
  BY <1>1 DEF CheckoutNewBranch
<1>2. CASE AgentFinishes
  BY <1>2 DEF AgentFinishes, Measured
<1>3. CASE AgentFails
  BY <1>3 DEF AgentFails, Measured
<1>4. CASE AgentThrows
  BY <1>4 DEF AgentThrows
<1>5. CASE HandleNoDiff
  BY <1>5 DEF HandleNoDiff
<1>6. CASE LocalCheckFails
  BY <1>6 DEF LocalCheckFails, NextAttempt
<1>7. CASE LocalCheckPasses
  BY <1>7 DEF LocalCheckPasses
<1>8. CASE LocalCheckThrows
  BY <1>8 DEF LocalCheckThrows
<1>9. CASE CommitAndPush
  BY <1>9, CommittedTyped DEF CommitAndPush, PushLands, PushFails
<1>10. CASE OpenPullRequest
  BY <1>10 DEF OpenPullRequest, EnsurePullRequest
<1>11. CASE ResolveMergeability
  BY <1>11 DEF ResolveMergeability
<1>12. CASE ConfirmOwnership
  BY <1>12 DEF ConfirmOwnership
<1>13. CASE RebaseOnto
  BY <1>13 DEF RebaseOnto
<1>14. CASE ResolvePass
  BY <1>14 DEF ResolvePass, GiveUpRebase
<1>15. CASE ResolveBudgetSpent
  BY <1>15 DEF ResolveBudgetSpent, GiveUpRebase
<1>16. CASE ResolveThrows
  BY <1>16 DEF ResolveThrows
<1>17. CASE RebaseContinue
  BY <1>17 DEF RebaseContinue, RebaseFinishes, GiveUpRebase
<1>18. CASE ForcePushWithLease
  BY <1>18 DEF ForcePushWithLease
<1>19. CASE CiPasses
  BY <1>19 DEF CiPasses
<1>20. CASE CiRed
  BY <1>20 DEF CiRed, NextAttempt
<1>21. CASE CiInconclusive
  BY <1>21 DEF CiInconclusive
<1>22. CASE CiThrows
  BY <1>22 DEF CiThrows
<1>23. CASE FlipToReady
  BY <1>23 DEF FlipToReady, Written
<1>24. CASE ExhaustedNoDiff
  BY <1>24 DEF ExhaustedNoDiff
<1>25. CASE ExhaustedPush
  BY <1>25, CommittedTyped DEF ExhaustedPush, PushLands, PushFails
<1>26. CASE ExhaustedOpenPr
  BY <1>26 DEF ExhaustedOpenPr, EnsurePullRequest
<1>27. CASE ExhaustedComment
  BY <1>27 DEF ExhaustedComment
<1>28. CASE ExhaustedAnnotate
  BY <1>28 DEF ExhaustedAnnotate
<1>29. CASE FinishNeedsRebase
  BY <1>29 DEF FinishNeedsRebase, LeaveDraft
<1>30. CASE FinishFailedAfterPr
  BY <1>30 DEF FinishFailedAfterPr, LeaveDraft
<1>31. CASE NightCatches
  BY <1>31 DEF NightCatches
<1>32. CASE BaseAdvances
  BY <1>32 DEF BaseAdvances, program
<1>33. ASSUME NEW kind \in HumanKinds, NEW over \in BOOLEAN, HumanPush(kind, over)
       PROVE  GateInd'
  BY <1>33 DEF HumanPush, program
<1>34. CASE UNCHANGED vars
  BY <1>34 DEF vars
<1> QED
  BY <1>1, <1>2, <1>3, <1>4, <1>5, <1>6, <1>7, <1>8, <1>9, <1>10, <1>11, <1>12, <1>13, <1>14,
     <1>15, <1>16, <1>17, <1>18, <1>19, <1>20, <1>21, <1>22, <1>23, <1>24, <1>25, <1>26, <1>27,
     <1>28, <1>29, <1>30, <1>31, <1>32, <1>33, <1>34
     DEF Next, Program, People, Finished, FixPass, LocalCheck, Publish, ConflictGate, CiGate,
         Exhausted, Finish

(* For every budget and fault set, a ready pull request is one the CI wait *)
(* let through at the head fixowl last pushed.                             *)
THEOREM ReadyOnlyGated == Spec => []ReadyWasGated
<1>1. GateInd => ReadyWasGated
  BY DEF GateInd
<1> QED
  BY <1>1, InitGateInd, NextGateInd, IndInvariant, PTL DEF Spec

(* The result the night reads is true of the pull request, for every       *)
(* budget and fault set.                                                   *)
THEOREM ResultTrue == Spec => []ResultIsTrue
<1>1. GateInd => ResultIsTrue
  BY DEF GateInd, EndsTruly
<1> QED
  BY <1>1, InitGateInd, NextGateInd, IndInvariant, PTL DEF Spec

(* While no call succeeds whose answer is lost, an exception leaves        *)
(* processIssue over an open pull request only from finishExhausted.       *)
THEOREM LoopErrorsKept ==
  ASSUME "reply" \notin Faults
  PROVE  Spec => LoopErrorsKeepTheirPr
<1> DEFINE Kept == pc # "rejected" /\ pc' = "rejected" /\ prState' # "none" =>
                     pc \in {"exhausted", "exhaustedOpenPr", "exhaustedComment"}
<1>1. Ind /\ GateInd /\ [Next]_vars => [Kept]_vars
  <2> SUFFICES ASSUME Ind, GateInd, Next, pc # "rejected", pc' = "rejected"
               PROVE  prState' = "none" \/ pc \in {"exhausted", "exhaustedOpenPr",
                                                   "exhaustedComment"}
    OBVIOUS
  <2> USE DEF Goto, Throw, Return, hub, GateInd, PrKnown, HasPr
  <2>1. CASE CheckoutNewBranch
    BY <2>1 DEF CheckoutNewBranch
  <2>2. CASE FixPass
    BY <2>2 DEF FixPass, AgentFinishes, AgentFails, AgentThrows, HandleNoDiff
  <2>3. CASE LocalCheck
    BY <2>3 DEF LocalCheck, LocalCheckFails, LocalCheckPasses, LocalCheckThrows, NextAttempt
  <2>4. CASE Publish
    BY <2>4 DEF Publish, CommitAndPush, PushLands, PushFails, OpenPullRequest,
                EnsurePullRequest, May
  <2>5. CASE ConflictGate
    BY <2>5 DEF ConflictGate, ResolveMergeability, ConfirmOwnership, RebaseOnto, ResolvePass,
                ResolveBudgetSpent, ResolveThrows, RebaseContinue, RebaseFinishes,
                GiveUpRebase, ForcePushWithLease
  <2>6. CASE CiGate
    BY <2>6 DEF CiGate, CiPasses, CiRed, CiInconclusive, CiThrows, FlipToReady, NextAttempt
  <2>7. CASE Exhausted
    BY <2>7 DEF Exhausted, ExhaustedNoDiff, ExhaustedPush, ExhaustedOpenPr, ExhaustedComment,
                ExhaustedAnnotate, PushLands
  <2>8. CASE Finish
    BY <2>8 DEF Finish, FinishNeedsRebase, FinishFailedAfterPr, NightCatches
  <2>9. CASE People \/ Finished
    BY <2>9 DEF People, BaseAdvances, HumanPush, Finished, vars, program
  <2> QED
    BY <2>1, <2>2, <2>3, <2>4, <2>5, <2>6, <2>7, <2>8, <2>9 DEF Next, Program
<1> QED
  BY <1>1, InitGateInd, NextGateInd, IndInvariant, PTL DEF Spec, LoopErrorsKeepTheirPr

-----------------------------------------------------------------------------
(* The third invariant: whose commits are where.                           *)

Own(branch) == \A i \in DOMAIN branch : branch[i].by \in {"base", "fixowl"}

(* People's commits, none of them with fixowl's mark, lie on top.          *)
Layered(branch) ==
  /\ \A i \in DOMAIN branch : branch[i].by \in {"base", "fixowl", "human"}
  /\ \A i, j \in DOMAIN branch : i < j /\ branch[i].by = "human" => branch[j].by = "human"

Owners ==
  /\ Own(local)
  /\ Layered(remote)
  /\ pc \in {"rebase", "resolve", "continue", "forcePush"} => FixowlTip(tracking)

LEMMA OwnCommitted ==
  ASSUME local \in Branch, attempt \in Nat, Own(local)
  PROVE  Own(Committed)
<1>1. Fix(attempt) \in Commit /\ Fix(attempt).by = "fixowl"
  BY DEF Fix, Commit
<1>2. CASE tree = "clean"
  BY <1>2 DEF Committed
<1>3. CASE tree # "clean"
  <2> DEFINE c == Append(local, Fix(attempt))
  <2>1. /\ Len(c) = Len(local) + 1
        /\ DOMAIN c = 1 .. Len(c)
        /\ \A i \in 1 .. Len(local) : c[i] = local[i]
        /\ c[Len(local) + 1] = Fix(attempt)
    BY <1>1, AppendProperties, LenProperties DEF Branch
  <2>2. DOMAIN local = 1 .. Len(local) /\ Len(local) \in Nat
    BY LenProperties DEF Branch
  <2> QED
    BY <1>1, <1>3, <2>1, <2>2 DEF Committed, Own
<1> QED
  BY <1>2, <1>3

LEMMA OwnReplayed ==
  ASSUME NEW b \in Nat, NEW branch \in Branch, branch # NoBranch, Own(branch),
         NEW r \in RebaseResults(b, branch)
  PROVE  Own(r)
<1>1. Len(branch) \in Nat /\ DOMAIN branch = 1 .. Len(branch)
  BY LenProperties DEF Branch
<1>2. PICK n \in 1 .. Len(branch) : \E k \in Chosen(n, Len(branch)) :
             r = [i \in 1 .. n |-> IF i = 1 THEN Base(b) ELSE branch[k[i]]]
  BY DEF RebaseResults
<1>3. PICK k \in Chosen(n, Len(branch)) :
             r = [i \in 1 .. n |-> IF i = 1 THEN Base(b) ELSE branch[k[i]]]
  BY <1>2
<1>4. \A i \in 2 .. n : k[i] \in 2 .. Len(branch)
  BY <1>1 DEF Chosen
<1> QED
  BY <1>1, <1>3, <1>4 DEF Own, Base

(* A layered branch with fixowl's tip is fixowl's through and through.     *)
LEMMA TipOwnsBranch ==
  ASSUME NEW branch \in Branch, Layered(branch), FixowlTip(branch)
  PROVE  Own(branch)
<1>1. /\ Len(branch) \in DOMAIN branch
      /\ DOMAIN branch = 1 .. Len(branch)
      /\ Len(branch) \in Nat
  BY EmptySeq, LenProperties DEF Branch, NoBranch, FixowlTip
<1>2. branch[Len(branch)].by = "fixowl"
  BY <1>1 DEF FixowlTip, Last, Layered
<1> QED
  BY <1>1, <1>2 DEF Layered, Own

LEMMA PrefixOwned ==
  ASSUME NEW s \in Branch, NEW t \in Branch, IsPrefix(s, t), Own(t)
  PROVE  Own(s)
<1>1. /\ DOMAIN s = 1 .. Len(s) /\ Len(s) \in Nat
      /\ DOMAIN t = 1 .. Len(t) /\ Len(t) \in Nat
  BY LenProperties DEF Branch
<1>2. Len(s) <= Len(t) /\ \A i \in 1 .. Len(s) : s[i] = t[i]
  <2>1. \A i \in 1 .. Len(s) : SubSeq(s, 1, Len(s))[i] = s[i]
    BY <1>1 DEF Branch
  <2>2. \A i \in 1 .. Len(s) : SubSeq(t, 1, Len(s))[i] = t[i]
    BY <1>1 DEF Branch, IsPrefix
  <2> QED
    BY <2>1, <2>2 DEF IsPrefix
<1> QED
  BY <1>1, <1>2 DEF Own

LEMMA OwnIsLayered ==
  ASSUME NEW branch, Own(branch)
  PROVE  Layered(branch) /\ HumanWork(branch) = {}
BY DEF Own, Layered, HumanWork, ForeignKinds

LEMMA ForeignLayered ==
  ASSUME NEW n \in Nat, remote \in Branch, Layered(remote)
  PROVE  /\ Layered(Append(remote, Foreign("human", n)))
         /\ Layered(<<Base(0), Foreign("human", n)>>)
<1> DEFINE c == Append(remote, Foreign("human", n))
<1>1. Foreign("human", n) \in Commit /\ Foreign("human", n).by = "human"
  BY DEF Foreign, Commit, ForeignKinds
<1>2. /\ Len(c) = Len(remote) + 1
      /\ DOMAIN c = 1 .. Len(c)
      /\ \A i \in 1 .. Len(remote) : c[i] = remote[i]
      /\ c[Len(remote) + 1] = Foreign("human", n)
      /\ DOMAIN remote = 1 .. Len(remote)
      /\ Len(remote) \in Nat
  BY <1>1, AppendProperties, LenProperties DEF Branch
<1>3. Layered(c)
  BY <1>1, <1>2 DEF Layered
<1>4. Layered(<<Base(0), Foreign("human", n)>>)
  BY DEF Layered, Base, Foreign
<1> QED
  BY <1>3, <1>4

LEMMA SingletonOwn ==
  ASSUME NEW n
  PROVE  Own(<<Base(n)>>)
BY DEF Own, Base

LEMMA OnlyHuman ==
  ASSUME "lookalike" \notin HumanKinds, NEW kind \in HumanKinds
  PROVE  kind = "human"
BY HumanKindsAssumption DEF ForeignKinds

LEMMA InitOwners == Init => Owners
BY DEF Init, Owners, Own, Layered, NoBranch

LEMMA NextOwners ==
  ASSUME "lookalike" \notin HumanKinds
  PROVE  Ind /\ Owners /\ [Next]_vars => Owners'
<1> SUFFICES ASSUME Ind, Owners, [Next]_vars PROVE Owners'
  OBVIOUS
<1> USE DEF Ind, TypeOK, HasBase, Staged, Owners, Goto, Return, Throw, progress, refs, hub,
            outside, history
<1>1. CASE CheckoutNewBranch
  BY <1>1, SingletonOwn DEF CheckoutNewBranch
<1>2. CASE AgentFinishes
  BY <1>2 DEF AgentFinishes, Measured
<1>3. CASE AgentFails
  BY <1>3 DEF AgentFails, Measured
<1>4. CASE AgentThrows
  BY <1>4 DEF AgentThrows
<1>5. CASE HandleNoDiff
  BY <1>5 DEF HandleNoDiff
<1>6. CASE LocalCheckFails
  BY <1>6 DEF LocalCheckFails, NextAttempt
<1>7. CASE LocalCheckPasses
  BY <1>7 DEF LocalCheckPasses
<1>8. CASE LocalCheckThrows
  BY <1>8 DEF LocalCheckThrows
<1>9. CASE CommitAndPush
  BY <1>9, OwnCommitted, OwnIsLayered DEF CommitAndPush, PushLands, PushFails
<1>10. CASE OpenPullRequest
  BY <1>10 DEF OpenPullRequest, EnsurePullRequest
<1>11. CASE ResolveMergeability
  BY <1>11 DEF ResolveMergeability
<1>12. CASE ConfirmOwnership
  BY <1>12 DEF ConfirmOwnership
<1>13. CASE RebaseOnto
  BY <1>13, OwnReplayed DEF RebaseOnto
<1>14. CASE ResolvePass
  BY <1>14 DEF ResolvePass, GiveUpRebase
<1>15. CASE ResolveBudgetSpent
  BY <1>15 DEF ResolveBudgetSpent, GiveUpRebase
<1>16. CASE ResolveThrows
  BY <1>16 DEF ResolveThrows
<1>17. CASE RebaseContinue
  BY <1>17, OwnReplayed DEF RebaseContinue, RebaseFinishes, GiveUpRebase
<1>18. CASE ForcePushWithLease
  BY <1>18, OwnIsLayered DEF ForcePushWithLease
<1>19. CASE CiPasses
  BY <1>19 DEF CiPasses
<1>20. CASE CiRed
  BY <1>20 DEF CiRed, NextAttempt
<1>21. CASE CiInconclusive
  BY <1>21 DEF CiInconclusive
<1>22. CASE CiThrows
  BY <1>22 DEF CiThrows
<1>23. CASE FlipToReady
  BY <1>23 DEF FlipToReady, Written
<1>24. CASE ExhaustedNoDiff
  BY <1>24 DEF ExhaustedNoDiff
<1>25. CASE ExhaustedPush
  BY <1>25, OwnCommitted, OwnIsLayered DEF ExhaustedPush, PushLands, PushFails
<1>26. CASE ExhaustedOpenPr
  BY <1>26 DEF ExhaustedOpenPr, EnsurePullRequest
<1>27. CASE ExhaustedComment
  BY <1>27 DEF ExhaustedComment
<1>28. CASE ExhaustedAnnotate
  BY <1>28 DEF ExhaustedAnnotate
<1>29. CASE FinishNeedsRebase
  BY <1>29 DEF FinishNeedsRebase, LeaveDraft
<1>30. CASE FinishFailedAfterPr
  BY <1>30 DEF FinishFailedAfterPr, LeaveDraft
<1>31. CASE NightCatches
  BY <1>31 DEF NightCatches
<1>32. CASE BaseAdvances
  BY <1>32 DEF BaseAdvances, program
<1>33. ASSUME NEW kind \in HumanKinds, NEW over \in BOOLEAN, HumanPush(kind, over)
       PROVE  Owners'
  BY <1>33, ForeignLayered, OnlyHuman DEF HumanPush, program
<1>34. CASE UNCHANGED vars
  BY <1>34 DEF vars
<1> QED
  BY <1>1, <1>2, <1>3, <1>4, <1>5, <1>6, <1>7, <1>8, <1>9, <1>10, <1>11, <1>12, <1>13, <1>14,
     <1>15, <1>16, <1>17, <1>18, <1>19, <1>20, <1>21, <1>22, <1>23, <1>24, <1>25, <1>26, <1>27,
     <1>28, <1>29, <1>30, <1>31, <1>32, <1>33, <1>34
     DEF Next, Program, People, Finished, FixPass, LocalCheck, Publish, ConflictGate, CiGate,
         Exhausted, Finish

(* Three actions of the program write the branch on origin.                *)
LEMMA RemoteWriters ==
  ASSUME Next, humans' = humans, humans \in Nat
  PROVE  CommitAndPush \/ ExhaustedPush \/ ForcePushWithLease \/ remote' = remote
<1> USE DEF refs
<1>1. CASE CheckoutNewBranch
  BY <1>1 DEF CheckoutNewBranch
<1>2. CASE FixPass
  BY <1>2 DEF FixPass, AgentFinishes, AgentFails, AgentThrows, HandleNoDiff
<1>3. CASE LocalCheck
  BY <1>3 DEF LocalCheck, LocalCheckFails, LocalCheckPasses, LocalCheckThrows
<1>4. CASE Publish
  BY <1>4 DEF Publish, OpenPullRequest, EnsurePullRequest
<1>5. CASE ConflictGate
  BY <1>5 DEF ConflictGate, ResolveMergeability, ConfirmOwnership, RebaseOnto, ResolvePass,
              ResolveBudgetSpent, ResolveThrows, RebaseContinue
<1>6. CASE CiGate
  BY <1>6 DEF CiGate, CiPasses, CiRed, CiInconclusive, CiThrows, FlipToReady
<1>7. CASE Exhausted
  BY <1>7 DEF Exhausted, ExhaustedNoDiff, ExhaustedOpenPr, ExhaustedComment,
              ExhaustedAnnotate, EnsurePullRequest
<1>8. CASE Finish
  BY <1>8 DEF Finish, FinishNeedsRebase, FinishFailedAfterPr, LeaveDraft, NightCatches
<1>9. CASE People \/ Finished
  BY <1>9 DEF People, BaseAdvances, HumanPush, Finished, vars, program
<1> QED
  BY <1>1, <1>2, <1>3, <1>4, <1>5, <1>6, <1>7, <1>8, <1>9 DEF Next, Program

(* Where people's commits do not carry fixowl's mark, no step of fixowl    *)
(* removes one from the branch on origin, whatever they push and when.     *)
THEOREM HumanWorkKept ==
  ASSUME "lookalike" \notin HumanKinds
  PROVE  Spec => HumanWorkSurvives
<1> DEFINE Kept == humans' = humans => HumanWork(remote) \subseteq HumanWork(remote')
<1>1. ASSUME Ind, Owners, Next, humans' = humans
      PROVE  HumanWork(remote) \subseteq HumanWork(remote')
  <2>1. ASSUME IsPrefix(remote, Committed)
        PROVE  HumanWork(remote) = {}
    <3>1. Committed \in Branch /\ Own(Committed)
      BY <1>1, CommittedTyped, OwnCommitted, CiMaxTriesAssumption DEF Ind, TypeOK, Owners
    <3> QED
      BY <1>1, <2>1, <3>1, PrefixOwned, OwnIsLayered DEF Ind, TypeOK
  <2>2. CASE CommitAndPush
    BY <2>1, <2>2 DEF CommitAndPush, PushLands, PushFails
  <2>3. CASE ExhaustedPush
    BY <2>1, <2>3 DEF ExhaustedPush, PushLands, PushFails
  <2>4. CASE ForcePushWithLease
    <3>1. CASE remote = tracking
      <4>1. FixowlTip(remote) /\ Layered(remote) /\ remote \in Branch
        BY <1>1, <2>4, <3>1 DEF Ind, TypeOK, Owners, ForcePushWithLease
      <4> QED
        BY <4>1, TipOwnsBranch, OwnIsLayered
    <3>2. CASE remote # tracking
      BY <2>4, <3>2 DEF ForcePushWithLease
    <3> QED
      BY <3>1, <3>2
  <2>5. CASE remote' = remote
    BY <2>5 DEF HumanWork
  <2> QED
    BY <1>1, <2>2, <2>3, <2>4, <2>5, RemoteWriters DEF Ind, TypeOK
<1>2. Ind /\ Owners /\ [Next]_vars => [Kept]_vars
  BY <1>1
<1> QED
  BY <1>2, InitOwners, NextOwners, IndInvariant, PTL DEF Spec, HumanWorkSurvives

LEMMA PrefixOfItself ==
  ASSUME NEW branch \in Branch
  PROVE  IsPrefix(branch, branch)
<1>1. Len(branch) \in Nat /\ DOMAIN branch = 1 .. Len(branch)
  BY LenProperties DEF Branch
<1> QED
  BY <1>1 DEF IsPrefix, Branch

(* From the ownership check to the force-push the lease holds a branch     *)
(* whose tip was fixowl's.                                                 *)
Leased == pc \in {"rebase", "resolve", "continue", "forcePush"} => FixowlTip(tracking)

LEMMA NextLeased == Leased /\ [Next]_vars => Leased'
<1> SUFFICES ASSUME Leased, [Next]_vars, pc' \in {"rebase", "resolve", "continue", "forcePush"}
             PROVE  FixowlTip(tracking)'
  BY DEF Leased
<1> USE DEF Leased, Goto, Return, Throw, refs
<1>1. CASE CheckoutNewBranch
  BY <1>1 DEF CheckoutNewBranch
<1>2. CASE FixPass
  BY <1>2 DEF FixPass, AgentFinishes, AgentFails, AgentThrows, HandleNoDiff
<1>3. CASE LocalCheck
  BY <1>3 DEF LocalCheck, LocalCheckFails, LocalCheckPasses, LocalCheckThrows, NextAttempt
<1>4. CASE Publish
  BY <1>4 DEF Publish, CommitAndPush, PushLands, PushFails, OpenPullRequest, EnsurePullRequest
<1>5. CASE ConflictGate
  <2>1. CASE ResolveMergeability \/ ConfirmOwnership \/ RebaseOnto
    BY <1>5, <2>1 DEF ResolveMergeability, ConfirmOwnership, RebaseOnto, FixowlTip
  <2>2. CASE ResolvePass \/ ResolveBudgetSpent \/ ResolveThrows
    BY <1>5, <2>2 DEF ResolvePass, ResolveBudgetSpent, ResolveThrows, GiveUpRebase
  <2>3. CASE RebaseContinue \/ ForcePushWithLease
    BY <1>5, <2>3 DEF RebaseContinue, RebaseFinishes, GiveUpRebase, ForcePushWithLease
  <2> QED
    BY <1>5, <2>1, <2>2, <2>3 DEF ConflictGate
<1>6. CASE CiGate
  BY <1>6 DEF CiGate, CiPasses, CiRed, CiInconclusive, CiThrows, FlipToReady, NextAttempt
<1>7. CASE Exhausted
  BY <1>7 DEF Exhausted, ExhaustedNoDiff, ExhaustedPush, ExhaustedOpenPr, ExhaustedComment,
              ExhaustedAnnotate, PushLands, PushFails, EnsurePullRequest
<1>8. CASE Finish
  BY <1>8 DEF Finish, FinishNeedsRebase, FinishFailedAfterPr, LeaveDraft, NightCatches
<1>9. CASE People \/ UNCHANGED vars
  BY <1>9 DEF People, BaseAdvances, HumanPush, vars, program
<1> QED
  BY <1>1, <1>2, <1>3, <1>4, <1>5, <1>6, <1>7, <1>8, <1>9 DEF Next, Program, Finished

(* Whoever may carry the mark, fixowl rewrites the branch on origin only   *)
(* while its tip has it.                                                   *)
THEOREM RewritesMarked == Spec => RewritesOnlyMarkedTips
<1> DEFINE Marked == humans' = humans /\ ~IsPrefix(remote, remote') => FixowlTip(remote)
<1>1. Init => Leased
  BY DEF Init, Leased
<1>2. ASSUME Ind, Leased, Next, humans' = humans, ~IsPrefix(remote, remote')
      PROVE  FixowlTip(remote)
  <2>1. remote' # remote
    BY <1>2, PrefixOfItself DEF Ind, TypeOK
  <2>2. ~CommitAndPush /\ ~ExhaustedPush
    BY <1>2, <2>1 DEF CommitAndPush, ExhaustedPush, PushLands, PushFails
  <2>3. ForcePushWithLease
    BY <1>2, <2>1, <2>2, RemoteWriters DEF Ind, TypeOK
  <2> QED
    BY <1>2, <2>1, <2>3 DEF ForcePushWithLease, Leased
<1>3. Ind /\ Leased /\ [Next]_vars => [Marked]_vars
  BY <1>2
<1> QED
  BY <1>1, <1>3, NextLeased, IndInvariant, PTL DEF Spec, RewritesOnlyMarkedTips

-----------------------------------------------------------------------------
(* The loop implements DraftPromise.                                       *)

LEMMA StepKeepsPromise ==
  Ind /\ GateInd /\ [Next]_vars => [Promise!Next]_(Promise!vars)
<1> SUFFICES ASSUME Ind, GateInd, [Next]_vars
             PROVE  Promise!Next \/ UNCHANGED Promise!vars
  OBVIOUS
<1> USE DEF Ind, TypeOK, Result, Staged, GateInd, PrKnown, GateHolds, EndsTruly, ResultIsTrue, HasPr,
            Goto, Return, Throw, progress, refs, hub, outside, history, Report,
            Promise!Next, Promise!vars, Promise!Publish, Promise!Open, Promise!Vet, Promise!Flip,
            Promise!Finish
<1>1. CASE CheckoutNewBranch
  BY <1>1 DEF CheckoutNewBranch
<1>2. CASE AgentFinishes
  BY <1>2 DEF AgentFinishes, Measured
<1>3. CASE AgentFails
  BY <1>3 DEF AgentFails, Measured
<1>4. CASE AgentThrows
  BY <1>4 DEF AgentThrows
<1>5. CASE HandleNoDiff
  BY <1>5 DEF HandleNoDiff
<1>6. CASE LocalCheckFails
  BY <1>6 DEF LocalCheckFails, NextAttempt
<1>7. CASE LocalCheckPasses
  BY <1>7 DEF LocalCheckPasses
<1>8. CASE LocalCheckThrows
  BY <1>8 DEF LocalCheckThrows
<1>9. CASE CommitAndPush
  BY <1>9 DEF CommitAndPush, PushLands, PushFails
<1>10. CASE OpenPullRequest
  BY <1>10 DEF OpenPullRequest, EnsurePullRequest
<1>11. CASE ResolveMergeability
  BY <1>11 DEF ResolveMergeability
<1>12. CASE ConfirmOwnership
  BY <1>12 DEF ConfirmOwnership
<1>13. CASE RebaseOnto
  BY <1>13 DEF RebaseOnto
<1>14. CASE ResolvePass
  BY <1>14 DEF ResolvePass, GiveUpRebase
<1>15. CASE ResolveBudgetSpent
  BY <1>15 DEF ResolveBudgetSpent, GiveUpRebase
<1>16. CASE ResolveThrows
  BY <1>16 DEF ResolveThrows
<1>17. CASE RebaseContinue
  BY <1>17 DEF RebaseContinue, RebaseFinishes, GiveUpRebase
<1>18. CASE ForcePushWithLease
  BY <1>18 DEF ForcePushWithLease
<1>19. CASE CiPasses
  BY <1>19 DEF CiPasses
<1>20. CASE CiRed
  BY <1>20 DEF CiRed, NextAttempt
<1>21. CASE CiInconclusive
  BY <1>21 DEF CiInconclusive
<1>22. CASE CiThrows
  BY <1>22 DEF CiThrows
<1>23. CASE FlipToReady
  BY <1>23 DEF FlipToReady, Written
<1>24. CASE ExhaustedNoDiff
  BY <1>24 DEF ExhaustedNoDiff
<1>25. CASE ExhaustedPush
  BY <1>25 DEF ExhaustedPush, PushLands, PushFails
<1>26. CASE ExhaustedOpenPr
  BY <1>26 DEF ExhaustedOpenPr, EnsurePullRequest
<1>27. CASE ExhaustedComment
  BY <1>27 DEF ExhaustedComment
<1>28. CASE ExhaustedAnnotate
  BY <1>28 DEF ExhaustedAnnotate
<1>29. CASE FinishNeedsRebase
  BY <1>29 DEF FinishNeedsRebase, LeaveDraft
<1>30. CASE FinishFailedAfterPr
  BY <1>30 DEF FinishFailedAfterPr, LeaveDraft
<1>31. CASE NightCatches
  BY <1>31 DEF NightCatches
<1>32. CASE BaseAdvances
  BY <1>32 DEF BaseAdvances, program
<1>33. ASSUME NEW kind \in HumanKinds, NEW over \in BOOLEAN, HumanPush(kind, over)
       PROVE  Promise!Next \/ UNCHANGED Promise!vars
  BY <1>33 DEF HumanPush, program
<1>34. CASE UNCHANGED vars
  BY <1>34 DEF vars
<1> QED
  BY <1>1, <1>2, <1>3, <1>4, <1>5, <1>6, <1>7, <1>8, <1>9, <1>10, <1>11, <1>12, <1>13, <1>14,
     <1>15, <1>16, <1>17, <1>18, <1>19, <1>20, <1>21, <1>22, <1>23, <1>24, <1>25, <1>26, <1>27,
     <1>28, <1>29, <1>30, <1>31, <1>32, <1>33, <1>34
     DEF Next, Program, People, Finished, FixPass, LocalCheck, Publish, ConflictGate, CiGate,
         Exhausted, Finish

(* For every budget, fault set and behaviour of people, the loop is a      *)
(* behaviour of the draft promise: the pull request is born a draft over   *)
(* pushed work, turns ready over a head the gate let through, and is       *)
(* reported once and truly.                                                *)
THEOREM LoopKeepsPromise == Spec => KeepsPromise
<1>1. Init => Promise!Init
  BY DEF Init, Promise!Init, Report
<1> QED
  BY <1>1, StepKeepsPromise, InitGateInd, NextGateInd, IndInvariant, PTL
     DEF Spec, KeepsPromise, Promise!Spec

-----------------------------------------------------------------------------
(* The fourth invariant: the working tree and the rebase in progress.      *)

Published == {"openPr", "mergeable", "ownership", "rebase", "ci", "flip", "exhaustedOpenPr"}

Handover ==
  /\ pc \in Published \cup {"noDiff", "forcePush", "exhaustedComment"} => tree = "clean"
  /\ pc \in {"mergeable", "ownership", "rebase", "resolve", "continue", "needsRebase", "openPr"} =>
       local = headSha
  /\ onto # NotRebasing => pc \in {"resolve", "continue", "failedAfterPr", "done"}
  /\ onto # NotRebasing /\ pc = "done" => result.status = "agent-failed"
  /\ CleanHandover
  /\ GiveUpRestoresBranch

LEMMA InitHandover == Init => Handover
BY DEF Init, Handover, CleanHandover, GiveUpRestoresBranch, Published, NotRebasing

LEMMA NextHandover == Ind /\ GateInd /\ Handover /\ [Next]_vars => Handover'
<1> SUFFICES ASSUME Ind, GateInd, Handover, [Next]_vars PROVE Handover'
  OBVIOUS
<1> USE DEF Ind, TypeOK, Staged, GateInd, PrKnown, HasPr, Handover, CleanHandover,
            GiveUpRestoresBranch, Published, HasChanges, Goto, Return, Throw, May, progress,
            refs, hub, outside, history
<1>1. CASE CheckoutNewBranch
  BY <1>1 DEF CheckoutNewBranch
<1>2. CASE AgentFinishes
  BY <1>2 DEF AgentFinishes, Measured
<1>3. CASE AgentFails
  BY <1>3 DEF AgentFails, Measured
<1>4. CASE AgentThrows
  BY <1>4 DEF AgentThrows
<1>5. CASE HandleNoDiff
  BY <1>5 DEF HandleNoDiff
<1>6. CASE LocalCheckFails
  BY <1>6 DEF LocalCheckFails, NextAttempt
<1>7. CASE LocalCheckPasses
  BY <1>7 DEF LocalCheckPasses
<1>8. CASE LocalCheckThrows
  BY <1>8 DEF LocalCheckThrows
<1>9. CASE CommitAndPush
  BY <1>9, CommittedTyped DEF CommitAndPush, PushLands, PushFails
<1>10. CASE OpenPullRequest
  BY <1>10 DEF OpenPullRequest, EnsurePullRequest
<1>11. CASE ResolveMergeability
  BY <1>11 DEF ResolveMergeability
<1>12. CASE ConfirmOwnership
  BY <1>12 DEF ConfirmOwnership
<1>13. CASE RebaseOnto
  BY <1>13 DEF RebaseOnto
<1>14. CASE ResolvePass
  BY <1>14 DEF ResolvePass, GiveUpRebase
<1>15. CASE ResolveBudgetSpent
  BY <1>15 DEF ResolveBudgetSpent, GiveUpRebase
<1>16. CASE ResolveThrows
  BY <1>16 DEF ResolveThrows
<1>17. CASE RebaseContinue
  BY <1>17 DEF RebaseContinue, RebaseFinishes, GiveUpRebase
<1>18. CASE ForcePushWithLease
  BY <1>18 DEF ForcePushWithLease
<1>19. CASE CiPasses
  BY <1>19 DEF CiPasses
<1>20. CASE CiRed
  BY <1>20 DEF CiRed, NextAttempt
<1>21. CASE CiInconclusive
  BY <1>21 DEF CiInconclusive
<1>22. CASE CiThrows
  BY <1>22 DEF CiThrows
<1>23. CASE FlipToReady
  BY <1>23 DEF FlipToReady, Written
<1>24. CASE ExhaustedNoDiff
  BY <1>24 DEF ExhaustedNoDiff
<1>25. CASE ExhaustedPush
  BY <1>25, CommittedTyped DEF ExhaustedPush, PushLands, PushFails
<1>26. CASE ExhaustedOpenPr
  BY <1>26 DEF ExhaustedOpenPr, EnsurePullRequest
<1>27. CASE ExhaustedComment
  BY <1>27 DEF ExhaustedComment
<1>28. CASE ExhaustedAnnotate
  BY <1>28 DEF ExhaustedAnnotate
<1>29. CASE FinishNeedsRebase
  BY <1>29 DEF FinishNeedsRebase, LeaveDraft
<1>30. CASE FinishFailedAfterPr
  BY <1>30 DEF FinishFailedAfterPr, LeaveDraft
<1>31. CASE NightCatches
  BY <1>31 DEF NightCatches
<1>32. CASE BaseAdvances
  BY <1>32 DEF BaseAdvances, program
<1>33. ASSUME NEW kind \in HumanKinds, NEW over \in BOOLEAN, HumanPush(kind, over)
       PROVE  Handover'
  BY <1>33 DEF HumanPush, program
<1>34. CASE UNCHANGED vars
  BY <1>34 DEF vars
<1> QED
  BY <1>1, <1>2, <1>3, <1>4, <1>5, <1>6, <1>7, <1>8, <1>9, <1>10, <1>11, <1>12, <1>13, <1>14,
     <1>15, <1>16, <1>17, <1>18, <1>19, <1>20, <1>21, <1>22, <1>23, <1>24, <1>25, <1>26, <1>27,
     <1>28, <1>29, <1>30, <1>31, <1>32, <1>33, <1>34
     DEF Next, Program, People, Finished, FixPass, LocalCheck, Publish, ConflictGate, CiGate,
         Exhausted, Finish

(* However the issue ends, the next issue's checkout finds a working tree  *)
(* without uncommitted work, unless git itself failed.  It says nothing of *)
(* a rebase left in progress, which a resolve that throws does leave.      *)
THEOREM HandsOverClean == Spec => []CleanHandover
<1>1. Handover => CleanHandover
  BY DEF Handover
<1> QED
  BY <1>1, InitHandover, NextHandover, InitGateInd, NextGateInd, IndInvariant, PTL DEF Spec

(* A conflict that is given up leaves the branch as it was pushed and no   *)
(* rebase in progress, for every conflict budget.                          *)
THEOREM GivesUpCleanly == Spec => []GiveUpRestoresBranch
<1>1. Handover => GiveUpRestoresBranch
  BY DEF Handover
<1> QED
  BY <1>1, InitHandover, NextHandover, InitGateInd, NextGateInd, IndInvariant, PTL DEF Spec

-----------------------------------------------------------------------------
(* The conjunctions the runs check.                                        *)

(* What the night learns of an issue is true of every budget, fault set    *)
(* and push of people: the result, its usage and, where no reply of        *)
(* GitHub's is lost, that an exception leaves no pull request unexplained  *)
(* but from finishExhausted.                                               *)
THEOREM NightIsTold ==
  ASSUME "reply" \notin Faults
  PROVE  Spec => TellsTheNight
<1>1. Spec => []ResultIsTrue
  BY ResultTrue
<1>2. Spec => []UsageIsReported
  BY UsageReported
<1>3. Spec => LoopErrorsKeepTheirPr
  BY LoopErrorsKept
<1> QED
  BY <1>1, <1>2, <1>3, PTL DEF TellsTheNight

(* The tree handed to the next issue is clean and a given-up rebase undone *)
(* whenever git can discard changes at all.                                *)
THEOREM LeftClean == Spec => []LeavesItClean
<1>1. Handover => LeavesItClean
  BY DEF Handover, LeavesItClean
<1> QED
  BY <1>1, InitHandover, NextHandover, InitGateInd, NextGateInd, IndInvariant, PTL DEF Spec

=============================================================================
