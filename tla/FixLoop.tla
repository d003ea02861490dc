------------------------------ MODULE FixLoop ------------------------------
(***************************************************************************)
(* One issue's CI-gated fix loop: processIssue of                          *)
(* packages/action/src/issue-pipeline.ts, with the git commands it gives   *)
(* (git-ops.ts), the pull request it keeps on GitHub, and main.ts's catch  *)
(* around it.                                                              *)
(*                                                                         *)
(* The program is one sequential actor; `pc' names the await it stands at. *)
(* Around it people push to the issue branch and merge into the base       *)
(* branch, and any git, container or GitHub call it makes may fail.        *)
(*                                                                         *)
(* A branch is the sequence of its commits from the base commit it was cut *)
(* from: its first element is that base commit, the rest are the commits   *)
(* on top.  Two branches with the same commits on different base commits   *)
(* are different histories, as two git commits with different parents are. *)
(***************************************************************************)
EXTENDS Integers, SequencesExt

CONSTANTS
  CiMaxTries,        \* ctx.ciMaxTries: fix passes of the agent
  ConflictMaxTries,  \* ctx.conflictMaxTries: conflict passes of the agent
  VerifyBeforeFix,   \* ctx.verifyBeforeFix: triage an issue with no diff
  Faults,            \* which outside calls may fail
  HumanKinds,        \* the commits people may push to the issue branch
  MaxHumanPushes,    \* bound: pushes by people to the issue branch
  MaxBase            \* bound: how often the base branch moves

FaultKinds == {"git", "engine", "github", "reply"}

(* A person's commit is "human", or "lookalike" when it carries fixowl's   *)
(* own mark: its author e-mail or a `fix #<n>:' subject.                   *)
ForeignKinds == {"human", "lookalike"}

ASSUME CiMaxTriesAssumption       == CiMaxTries \in Nat \ {0}
ASSUME ConflictMaxTriesAssumption == ConflictMaxTries \in Nat \ {0}
ASSUME VerifyBeforeFixAssumption  == VerifyBeforeFix \in BOOLEAN
ASSUME FaultsAssumption           == Faults \subseteq FaultKinds
ASSUME HumanKindsAssumption       == HumanKinds \subseteq ForeignKinds
ASSUME BoundsAssumption           == MaxHumanPushes \in Nat /\ MaxBase \in Nat

VARIABLES
  pc,            \* the await processIssue stands at
  attempt,       \* the fix pass it is in
  conflictUsed,  \* conflictPassesUsed
  passes,        \* passes of the current rebaseAndResolveConflict
  pr,            \* whether the program's own `pr' is defined
  usage,         \* token spend folded so far, one unit per measured pass
  lastCi,        \* outcome of the last CI wait
  headSha,       \* the commit the next CI wait is for
  tree,          \* working tree against HEAD
  local,         \* the local issue branch
  onto,          \* base commit of a rebase in progress
  remote,        \* the issue branch on origin
  tracking,      \* refs/remotes/origin/<branch>
  base,          \* tip of the base branch on origin
  humans,        \* pushes people made so far
  prState,       \* the pull request on GitHub
  body,          \* what its body says
  comment,       \* the last comment on the issue
  label,         \* whether fixowl:triaged is on the issue
  result,        \* what the night gets back
  spent,         \* history: agent passes that ran to their end
  gated          \* history: the head the last passing CI wait was for

progress == <<attempt, conflictUsed, passes, pr, usage, lastCi, headSha>>
refs     == <<local, remote, tracking>>
hub      == <<prState, body, comment, label>>
outside  == <<base, humans>>
history  == <<spent, gated>>
vars     == <<pc, progress, tree, onto, refs, hub, outside, result, history>>

-----------------------------------------------------------------------------
(* Commits and branches.                                                   *)

Base(n)       == [by |-> "base",   id |-> n]
Fix(n)        == [by |-> "fixowl", id |-> n]
Foreign(k, n) == [by |-> k,        id |-> n]

Commit == [by : {"base", "fixowl"} \cup ForeignKinds, id : Nat]
Branch == Seq(Commit)

NoBranch    == << >>
NotRebasing == -1

(* Mutant: any branch counts as fixowl's own.                              *)
FixowlTip_Unchecked(branch) == branch # NoBranch

FixowlTip(branch) == branch # NoBranch /\ Last(branch).by \in {"fixowl", "lookalike"}

(* n commits of a branch of m after its base, in their order.              *)
Chosen(n, m) == {k \in [2 .. n -> 2 .. m] : \A i, j \in 2 .. n : i < j => k[i] < k[j]}

(* What a rebase of the branch onto base commit b may leave: each commit   *)
(* replayed, or dropped because the base already has its changes (git      *)
(* drops a commit that becomes empty).                                     *)
RebaseResults(b, branch) ==
  UNION {{[i \in 1 .. n |-> IF i = 1 THEN Base(b) ELSE branch[k[i]]] : k \in Chosen(n, Len(branch))}
         : n \in 1 .. Len(branch)}

(* hasChangesAgainst: an edited tree, or a commit ahead of the base.       *)
HasChanges(t, branch) == t # "clean" \/ Len(branch) > 1

(* commitAll: one commit, or none when nothing is staged.                  *)
Committed == IF tree = "clean" THEN local ELSE Append(local, Fix(attempt))

May(fault) == fault \in Faults

-----------------------------------------------------------------------------
(* How a step hands control on.                                            *)

Goto(stage) == pc' = stage /\ UNCHANGED result

(* An IssueResult: its status, whether it carries a pull request and as    *)
(* what (prNumber, draft), and the token spend.                            *)
Return(status, pull, tokens) ==
  /\ pc' = "done"
  /\ result' = [status |-> status, pull |-> pull, usage |-> tokens]

(* Mutant: the loop's catch forgets the pull request.                      *)
Throw_DropsPr == Goto("rejected")

(* An exception inside the loop: with a pull request it is annotated and   *)
(* kept (finishFailedAfterPr), without one it leaves processIssue.         *)
Throw == Goto(IF pr THEN "failedAfterPr" ELSE "rejected")

(* The loop's `continue': the next attempt, or the end of the budget.      *)
NextAttempt ==
  IF attempt < CiMaxTries
    THEN attempt' = attempt + 1 /\ Goto("agent")
    ELSE UNCHANGED attempt /\ Goto("exhausted")

(* A pass of the agent that ran to its end is measured and folded.         *)
Measured ==
  /\ spent' = spent + 1
  /\ usage' = usage + 1

(* A best-effort sequence of GitHub writes stops after any prefix of its   *)
(* length; only a fault stops it short.                                    *)
Written(length) == {k \in 0 .. length : k < length => May("github")}

-----------------------------------------------------------------------------
Init ==
  /\ pc = "checkout"
  /\ attempt = 1
  /\ conflictUsed = 0
  /\ passes = 0
  /\ pr = FALSE
  /\ usage = 0
  /\ lastCi = "none"
  /\ headSha = NoBranch
  /\ tree = "clean"
  /\ onto = NotRebasing
  /\ local = NoBranch
  /\ remote = NoBranch
  /\ tracking = NoBranch
  /\ base = 0
  /\ humans = 0
  /\ prState = "none"
  /\ body = "none"
  /\ comment = "none"
  /\ label = FALSE
  /\ result = [status |-> "running", pull |-> "none", usage |-> 0]
  /\ spent = 0
  /\ gated = NoBranch

(* checkout -B from the base tip fetched when the night began.             *)
CheckoutNewBranch ==
  /\ pc = "checkout"
  /\ \/ local' = <<Base(0)>> /\ Goto("agent")
     \/ May("git") /\ Goto("rejected") /\ UNCHANGED local
  /\ UNCHANGED <<progress, tree, onto, remote, tracking, hub, outside, history>>

-----------------------------------------------------------------------------
(* The agent's fix pass.                                                   *)

(* The agent exits 0 with some tree.  On the first pass no diff ends the   *)
(* issue.                                                                  *)
AgentFinishes ==
  /\ pc = "agent"
  /\ Measured
  /\ tree' \in {"clean", "edited"}
  /\ Goto(IF attempt = 1 /\ ~HasChanges(tree', local) THEN "noDiff" ELSE "verify")
  /\ UNCHANGED <<attempt, conflictUsed, passes, pr, lastCi, headSha, onto, refs, hub, outside, gated>>

(* The agent times out or exits non-zero: its work is discarded.           *)
AgentFails ==
  /\ pc = "agent"
  /\ Measured
  /\ \/ /\ tree' = "clean"
        /\ IF pr THEN Goto("failedAfterPr") ELSE Return("agent-failed", "none", usage')
     \/ /\ May("git")
        /\ tree' = "edited"
        /\ Throw
  /\ UNCHANGED <<attempt, conflictUsed, passes, pr, lastCi, headSha, onto, refs, hub, outside, gated>>

(* runAgent itself throws; whatever the agent wrote is still in the tree.  *)
AgentThrows ==
  /\ pc = "agent"
  /\ May("engine")
  /\ tree' \in {"clean", "edited"}
  /\ Throw
  /\ UNCHANGED <<progress, onto, refs, hub, outside, history>>

(* handleNoDiff: with verify-first on, a comment and then the label that   *)
(* keeps the issue out of later nights, both best-effort.                  *)
HandleNoDiff ==
  /\ pc = "noDiff"
  /\ Return("no-changes", "none", usage)
  /\ \/ /\ VerifyBeforeFix
        /\ \E k \in Written(2) :
             /\ comment' = IF k >= 1 THEN "triaged" ELSE comment
             /\ label' = (k = 2)
     \/ /\ ~VerifyBeforeFix
        /\ UNCHANGED <<comment, label>>
  /\ UNCHANGED <<progress, tree, onto, refs, prState, body, outside, history>>

-----------------------------------------------------------------------------
(* The local pre-check.  Its commands run on the mounted workspace and may *)
(* leave files behind.                                                     *)

LocalCheckFails ==
  /\ pc = "verify"
  /\ tree' \in {tree, "edited"}
  /\ NextAttempt
  /\ UNCHANGED <<conflictUsed, passes, pr, usage, lastCi, headSha, onto, refs, hub, outside, history>>

LocalCheckPasses ==
  /\ pc = "verify"
  /\ tree' \in {tree, "edited"}
  /\ IF pr \/ HasChanges(tree', local)
       THEN Goto("push")
       ELSE IF attempt = 1
              THEN Goto("noDiff")
              ELSE Return("no-changes", "none", usage)
  /\ UNCHANGED <<progress, onto, refs, hub, outside, history>>

LocalCheckThrows ==
  /\ pc = "verify"
  /\ May("engine")
  /\ tree' \in {tree, "edited"}
  /\ Throw
  /\ UNCHANGED <<progress, onto, refs, hub, outside, history>>

-----------------------------------------------------------------------------
(* Publishing the change.                                                  *)

(* commitAll and a plain push: origin takes it only as a fast-forward.     *)
PushLands(next) ==
  /\ pc = "push" \/ pc = "exhausted"
  /\ IsPrefix(remote, Committed)
  /\ local' = Committed
  /\ tree' = "clean"
  /\ remote' = local'
  /\ tracking' = local'
  /\ headSha' = local'
  /\ Goto(next)
  /\ UNCHANGED <<attempt, conflictUsed, passes, pr, usage, lastCi, onto, hub, outside, history>>

(* The push is refused, or it fails; it may have reached origin all the    *)
(* same when only the answer was lost.                                     *)
PushFails ==
  /\ local' = Committed
  /\ tree' = "clean"
  /\ \/ /\ ~IsPrefix(remote, Committed) \/ May("git")
        /\ UNCHANGED remote
     \/ /\ IsPrefix(remote, Committed)
        /\ May("reply")
        /\ remote' = Committed
  /\ UNCHANGED <<progress, onto, tracking, hub, outside, history>>

CommitAndPush ==
  /\ pc = "push"
  /\ \/ PushLands(IF pr THEN "mergeable" ELSE "openPr")
     \/ PushFails /\ Throw

(* ensurePullRequest(draft).  With "reply" faults GitHub may have opened   *)
(* it although the call failed.                                            *)
EnsurePullRequest(text, next, failed) ==
  /\ \/ /\ prState' = "draft"
        /\ body' = text
        /\ pr' = TRUE
        /\ Goto(next)
     \/ /\ May("github")
        /\ UNCHANGED <<prState, body, pr>>
        /\ Goto(failed)
     \/ /\ May("reply")
        /\ prState' = "draft"
        /\ body' = text
        /\ UNCHANGED pr
        /\ Goto(failed)
  /\ UNCHANGED <<attempt, conflictUsed, passes, usage, lastCi, headSha, tree, onto,
                 refs, comment, label, outside, history>>

OpenPullRequest ==
  /\ pc = "openPr"
  /\ EnsurePullRequest("opened", "mergeable", "rejected")

-----------------------------------------------------------------------------
(* The conflict gate.                                                      *)

(* GitHub can call the pull request dirty only if its base has moved; an   *)
(* unknown mergeability falls open to the CI wait.                         *)
ResolveMergeability ==
  /\ pc = "mergeable"
  /\ \/ Goto("ci")
     \/ base > headSha[1].id /\ Goto("ownership")
  /\ UNCHANGED <<progress, tree, onto, refs, hub, outside, history>>

(* Mutant: the tip is fetched and not looked at.                           *)
ConfirmOwnership_NoCheck ==
  /\ pc = "ownership"
  /\ \/ /\ IsPrefix(tracking, remote)
        /\ tracking' = remote
        /\ passes' = 0
        /\ Goto("rebase")
     \/ /\ ~IsPrefix(tracking, remote) \/ May("git")
        /\ Throw
        /\ UNCHANGED <<tracking, passes>>
  /\ UNCHANGED <<attempt, conflictUsed, pr, usage, lastCi, headSha, tree, onto, local, remote,
                 hub, outside, history>>

(* Mutant: a refused fetch is tried again until it succeeds.               *)
ConfirmOwnership_Retries ==
  /\ pc = "ownership"
  /\ \/ /\ IsPrefix(tracking, remote)
        /\ tracking' = remote
        /\ passes' = 0
        /\ Goto(IF FixowlTip(remote) THEN "rebase" ELSE "needsRebase")
     \/ /\ ~IsPrefix(tracking, remote)
        /\ Goto("ownership")
        /\ UNCHANGED <<tracking, passes>>
  /\ UNCHANGED <<attempt, conflictUsed, pr, usage, lastCi, headSha, tree, onto, local, remote,
                 hub, outside, history>>

(* remoteBranchTip fetches the branch, which moves the tracking ref up to  *)
(* origin's (a plain refspec: a rewritten branch is refused), and the tip  *)
(* must carry fixowl's mark.                                               *)
ConfirmOwnership ==
  /\ pc = "ownership"
  /\ \/ /\ IsPrefix(tracking, remote)
        /\ tracking' = remote
        /\ passes' = 0
        /\ Goto(IF FixowlTip(remote) THEN "rebase" ELSE "needsRebase")
     \/ /\ ~IsPrefix(tracking, remote) \/ May("git")
        /\ Throw
        /\ UNCHANGED <<tracking, passes>>
  /\ UNCHANGED <<attempt, conflictUsed, pr, usage, lastCi, headSha, tree, onto, local, remote,
                 hub, outside, history>>

RebaseOnto ==
  /\ pc = "rebase"
  /\ \/ /\ local' \in RebaseResults(base, local)
        /\ Goto("forcePush")
        /\ UNCHANGED <<tree, onto>>
     \/ /\ onto' = base
        /\ tree' = "markers"
        /\ Goto("resolve")
        /\ UNCHANGED local
     \/ /\ May("git")
        /\ Throw
        /\ UNCHANGED <<tree, onto, local>>
  /\ UNCHANGED <<progress, remote, tracking, hub, outside, history>>

(* Mutant: the rebase is given up and not aborted.                         *)
GiveUpRebase_NoAbort(n) ==
  /\ tree' = "clean"
  /\ conflictUsed' = conflictUsed + n
  /\ usage' = usage + n
  /\ passes' = 0
  /\ Goto("needsRebase")
  /\ UNCHANGED onto

(* rebaseAbort, and the caller's accounting of the n passes it cost.       *)
GiveUpRebase(n) ==
  /\ onto' = NotRebasing
  /\ tree' = "clean"
  /\ conflictUsed' = conflictUsed + n
  /\ usage' = usage + n
  /\ passes' = 0
  /\ Goto("needsRebase")

BudgetLeft == ConflictMaxTries - conflictUsed

(* One conflict pass of the agent: it fails, leaves markers, or resolves.  *)
ResolvePass ==
  /\ pc = "resolve"
  /\ passes < BudgetLeft
  /\ spent' = spent + 1
  /\ \/ GiveUpRebase(passes + 1)
     \/ /\ passes' = passes + 1
        /\ tree' \in {"markers", "edited"}
        /\ Goto(IF tree' = "markers" THEN "resolve" ELSE "continue")
        /\ UNCHANGED <<conflictUsed, usage, onto>>
  /\ UNCHANGED <<attempt, pr, lastCi, headSha, refs, hub, outside, gated>>

ResolveBudgetSpent ==
  /\ pc = "resolve"
  /\ passes >= BudgetLeft
  /\ GiveUpRebase(passes)
  /\ UNCHANGED <<attempt, pr, lastCi, headSha, refs, hub, outside, history>>

(* runAgent throws in a conflict pass: nothing aborts the rebase.          *)
ResolveThrows ==
  /\ pc = "resolve"
  /\ passes < BudgetLeft
  /\ May("engine")
  /\ tree' \in {"markers", "edited"}
  /\ Throw
  /\ UNCHANGED <<progress, onto, refs, hub, outside, history>>

RebaseFinishes ==
  /\ local' \in RebaseResults(onto, local)
  /\ onto' = NotRebasing
  /\ tree' = "clean"
  /\ Goto("forcePush")
  /\ UNCHANGED <<conflictUsed, usage, passes>>

(* rebaseContinue: the rebase ends, stops at a later commit, or is stuck.  *)
RebaseContinue ==
  /\ pc = "continue"
  /\ \/ RebaseFinishes
     \/ /\ tree' = "markers"
        /\ Goto("resolve")
        /\ UNCHANGED <<local, onto, conflictUsed, usage, passes>>
     \/ GiveUpRebase(passes) /\ UNCHANGED local
     \/ /\ May("git")
        /\ Throw
        /\ UNCHANGED <<local, tree, onto, conflictUsed, usage, passes>>
  /\ UNCHANGED <<attempt, pr, lastCi, headSha, remote, tracking, hub, outside, history>>

(* Mutant: the CI gate resumes on the head from before the rebase.         *)
ForcePushWithLease_StaleHead ==
  /\ pc = "forcePush"
  /\ remote = tracking
  /\ remote' = local
  /\ tracking' = local
  /\ conflictUsed' = conflictUsed + passes
  /\ usage' = usage + passes
  /\ passes' = 0
  /\ Goto("ci")
  /\ UNCHANGED <<attempt, pr, lastCi, headSha, tree, onto, local, hub, outside, history>>

(* push --force-with-lease: the lease is the tracking ref.  Only a rebase  *)
(* that returns has its passes counted and its spend folded.               *)
ForcePushWithLease ==
  /\ pc = "forcePush"
  /\ \/ /\ remote = tracking
        /\ remote' = local
        /\ tracking' = local
        /\ headSha' = local
        /\ conflictUsed' = conflictUsed + passes
        /\ usage' = usage + passes
        /\ passes' = 0
        /\ Goto("ci")
     \/ /\ remote # tracking \/ May("git")
        /\ Throw
        /\ UNCHANGED <<remote, tracking, headSha, conflictUsed, usage, passes>>
     \/ /\ remote = tracking
        /\ May("reply")
        /\ remote' = local
        /\ Throw
        /\ UNCHANGED <<tracking, headSha, conflictUsed, usage, passes>>
  /\ UNCHANGED <<attempt, pr, lastCi, tree, onto, local, hub, outside, history>>

-----------------------------------------------------------------------------
(* The CI wait, for the checks of headSha.                                 *)

CiPasses ==
  /\ pc = "ci"
  /\ lastCi' \in {"green", "unverified"}
  /\ gated' = headSha
  /\ Goto("flip")
  /\ UNCHANGED <<attempt, conflictUsed, passes, pr, usage, headSha, tree, onto, refs,
                 hub, outside, spent>>

(* A concrete red check is fed back to the agent.                          *)
CiRed ==
  /\ pc = "ci"
  /\ lastCi' = "red"
  /\ NextAttempt
  /\ UNCHANGED <<conflictUsed, passes, pr, usage, headSha, tree, onto, refs, hub,
                 outside, history>>

(* Mutant: CI that never ran counts as CI that passed.                     *)
CiInconclusive_Ready ==
  /\ pc = "ci"
  /\ lastCi' \in {"stalled", "timeout"}
  /\ Goto("flip")
  /\ UNCHANGED <<attempt, conflictUsed, passes, pr, usage, headSha, tree, onto, refs,
                 hub, outside, history>>

(* A check that never started, or a timeout with nothing red: stop.        *)
CiInconclusive ==
  /\ pc = "ci"
  /\ lastCi' \in {"stalled", "timeout"}
  /\ Goto("exhausted")
  /\ UNCHANGED <<attempt, conflictUsed, passes, pr, usage, headSha, tree, onto, refs,
                 hub, outside, history>>

(* The checks stay unreadable and the wait throws.                         *)
CiThrows ==
  /\ pc = "ci"
  /\ May("github")
  /\ Throw
  /\ UNCHANGED <<progress, tree, onto, refs, hub, outside, history>>

(* Ready for review, then the body, then the comment; a write that throws  *)
(* goes to the catch.                                                      *)
FlipToReady ==
  /\ pc = "flip"
  /\ \E k \in Written(3) :
       /\ prState' = IF k >= 1 THEN "ready" ELSE prState
       /\ body' = IF k >= 2 THEN lastCi ELSE body
       /\ comment' = IF k = 3 THEN "ready" ELSE comment
       /\ IF k = 3 THEN Return("pr-opened", "ready", usage) ELSE Throw
  /\ UNCHANGED <<progress, tree, onto, refs, label, outside, history>>

-----------------------------------------------------------------------------
(* finishExhausted.  Its promise is returned, not awaited, so whatever it  *)
(* throws is not caught by processIssue.                                   *)

ExhaustedNoDiff ==
  /\ pc = "exhausted"
  /\ ~pr
  /\ ~HasChanges(tree, local)
  /\ Goto("noDiff")
  /\ UNCHANGED <<progress, tree, onto, refs, hub, outside, history>>

ExhaustedPush ==
  /\ pc = "exhausted"
  /\ ~pr
  /\ HasChanges(tree, local)
  /\ \/ PushLands("exhaustedOpenPr")
     \/ PushFails /\ Goto("rejected")

ExhaustedOpenPr ==
  /\ pc = "exhaustedOpenPr"
  /\ EnsurePullRequest("failed", "exhaustedComment", "rejected")

ExhaustedComment ==
  /\ pc = "exhaustedComment"
  /\ \/ comment' = "draft" /\ Return("pr-opened", "draft", usage)
     \/ May("github") /\ Goto("rejected") /\ UNCHANGED comment
  /\ UNCHANGED <<progress, tree, onto, refs, prState, body, label, outside, history>>

(* A pull request is there: drop the uncommitted work and annotate it.     *)
ExhaustedAnnotate ==
  /\ pc = "exhausted"
  /\ pr
  /\ \/ /\ tree' = "clean"
        /\ \/ body' = "failed" /\ Goto("exhaustedComment")
           \/ May("github") /\ Goto("rejected") /\ UNCHANGED body
     \/ /\ May("git")
        /\ Goto("rejected")
        /\ UNCHANGED <<tree, body>>
  /\ UNCHANGED <<progress, onto, refs, prState, comment, label, outside, history>>

-----------------------------------------------------------------------------
(* The other ends: each discards and annotates best-effort, and returns.   *)

LeaveDraft(text) ==
  /\ tree' \in {"clean"} \cup (IF May("git") THEN {tree} ELSE {})
  /\ \E k \in Written(2) :
       /\ body' = IF k >= 1 THEN text ELSE body
       /\ comment' = IF k = 2 THEN "draft" ELSE comment
  /\ UNCHANGED <<progress, onto, refs, prState, label, outside, history>>

FinishNeedsRebase ==
  /\ pc = "needsRebase"
  /\ LeaveDraft("needs-rebase")
  /\ Return("needs-rebase", "draft", usage)

FinishFailedAfterPr ==
  /\ pc = "failedAfterPr"
  /\ LeaveDraft("failed")
  /\ Return("agent-failed", "draft", usage)

(* processIssue rejected: the night discards the tree best-effort and      *)
(* builds an `error' result of its own.                                    *)
NightCatches ==
  /\ pc = "rejected"
  /\ tree' \in {"clean"} \cup (IF May("git") THEN {tree} ELSE {})
  /\ Return("error", "none", 0)
  /\ UNCHANGED <<progress, onto, refs, hub, outside, history>>

-----------------------------------------------------------------------------
(* The people around it.                                                   *)

program == <<pc, progress, tree, onto, local, tracking, hub, result, history>>

(* Someone pushes a commit to the issue branch, on top of what is there or *)
(* over it.                                                                *)
HumanPush(kind, over) ==
  /\ pc # "done"
  /\ humans < MaxHumanPushes
  /\ humans' = humans + 1
  /\ remote' = IF over \/ remote = NoBranch
                 THEN <<Base(0), Foreign(kind, humans')>>
                 ELSE Append(remote, Foreign(kind, humans'))
  /\ UNCHANGED <<program, base>>

(* Someone merges into the base branch.                                    *)
BaseAdvances ==
  /\ pc # "done"
  /\ base < MaxBase
  /\ base' = base + 1
  /\ UNCHANGED <<program, remote, humans>>

-----------------------------------------------------------------------------
FixPass     == AgentFinishes \/ AgentFails \/ AgentThrows \/ HandleNoDiff
LocalCheck  == LocalCheckFails \/ LocalCheckPasses \/ LocalCheckThrows
Publish     == CommitAndPush \/ OpenPullRequest
ConflictGate == ResolveMergeability \/ ConfirmOwnership \/ RebaseOnto \/ ResolvePass
                \/ ResolveBudgetSpent \/ ResolveThrows \/ RebaseContinue \/ ForcePushWithLease
CiGate      == CiPasses \/ CiRed \/ CiInconclusive \/ CiThrows \/ FlipToReady
Exhausted   == ExhaustedNoDiff \/ ExhaustedPush \/ ExhaustedOpenPr \/ ExhaustedComment
               \/ ExhaustedAnnotate
Finish      == FinishNeedsRebase \/ FinishFailedAfterPr \/ NightCatches

Program == CheckoutNewBranch \/ FixPass \/ LocalCheck \/ Publish \/ ConflictGate \/ CiGate
           \/ Exhausted \/ Finish

People == BaseAdvances \/ \E kind \in HumanKinds, over \in BOOLEAN : HumanPush(kind, over)

(* The issue is finished; nothing is left to do.                           *)
Finished == pc = "done" /\ UNCHANGED vars

Next == Program \/ People \/ Finished

Spec == Init /\ [][Next]_vars

(* The runner keeps running the job: the program's next step is taken.     *)
(* Nothing is assumed of the people around it.                             *)
FairSpec == Spec /\ WF_vars(Program)

-----------------------------------------------------------------------------
(* Properties.                                                             *)

Stages == {"checkout", "agent", "noDiff", "verify", "push", "openPr", "mergeable", "ownership",
           "rebase", "resolve", "continue", "forcePush", "ci", "flip", "exhausted",
           "exhaustedOpenPr", "exhaustedComment", "needsRebase", "failedAfterPr", "rejected",
           "done"}

Result == [status : {"running", "pr-opened", "no-changes", "agent-failed", "needs-rebase",
                     "error"},
           pull : {"none", "draft", "ready"}, usage : Nat]

(* The types of the state; in particular `attempt' and the conflict passes *)
(* never leave their budgets (for (attempt <= maxTries), budgetLeft).      *)
TypeOK ==
  /\ pc \in Stages
  /\ attempt \in 1 .. CiMaxTries
  /\ conflictUsed \in 0 .. ConflictMaxTries
  /\ passes \in 0 .. ConflictMaxTries
  /\ pr \in BOOLEAN
  /\ usage \in Nat
  /\ lastCi \in {"none", "green", "unverified", "red", "stalled", "timeout"}
  /\ headSha \in Branch
  /\ tree \in {"clean", "edited", "markers"}
  /\ local \in Branch
  /\ onto \in Nat \cup {NotRebasing}
  /\ remote \in Branch
  /\ tracking \in Branch
  /\ base \in Nat
  /\ humans \in Nat
  /\ prState \in {"none", "draft", "ready"}
  /\ body \in {"none", "opened", "green", "unverified", "failed", "needs-rebase"}
  /\ comment \in {"none", "triaged", "ready", "draft"}
  /\ label \in BOOLEAN
  /\ result \in Result
  /\ spent \in Nat
  /\ gated \in Branch

(* The paid agent runs at most ci_max_tries + conflict_max_tries times for *)
(* an issue, however its fix attempts and its rebases alternate: every     *)
(* rebase of every attempt draws on the one conflictPassesUsed.            *)
PassesBounded == spent <= CiMaxTries + ConflictMaxTries

(* A ready pull request was let through by a CI wait on the very commits   *)
(* fixowl last pushed - after a rebase, on the rebased ones - and origin   *)
(* holds those commits unless a person pushed over or after them.          *)
ReadyWasGated ==
  prState = "ready" =>
    /\ headSha # NoBranch
    /\ gated = headSha
    /\ humans = 0 => remote = headSha

(* The result tells the night the truth: a shipped result (pr-opened, not  *)
(* a draft: the next issue's stack base) is a ready, annotated, announced  *)
(* pull request, and a result without a pull request that is not an error  *)
(* left none behind, nor a pushed branch, nor a silent triage label.       *)
ResultIsTrue ==
  pc = "done" =>
    /\ result.pull # "none" => prState # "none"
    /\ result.pull = "ready" => prState = "ready" /\ body = lastCi /\ comment = "ready"
    /\ result.pull = "none" /\ result.status # "error" => prState = "none" /\ headSha = NoBranch
    /\ label => comment = "triaged" /\ result.pull = "none"

(* Giving a conflict up leaves the branch as it was last pushed, with no   *)
(* rebase in progress, for the next issue's checkout.                      *)
GiveUpRestoresBranch ==
  pc = "done" /\ result.status = "needs-rebase" =>
    /\ onto = NotRebasing
    /\ local = headSha
    /\ May("git") \/ tree = "clean"

(* However the issue ends, no uncommitted work is left for the next        *)
(* issue's checkout -B to carry along - unless git itself failed to        *)
(* discard it.                                                             *)
CleanHandover == pc = "done" => tree = "clean" \/ May("git")

(* Every measured pass is in the usage of the result the night folds into  *)
(* its token budget, the passes of a rebase that threw excepted (they are  *)
(* still counted in `passes').                                             *)
UsageIsReported ==
  pc = "done" /\ result.status # "error" => result.usage + passes = spent

(* Commits people made that a branch holds.                                *)
HumanWork(branch) ==
  {branch[i] : i \in {j \in DOMAIN branch : branch[j].by \in ForeignKinds}}

(* No step of fixowl removes a person's commit from the issue branch on    *)
(* origin: a plain push needs a fast-forward, a forced one a tip of        *)
(* fixowl's own and a lease.                                               *)
HumanWorkSurvives ==
  [][humans' = humans => HumanWork(remote) \subseteq HumanWork(remote')]_vars

(* Fixowl rewrites the branch on origin only while its tip carries         *)
(* fixowl's mark (isFixowlBranchTip), even where people's commits can      *)
(* carry it too.                                                           *)
RewritesOnlyMarkedTips ==
  [][humans' = humans /\ ~IsPrefix(remote, remote') => FixowlTip(remote)]_vars

(* An exception leaves processIssue with a pull request open only from     *)
(* finishExhausted: everywhere else the catch annotates and keeps it.      *)
LoopErrorsKeepTheirPr ==
  [][pc # "rejected" /\ pc' = "rejected" /\ prState' # "none" =>
       pc \in {"exhausted", "exhaustedOpenPr", "exhaustedComment"}]_vars

(* What the night learns of an issue: the night sums the usage, stacks the *)
(* next issue and names the pull request from the result alone, and an     *)
(* exception tells it nothing but that there is none.                      *)
TellsTheNight == []ResultIsTrue /\ []UsageIsReported /\ LoopErrorsKeepTheirPr

(* What the next issue's checkout finds in the working tree that all       *)
(* issues share.                                                           *)
LeavesItClean == CleanHandover /\ GiveUpRestoresBranch

(* Whatever CI, GitHub, the agent and people do, the issue ends and the    *)
(* night gets a result.                                                    *)
Terminates == <>(pc = "done")

(* And it ends within its budget of paid passes, however failing checks    *)
(* and conflicts alternate.                                                *)
EndsInBudget == []PassesBounded /\ Terminates

(* What is reported of the pull request.                                   *)
Report == IF pc = "done" THEN result.pull ELSE "running"

Promise == INSTANCE DraftPromise WITH
             pull <- prState, pushed <- headSha, vetted <- gated, report <- Report,
             Nothing <- NoBranch

(* The loop implements the promise of DraftPromise.                        *)
KeepsPromise == Promise!Spec

-----------------------------------------------------------------------------
(* Claims of the repository's comments and docs that the loop breaks.      *)

(* "a failure after the PR exists must never strand an unexplained draft"  *)
(* (docs/ci-fix-loop.md:24): no PR-less `error' result over an open pull   *)
(* request.                                                                *)
NoStrandedDraft == pc = "done" /\ result.status = "error" => prState = "none"

=============================================================================
