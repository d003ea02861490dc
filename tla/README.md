# A verification development for fixowl

fixowl works a repository's issue backlog at night. A GitHub Actions job picks labelled issues, runs
a coding agent in a container on each, opens one draft pull request per issue, waits for the
repository's own CI, and turns the draft ready only when CI is green. People review and merge in the
morning. This directory holds TLA+ models of that program, the TLC runs that check them and the
proofs TLAPS checks.

Source paths below are relative to `packages/`: `action/src` is the night, `core/src` the pure
decisions, `cli/src` the host's commands.

## 1. Inventory

| part | state it keeps | operations | what is hard |
|---|---|---|---|
| fix loop (`issue-pipeline.ts`) | attempt, conflict passes, the pull request, the head the gate waits for, token spend | agent pass, local checks, push, open draft, rebase, CI gate, flip, exhaust, annotate | every await may fail; people push to the branch meanwhile; one working tree is shared by all issues |
| git workspace (`git-ops.ts`) | working tree, local branch, tracking refs, the moved git directory | checkout, commit, push, fetch, rebase, forced push, discard, delete | leases taken from tracking refs; a rebase left in progress; a killed night |
| CI wait (`ci-poll.ts`, `ci-gate.ts`) | clock, consecutive errors | poll, judge, sleep | checks that come late or never, reads that fail in three ways, the timeout against the last answer |
| night (`main.ts`) | selection, plan, chains, running base, shipped set, results, budget | select, plan, run the chains, account | prerequisites shipping or not at run time, budgets tripping between issues, people merging meanwhile, nights that are killed |
| planner (`prereq-planner.ts`, `merge-graph.ts`, `classify.ts`) | none (pure) | defer, order, stack, merge chains | cycles, in-flight prerequisites, classifier against native edges |
| scheduled slot (`fallback-dispatch.ts`, `host-scheduler.ts`, the workflow's concurrency group) | none of its own: the list of runs on GitHub | cron, host check, manual dispatch, the guard in the run | three triggers for one paid night a day, a window that crosses midnight UTC |
| run budget (`run-budget.ts`) | spend, time, shipped count | evaluate at the start and between issues | stopping all the chains that are left |
| ownership, idempotency (`branch-ownership.ts`, `idempotency.ts`) | branches and pull requests on GitHub are the memory between nights | skip attempted, reset orphaned | reading a branch and deleting it are two steps |
| priority selection, triage (`priority-selection.ts`, `triage.ts`) | pages, the seen set | fill the cap tier by tier, comment and label what is skipped | the list moves under the paging |
| container engine (`container-exec.ts`) | one container a time | run, time out | the timeout's removal races the run's own end |
| setup (`init`, `provision`, `validate`, App manifest) | `config.yaml`, `secrets.env`, the App, the repository's secrets, branches and pull requests | ask, create the App, write, seal, propose, run again after a failure | stopping between two writes; a key GitHub hands out once; redirects that race the timeout |
| configuration (`config-file.ts`, `config-schema.ts`, `edit`) | `config.yaml`: defaults, entries, agents | render, load, resolve, edit | inheritance between entries; several edits over one loaded copy |
| runner lifecycle (`start`, `stop`, `register`, launchd) | runner directory, service, the scheduler's agent, GitHub's registration | install, register, start, stop, deregister, migrate | several steps on two machines, several hosts under one name |
| texts, prompts, evidence, catalogs | none that others depend on | format, parse, upload | - |

Who calls whom. The scheduled slot decides whether a night begins; `runNight` moves the git
directory aside and runs `runNightWithGit`; that selects issues, plans them, and calls
`processIssue` for one after the other, in one process, in one working tree; `processIssue` calls
the agent's container, git, the CI wait and GitHub. The night reads one thing back from an issue:
its result, which decides whether the next one in the chain is stacked on it. Between nights there
is no memory but GitHub's: branches, pull requests, labels, and the list of workflow runs.

What makes each part correct, in a sentence: the fix loop never announces commits CI has not let
through, never drops people's commits, leaves the tree clean and tells the night the truth; the CI
wait gives a verdict that the checks it read support, and always ends; the planner defers exactly
what must wait and orders the rest; the night accounts for each issue once, builds dependents on
their prerequisites and never touches work that is in review; the slot runs one scheduled night a
day and loses none; the selection lets no issue jump the queue and deletes only fixowl's own
branches; setup, cut anywhere and run again, loses no key and mixes no two Apps; the file says what
was answered; a service has a runner, and what was begun can be undone.

## 2. Modules

| module | models | extends / uses |
|---|---|---|
| `FixLoop` | `processIssue` and the git commands it gives | instantiates `DraftPromise` |
| `DraftPromise` | the abstract promise of one issue's loop | - |
| `FixLoopProofs` | theorems about `FixLoop` | `FixLoop` |
| `CiWait` | `waitForRequiredChecks`, the gate, the read of a head's checks | - |
| `CiWaitProofs` | theorems about `CiWait` | `CiWait` |
| `PrereqPlan` | `planPrereqs`, `mergeGraphs` as functions | - |
| `PlanProofs` | lemmas and theorems about `PrereqPlan` | `PrereqPlan` |
| `PlanCheck`, `MCPlan` | all inputs over a set of issues (four in `MCPlan`), and the plan's specification | `PrereqPlan` |
| `PlanCheckProofs` | theorems about `PlanCheck` | `PlanCheck`, `PlanProofs` |
| `NightRun`, `MCNight` | `runNightWithGit`, night after night, with people around it | `PrereqPlan` |
| `NightProofs` | theorems about `NightRun` | `NightRun`, `PlanProofs` |
| `ScheduledSlot` | triggers, check, guard and the concurrency group | - |
| `Selection`, `MCSelection` | the selection's calls: branches, pages, orphans, Layer A triage | - |
| `NightStartProofs` | theorems about `ScheduledSlot` and `Selection`: which run works, on which issues | `ScheduledSlot`, `Selection`, `PlanProofs` |
| `Provisioning` | `fixowl provision` over one repository, with people merging | - |
| `SetupWizard` | `fixowl init`: questions, App manifest capture, two files, validation, provisioning | `Provisioning` |
| `ConfigEdit` | `config.yaml`: rendering, resolution, editing sessions | - |
| `SetupProofs` | theorems about `SetupWizard`, `Provisioning` and `ConfigEdit` | `SetupWizard`, `ConfigEdit` |
| `RunnerLifecycle` | runner, service, registration and scheduler agent on several hosts | - |
| `RunnerProofs` | theorems about `RunnerLifecycle` | `RunnerLifecycle` |

Definitions named `X_Something` before a definition `X` are slips a change to the code could make;
each is there because a property of a run fails with it.

### FixLoop

`pc` names the await `processIssue` stands at; each action is the code from one await to the next,
with its failure. A branch is the sequence of its commits from its base commit, so that a rebase
gives a different history with the same commits, and fast-forward is being a prefix. `remote`,
`tracking` and `local` are the three copies git keeps. `Faults` says which calls may fail: `git`,
`engine`, `github`, and `reply` (the call succeeds and its answer is lost). People push commits to
the issue branch, over it or on top (`HumanPush`), and move the base (`BaseAdvances`). `FixowlTip`
is the ownership test by author and subject; a `lookalike` is a person's commit that passes it.

Left out: ignored files that survive `git clean -fd`; people opening, closing or merging the issue's
pull request while the loop runs; deletion of its branch; a `rebase --abort` that fails. The spend
is one unit for each pass that was measured. A sequence of best-effort GitHub writes inside one
catch is one step that may stop after any prefix. A killed job is `NightRun`'s.

### CiWait

The clock counts poll intervals. A read is two calls, check runs (`ReadRuns`) and commit statuses
(`ReadStatuses`), between which checks move; it throws, is forbidden, or silently lacks the
statuses. `Judge` is the order in which the loop asks: settled, stalled, timed out. `required` is
chosen at the start (`{}` is an unreadable set, the fallback mode). GitHub's side may register,
finish and re-run any check at any time. `seen`, `reads` and `steady` are history. Conclusions are
abstracted to passed and failed (`isFailureConclusion`).

### PrereqPlan and PlanCheck

Pure functions; recursion is by recursive functions over finite domains, and what the code computes
by walking a graph is the walk's result, round by round. `PlanCheck` takes every selection, edge
set, priority and in-flight state, computes the plan in one step and compares it with a definition
by positions and by where paths lead: `Leads`, the least set that holds the edges of a node and that
edges do not lead out of.

### NightRun

A branch is the set of issues whose work it holds; a base is an issue or `Default`. A night is
`idle` -> select -> plan -> issue after issue -> `over`. What `processIssue` does is an outcome,
split in two steps (`OpenDraft`, `Finish`) so that a night may be interrupted in between
(`Interrupted`, at any point). Between any two steps people merge and close pull requests. Left out:
Layer A triage, the priority path, evidence; an orphaned branch is always fixowl's; a rebase does
not bring in newer work of the base; blockers in other repositories and beyond the 50 that are read
appear in `PlanCheck` only.

### ScheduledSlot

Time is counted in a few units per day, with the cron at a multiple of `Day` and midnight UTC
`Midnight` units after. Runs are GitHub's list in order of creation; the concurrency group lets one
run hold it and one wait, a new waiting run cancelling the older, as GitHub does; that a new run
arrives in the one group is the rendered workflow's (`Arrival`). `HostChecks` reads
the list, `HostDispatches` creates the run later: cron and people come in between. `NightBegins` and
`StandsDown` are the guard. Left out: re-runs of an existing run, more than the 50 runs that are
listed, and a second host's agent. A run may wait for the group or
for its runner into the next occurrence, and the listing of runs may fail; the guard lets both
begin, by design, and `night` remembers of each run whether the guard could tell
(`OncePerOccurrence` speaks of those where it could).

### Selection

One step per remote call of the selection: `ListBranches`, then either the whole list
(`SelectIssues`) or page after page (`FetchPage`), and for each batch `resolveWork`: `Attempts` (the
branches' pull requests), `ReadTip` and `DeleteRemoteBranch` for each orphan, `Signals`, and
`Comment` and `Label` for each triaged issue. `query` runs through every tier with every pickup
label. A page holds pull requests too. `Throws` is a call that is not shielded; `Killed` the
night's end from outside. What follows the selection is `NightRun`'s, where an orphan is taken to
be fixowl's. Label rules are `any` rules; an `all` rule is one query, like one pickup label. What
kind of signal GitHub records is one value.

### Provisioning and SetupWizard

`files` are the configuration and the secrets on the host, `remote` the repository's sealed secrets,
its default branch and the two branches `provision` writes. An App is a number that stands for its
id, installation and key; a configuration is a version. Each remote call is a step, after any of
which the command may stop (`Stops`). `SetupWizard` adds the questions, of which only those that
write or decide are steps, and the manifest capture: GitHub's redirects, of this page or another,
arrive in any order with the timeout. `mem` is what the wizard has not written yet. Left out: the
probing of model lists, several repositories (they are provisioned one after the other), the labels'
colours.

### ConfigEdit

A file is its `defaults`, its `entries` and each agent's credential (`env`). A setting stands for the
fields that are handled alike, as the module's comment lists. `RenderConfig` is what `init` writes
from the answers, `Resolve` what the action reads back, `EditRepo` one pass of an editing session,
which compares with the file as it was loaded and changes the text edited so far, `Save` or `Refuse`
its end. `asked` is history. `HandEdit` sets or removes one key.

### RunnerLifecycle

A command is a sequence of steps on a host (`Plan`), one command at a time per host; each step may
fail or be cut. `dir` is what the runner's directory holds, of which an extraction or a removal that
is cut may leave any part, `dot` whether it is configured, `held` whose credentials GitHub's one
registration accepts: a second host that configures itself takes it over. The scheduler's agent is a
property list on disk and a job that launchd runs, under its old and its new label; launchd may
refuse to boot one out, which the code takes for one that was not loaded. The admin token comes and
goes; machines reboot. `torn` and `refused` are history: the hosts on which a removal was cut, the
labels launchd kept. Left out: `status`, the container engine's check, the runner's `.env`.

## 3. Runs

Most properties are conjunctions of named parts, defined beside them; the parts are given in words.

| run | checks | bounds, and why they are enough |
|---|---|---|
| `fixloop_faults` | `ReadyWasGated`; `TellsTheNight`: the result is true, the usage whole, only `finishExhausted` loses a pull request; `HumanWorkSurvives` | 3 attempts, 2 conflict passes (the defaults), 2 pushes by people (one before and one after the ownership check), 2 moves of the base (a rebase that conflicts again) |
| `fixloop_promise` | `LeavesItClean`: the tree handed on clean, a given-up rebase undone; `RewritesOnlyMarkedTips`; `KeepsPromise` (`DraftPromise` implemented); `EndsInBudget` | 2 attempts, and 2 conflict passes for two rebases: retry, exhaustion and a second rebase on what the first left of the budget all happen; lost replies and lookalikes added |
| `ci_wait` | `TypeOK` with the clock bound; `VerdictIsEarned`: green earned, red actionable, throw earned, no idle waiting; `SteadyVerdict`, the exact verdict when nothing moves; `WaitEnds` | 2 names, one with a commit status too, every required set; timeout 4 against a settle window of 2; 2 errors in a row; a sleep may wake one interval late |
| `plan_all` | `PlanIsExact`: deferral exact, order, no blocker forgotten; `ChainsAreRight`: linked, ordered, additive | 4 issues, one of them at most with blockers out of reach or blocked by itself: a cycle with something hanging on it, a join of two prerequisites, two chains merged by an edge |
| `night_review` | `TypeOK`; `EveryIssueAccounted`; `StacksAreSound`: on green or native, the needed work under a dependent, a stack's diff its own; `ReviewedWorkIsKept` | 3 issues, every edge set, cap 2 (one issue waits for another night), every kind of failure, one interrupted night, people merging and closing |
| `night_drain` | `DrainsUnlessHeld`: every issue gets a pull request, unless one in line waits for two in review | 4 issues, any number of edges to older ones (two prerequisites in flight, and one behind them), cap 1, 2 interrupted nights, nobody reviewing |
| `slot_triggers` | `TypeOK`, with no two runs at work at once; `OncePerOccurrence`; `NoNightIsLost`: stand-downs earned, a check always leaves a scheduled run | 2 occurrences of 2 ticks with midnight between the ticks, 2 host fires in each, 4 runs, all three modes, failing dispatches and listings, runs that wait into the next occurrence |
| `selection_tiers` | `SelectTypeOK`; `QueueIsKept`: no issue jumps the queue, the cap filled; `CommentedOnce`; `ResetsOnlyOrphans`; `SelectionEnds` | 3 issues of 6 kinds with a pull request between them, pages of 2, 2 pickup labels and 1 priority label (5 pages at most), the three modes, 2 nights (what the first left behind), 1 act of a person |
| `setup_rerun` | `TypeOK`; `ProvisionTells`: no open pull request untold, the workflow proposed; `FilesFit`: the key beside the configuration, own output loads; `AppIsOurs`: one App sealed, own App only | 2 Apps (a key and another's id), 2 versions of the answers (a refresh), any number of runs and cuts |
| `config_sessions` | `EditTypeOK`; `WrittenAsAsked`: the file says what was asked, and loads; `EnterKeeps`; `OthersAreLeftAlone`; `RefusedOnlyByInheritance` | 2 repositories (the base and one that inherits), 3 agents (two with catalogs, one without), 2 edits, 1 answer off the default in `init` and in each edit |
| `runner_hosts` | `ServiceHasRunner`; `OneAgent`; `DeregisteredMeansGone`; `StartGetsThere`: a routine start gets to a running service, with the admin token or without; `DeregisterClears`: a deregistration, begun anew after any cut, gets to its end | one Mac with every command, and an old agent or none; a second host (`Guests`) that only provisions, which is the one way a host disturbs another: it takes the name over; commands, cuts, takeovers and reboots without bound |

The type invariants of `FixLoop` and `RunnerLifecycle` are not checked by a run but proved (section 5).

One run shows where the program does not do what its own documents say: it reaches the state in
question, and `PROJECT.json` quotes the line.

| run | claim | what happens |
|---|---|---|
| `fixloop_stranded` | a failure after the pull request exists never strands an unexplained draft | `return finishExhausted(...)` is not awaited in the `try`; a GitHub write that fails there passes the catch by |

What the properties do not say, where the code is exposed:

- An issue whose two prerequisites are both in review is deferred every night
  (`prereq-planner.ts:157-165`, as `docs/stacked-prs.md:37-41` says) and keeps its slot under the cap,
  which is filled before the planner is asked (`main.ts:500`): with `max_issues` of them in front,
  nothing behind them is worked on until somebody merges. `TwoInFlight` in `DrainsUnlessHeld` is this
  case; an issue blocked by one that is never selected keeps its slot as well, and is not modelled.
- A conflict resolve that throws (the engine failing to start the container) leaves git's rebase in
  progress, in the git directory that all issues of the night share; `LeavesItClean` is about the
  files, and about rebases that are given up.
- `TellsTheNight` excepts `finishExhausted`, the subject of `fixloop_stranded`, and is checked without
  lost replies.
- `BuildsOnPrereqs` is stated for nights without in-flight bases, see `main.ts:669` below.
- An orphaned branch whose fetch or deletion fails ends the night (`main.ts:414`); for
  `SelectionEnds` that is an end.
- `FilesFit` excepts a configuration behind a later key (`ahead`) and a cut between the two writes
  (`torn`); `ProvisionTells` a branch that was left without a pull request (`abandoned`).

Further disagreements met while modelling, which no run checks:

- A pull request is marked ready, then its body and comment are written; when one of these fails the
  loop's catch annotates it as a draft and the result says draft (`issue-pipeline.ts:326`, `:394`).
- The usage of conflict passes is lost when the rebase throws (`issue-pipeline.ts:292`), against
  "every return path carries it" (`:153-156`).
- A cycle's warning also names issues that only depend on it (`prereq-planner.ts:174`, `:237`).
- A MERGED pull request "is already in the default branch" (`prereq-planner.ts:132`); a stacked one
  that was merged into its parent's branch is not.
- A run is counted by `createdAt` although the type's comment speaks of a run that "started at or
  after that anchor" (`fallback-dispatch.ts:36`): a run that waits behind a long night into the next
  occurrence works in it, and so does that occurrence's own.
- `ChecksForRef.checks` "is the full, de-duplicated set on the ref" when readable
  (`ci-gate.ts`); `github-api.ts:239` swallows a failing read of the commit statuses, so a failing
  status is not seen and a required one may be called stalled.
- "git refuses if the remote branch advanced beyond what we last pushed, so a concurrent push is
  never clobbered" (`git-ops.ts:293-295`): the ownership check's fetch moves the ref the lease is
  taken from, so a push by someone whose commits carry fixowl's mark is inside the lease.
- A draft "is never used as a stack base" (`docs/stacked-prs.md:18-20`): an in-flight prerequisite
  counts by `OPEN` (`prereq-planner.ts:126`), which drafts are too.
- "A dependent stacks on and is ordered after its prerequisite" (`prereq-planner.ts:9-10`): the
  in-flight base of one chain member replaces the running base for those after it (`main.ts:669`),
  so an issue after two prerequisites may be cut from a branch with one of them only.
- "the guard degrades to the calendar day harmlessly" (`workflow-template.ts:124-125`): a night that
  a host dispatches after midnight UTC uses up the next day's (`fallback-dispatch.ts:368`).
- `provision` says that re-running it refreshes the pending workflow pull request
  (`provision.ts:189`); after a run that stopped between writing the file and opening the pull
  request the file is unchanged and none is opened. The starter branch behaves likewise (`:236`),
  and the wizard then prints "Nothing to merge [...] already on the default branch"
  (`init.ts:1647-1648`). The `abandoned` of `WorkflowProposed` is this case.
- The admin token's absence is reported with "only `fixowl provision` and `fixowl start --register`
  need it" (`context.ts:28`); `stop --deregister` does too (`stop.ts:43`), as does `validate`.
- "Nothing is written until the questions are answered" (`init.ts:190-191`); the App's key is
  (`:490-495`, `:715-717`), by need.
- "the wizard's own output always does" parse (`init.ts:1690`); not when it is cut between its two
  writes and the configuration refers to the new dispatch token.
- A migration of the scheduler's agent moves it over "instead of leaving two agents"
  (`host-scheduler.ts:195-197`); `launchctl bootout` is run without a look at its answer
  (`host-scheduler-launchd.ts:228`, `:236`), so when launchd refuses, the new agent is bootstrapped
  beside the old one and both run until the next login. `refused` in `OneAgent` is this case.
- Registration is "Idempotent" and safe to repeat (`register.ts:42-43`); when the registration was
  deleted on GitHub and `.runner` is still there, nothing is registered again. Deregistering deletes
  the registration by name, also when another host holds it.
- `stop` and `stop --deregister` ask `svc.sh` first and fail for good on a directory from which it
  was never unpacked, or that a cut removal left without it (`launchd.ts`), and
  `ensureRunnerInstalled` takes `config.sh` for the whole runner (`install.ts:67`). Such a directory
  has to be removed by hand.
- A removal of the directory that is cut (`stop.ts:47`) may leave `config.sh`, `svc.sh` and `.runner`
  behind: the next start takes the runner for registered and installs a service without its
  binaries. `torn` in `ServiceHasRunner` is this case.
- `edit` shows "the current value" (`edit.ts:95-96`); a repository edited twice in one session is
  shown, and compared with, the file as loaded.
- "an all-keep walk-through stays a no-op" (`edit.ts:188-189`): not for the settings `Unreached` lists.
- A session in which an agent is switched and the model left blank is refused as a whole when the
  defaults name another agent's model (`edit.ts:160-163`); the configuration is written before the
  secrets, so a cut leaves the new agent's credential missing.
- "a blank answer opts that axis out" (`init.ts:1127`): a later repository's blank budget inherits the
  first one's (`config-file.ts:178-190`).
- "oldest-first within a tier" (`docs/priority-selection.md:68`): with several pickup labels the
  order within a tier is label by label; `Rank` says which.
- "comment once" (`docs/issue-triage.md:62`): once more for every night on which the label could not
  be written, as `CommentedOnce` has it.

## 4. Fairness

`FixLoop` and `CiWait`: weak fairness of the program's own steps. The process is one sequence of
awaits, each of which returns or throws (containers and waits have timeouts, the job has one), so a
step that can be taken is. Nothing is assumed of people, CI or GitHub.

`NightRun`: weak fairness of the night's steps and of nights beginning (the schedule keeps firing),
none of people. `DrainsUnlessHeld` needs more, that an issue which is worked again and again in the
end gets as far as a pull request: strong fairness, per issue, of `OpenDraft` (`DrainSpec`). This is
an assumption about the agent, not about the code; the property shows what the code puts in the way.
Nothing says that people merge, so two prerequisites in review hold an issue for ever, which the
property excepts. `ScheduledSlot`, `SetupWizard` and `ConfigEdit` have safety only.

`Selection`: weak fairness of the night's steps, since a call returns or throws; that the paging
ends while the list moves is the code's. `RunnerLifecycle`: weak fairness of the steps of each host
that runs every command, which are calls that return or fail; of no failure, person or reboot, which
may cut a command at any time. A wizard may wait for its next answer for ever.

## 5. Proofs

`FixLoopProofs` proves, for all budgets, all fault sets and any number of pushes, from the named
assumptions on the constants in `FixLoop` and nothing else:

| theorem | property |
|---|---|
| `TypeCorrect` | `TypeOK` |
| `SpendBounded` | `PassesBounded` |
| `UsageReported` | `UsageIsReported` |
| `ReadyOnlyGated` | `ReadyWasGated` |
| `ResultTrue` | `ResultIsTrue` |
| `LoopErrorsKept` | `LoopErrorsKeepTheirPr`, where no reply is lost |
| `HumanWorkKept` | `HumanWorkSurvives`, when people's commits do not carry fixowl's mark |
| `RewritesMarked` | `RewritesOnlyMarkedTips` |
| `LoopKeepsPromise` | `KeepsPromise`: `FixLoop` implements `DraftPromise` |
| `HandsOverClean` | `CleanHandover`: no uncommitted work; a rebase left in progress is not its subject |
| `GivesUpCleanly` | `GiveUpRestoresBranch` |
| `NightIsTold` | `TellsTheNight`, where no reply is lost |
| `LeftClean` | `LeavesItClean` |

None of the properties is inductive alone. `Ind` adds to the types what ties the counters to the
stage (how many passes can have been spent when the loop is at this await, how the passes of the
running rebase relate to the conflict budget), which gives the spend bound and the usage. `GateInd`
ties the head variable, what the gate last let through and the pull request's state together stage
by stage, which gives the ready property and the refinement. `Owners` and `Leased` say that between
the ownership check and the forced push the tracking ref holds no commit of a person's beyond what
was looked at, so that a lease that still holds loses none. `Handover` follows the tree and a rebase
in progress to the end of each path. Each is proved by one step per action.

`RunnerProofs` proves for every set of hosts, from `HostsAssumption`:

| theorem | property |
|---|---|
| `RunnerTyped` | `TypeOK` |
| `ServicesHaveRunners` | `ServiceHasRunner` |
| `DeregisteredIsGone` | `DeregisteredMeansGone` |
| `AgentsAreOne` | `OneAgent` |

`HostInd` says of a host what the steps before the present one have left: an installed runner before
it is configured (or what a cut removal left of one), a configured one before its service, no service
once the deregistration is past it, and no registration of its own before the directory goes. A host runs one command at a time, so only
its own steps disturb this, except for the registration, which other hosts can take but not give
(`OthersKeep`). `AgentOk` is the same for the scheduler's agent; of launchd's refusals it assumes
nothing, so `AgentsAreOne` says of what is on disk that it is one agent, and of what runs that it is
one where launchd did what it was asked.

`CiWaitProofs` proves for every set of contexts, timeout, settle window and error budget, from its
named assumptions:

| theorem | property |
|---|---|
| `WaitTyped` | `TypeOK`, with the bound on the clock |
| `VerdictEarned` | `VerdictIsEarned` |
| `SteadyVerdictHolds` | `SteadyVerdict` |

`JudgeIs` lists the ends a judgement has, each with what it knows of the checks. `WaitInd` adds that
the wait goes to sleep only with time left and goes on only with errors left (`Undecided`), which
bounds the clock, and that the latest reads failed, as many as errors are counted (`ErrorRow`), which
makes a throw earned. For `SteadyVerdict` the check runs of a read in progress are still the head's.

`PlanProofs` proves what `PrereqPlan` computes, for every finite set of issues:

| theorem | what it says |
|---|---|
| `PlanPrereqsIs` | what `planPrereqs` defers is closed under dependents and holds all that must wait; the rest is ordered by edges, rank and age |
| `MergeGraphsIs` | `mergeGraphs` returns disjoint chains of all the issues, closed under edges and conflicts, each in order |

The sort, the rounds of Kahn's algorithm, the cascade of deferrals and the flattening of chains are
recursive functions. That such a definition has a function is `IteratesExist`; what it computes is
shown by a least number for which it would not, which needs nothing but arithmetic (`LeastNat`). That the rounds
settle within as many as there are nodes is by the number of nodes they reach. A node that a cycle
does not feed has a rank, the round that reaches it (`SettledIsRanked`), and ranks make an order
exist at every step of the topological sort.

`PlanCheckProofs` adds that this is what `PlanCheck` asks for, for every set of issues, ranks, orders
and number of issues with blockers out of reach or blocked by themselves:

| theorem | property |
|---|---|
| `PlanExact` | `PlanIsExact` |
| `ChainsRight` | `ChainsAreRight` |

The algorithm defers what its rounds do not reach and the definition what paths lead to. They meet in
`CyclesExact`: of the nodes that are not reached, the one that leads to fewest leads to itself. That
edges which say nothing new change nothing is by the chains' being sorted: an order is sorted in one
way (`SortedUnique`), and the chains keep their places, since the only increasing map of the places
onto themselves is the identity (`GrowingOnto`).

`NightProofs` proves for every set of issues, cap, number of interruptions and classification:

| theorem | property |
|---|---|
| `NightInvariant` | `NightInd` |
| `NightTypes` | `TypeOK` |
| `IssuesAccounted` | `EveryIssueAccounted` |
| `ReviewedKept` | `ReviewedWorkIsKept` |
| `StacksSound` | `StacksAreSound` |

Of the plan it uses only what `PlanProofs` says, so a planner that keeps those promises keeps these.
`NightInd` says that every selected issue is ahead in one chain or accounted for once (`Accounted`,
`Disjoint`); that what is ahead has no branch (`Untouched`), so that working on it disturbs nothing
in review; that no edge leads out of a chain that has not begun (`Planned`); that the running base
ended ready and is in the clone (`BaseIsGreen`), and holds what the rest of its chain waits for as far
as that shipped (`BaseGathers`); and that the issue in the making lies on its base and in its branch
(`OnItsBase`, `InItsBranch`). People act between any two steps, so each part is also kept by a merge
and a close.

`NightStartProofs` proves of `ScheduledSlot`, for every length of day, place of midnight, horizon and
number of runs and fires:

| theorem | property |
|---|---|
| `SlotTyped` | `TypeOK`: with it, no two runs at work at once |
| `OneNightADay` | `OncePerOccurrence` |
| `NoLostNight` | `NoNightIsLost` |

The lemmas on `Anchor` (monotonic, idempotent, a day apart) carry the arithmetic of occurrences.
`SlotInd` says that one run at most holds the group and one waits (`OneHolds`), that the list is by
age, and that the group is handed on in that order: when a run has its turn, those before it are over
(`InTurn`). This is why a run's guard sees every older run's outcome. Where no cron fires, the host's
check makes one scheduled run an occurrence (`OneHostRun`).

and of `Selection`, for every finite set of issues and pull requests, every rule of pickup and
priority labels, state of the branches, cap, number of nights and of people's acts, with calls that
fail or without:

| theorem | property |
|---|---|
| `SelectTyped` | `SelectTypeOK`, with no issue chosen twice and the cap kept |
| `QueueKept` | `QueueIsKept` |
| `CommentsOnce` | `CommentedOnce` |
| `OrphansOnly` | `ResetsOnlyOrphans` |

`SelectInd` has three parts. `InTheMaking` and `Apart` say what a batch holds at each call of
`resolveWork` and that nothing is chosen, skipped or triaged twice. `CommentsPaid` bounds the comments
of an issue by the labels it lost, the one it carries and the one the program is about to write;
`OrphansRaced` says that whatever is on the list of orphans and has a pull request got it after the
list was made. The queue needs the rest: `Swept`, that every issue still in line was seen if its query
is over or its page was read, and `Lined`, that what was seen is accounted for or in the batch, and
that whoever stands before a chosen issue was seen. Between two looks at the list people only take
issues out of it and the night only sets some aside, so the places of the others get no later
(`Quiet`): an issue may move up to a page that was read only when another left the list, and the property
excuses just those (`Shifted`). A page shorter than asked for, pull requests counted, is the last one
of its query (`Drained`), so that the next query begins with everybody of this one seen.

`SetupProofs` proves for all numbers of Apps and versions of the answers, from `BoundsAssumption`:

| theorem | property |
|---|---|
| `SetupInvariant` | `SetupInd` |
| `SetupTyped` | `TypeOK` |
| `ProvisionReports` | `ProvisionTells` |
| `CutWizardFits` | `FilesFit` |
| `OneOwnApp` | `AppIsOurs` |

`SetupInd` ties the wizard's memory to the host: the key it holds is saved before a configuration
names it (`KeyOnHost`), and it never remembers less than the host has (`Memory`), which is why a cut
between two writes leaves files that fit. `Capturing` says that what a redirect brings is an App of
this page or another's, `Sealing` how far the three secrets of an App have been sealed, `Branches` and
`Told` what the next steps of a provisioning will find proposed, and report.

and of `ConfigEdit`, for every set of repositories, number of edits and number of answers off the
default, from `ReposAssumption` and `ChangesAssumption`:

| theorem | property |
|---|---|
| `EditTyped` | `EditTypeOK` |
| `WrittenRight` | `WrittenAsAsked` |
| `EnterChangesNothing` | `EnterKeeps` |
| `OthersStay` | `OthersAreLeftAlone` |
| `RefusedFor` | `RefusedOnlyByInheritance` |

A session writes a text that is compared with the file it was loaded from, edit after edit; `EditInd`
says what these two have in common. `TextKept`: the defaults, the entries of the repositories that
were not edited and the credentials of the agents nobody switched to are still the file's.
`EditsStand`: the entry of a repository edited once is the one its answers make of the file's, which
resolves to these answers (`StandsIs`). `AnswersLoad`: answers fit the agent they were given for when
the settings before did, since they are of its catalog or kept. `EnterStands`: when only Enter was
pressed, each entry is the file's or what Enter makes of it, however often. `RenderedIs` is the same
for what `init` writes. Of answers and values the proof uses that none is a blank, and of the catalog
which model and effort are whose; the values of `Dom` are the model's.

Only model-checked: liveness (`EndsInBudget`'s `Terminates`, `WaitEnds`, `DrainsUnlessHeld`,
`SelectionEnds`, `StartGetsThere`, `DeregisterClears`), since the prover does neither fairness nor
ENABLED. Every other property of a run that passes is a theorem, under the hypotheses named above.

## 6. Not modelled

Prompts, pull request texts, the summary, evidence uploads, terminal prompts, the observation
commands (`watch`, `logs`, `run`) and release tooling: they format, parse or print, and no other
part's state depends on them. The contents of the model catalogs and the schema of single fields are
data. Moving the git directory out of the workspace and back has one effect a model could show, a
workspace without it after a killed night, and the program leaves that to the next checkout, which
is outside the repository. The container's timeout races the run's own end inside one process; a
pass that ends well or as timed out is a choice in `FixLoop`.

## 7. Plan

The safety properties of every module are proved. What the modules leave out, as section 2 says of
each, is where the project would grow: several repositories in one provisioning, a rebase that
brings in newer work of its base, people acting on an issue's pull request while its loop runs. Each
is a choice more in an action that is there, and the invariants of section 5 say what it must keep.
