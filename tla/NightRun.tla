------------------------------ MODULE NightRun ------------------------------
(***************************************************************************)
(* The nights of one repository: runNightWithGit of                        *)
(* packages/action/src/main.ts, from the selection of the issues to the    *)
(* last one of the last chain, night after night, while people review,     *)
(* merge and close the pull requests it left.                              *)
(*                                                                         *)
(* A branch is abstracted to the set of issues whose work it holds; {} is  *)
(* no branch.  What processIssue does to one issue is its outcome          *)
(* (FixLoop has the inside).  A base or a pull request's target is the     *)
(* issue whose branch it is, or Default.                                   *)
(***************************************************************************)
EXTENDS PrereqPlan

CONSTANTS
  Issues,      \* the issue numbers
  Graphs,      \* the blocked_by edges to try: functions from Issues to sets of them
  MaxIssues,   \* inputs.maxIssues
  Heuristic,   \* inputs.heuristicConflictOrdering
  Outcomes,    \* what processIssue may end in
  Trips,       \* whether the usage, token or wall-clock budget may trip
  Fails,       \* whether a fetch, a model selection or the image build may fail
  MaxInterrupts, \* bound: how often the host may stop a night
  Reviewers    \* what people may do: merge, close

Default == 0
Targets == Issues \cup {Default}
NoIssue == [number |-> Default, onto |-> Default, work |-> {}]

(* ready and draft have a pull request: draft is pr-opened as a draft,     *)
(* needs-rebase, or agent-failed and error over a draft.  The others have  *)
(* none; error-branch is an error after the push.                          *)
OutcomeKinds == {"ready", "draft", "failed", "no-changes", "error", "error-branch"}

ASSUME IssuesAssumption    == Issues \subseteq Nat \ {Default} /\ IsFiniteSet(Issues)
ASSUME GraphsAssumption    == Graphs \subseteq [Issues -> SUBSET Issues]
ASSUME MaxIssuesAssumption == MaxIssues \in Nat \ {0}
ASSUME OutcomesAssumption  == Outcomes \subseteq OutcomeKinds
ASSUME InterruptsAssumption == MaxInterrupts \in Nat
ASSUME SwitchesAssumption  == {Heuristic, Trips, Fails} \subseteq BOOLEAN
ASSUME ReviewersAssumption == Reviewers \subseteq {"merge", "close"}

VARIABLES
  blockedBy,   \* the native edges
  open,        \* open issues that match the label rule
  triaged,     \* issues with the fixowl:triaged label
  branch,      \* issue -> the work its branch on origin holds
  pull,        \* issue -> its pull request
  target,      \* issue -> what that is to be merged into
  main,        \* the work in the default branch
  interrupts,  \* how many nights the host has stopped
  pc,          \* where the night stands
  selected,    \* the night's issues
  skipped,     \* issues skipped by idempotency
  plan,        \* prereqPlan
  chains,      \* what is left of the chains
  base,        \* prBase of the running chain
  current,     \* the issue in processIssue: number, base, work in that base
  tracking,    \* the refs of the clone: base -> the work it holds there
  shipped,     \* issues that became a stack base
  results,     \* issue -> its outcome, for the issues tried
  deferred,    \* issues deferred
  notStarted,  \* issues the budget kept from starting
  stopped      \* budgetStop is set

repo  == <<blockedBy, open, triaged, branch, pull, target, main, interrupts>>
night == <<selected, skipped, plan, chains, base, current, tracking, shipped, results, deferred,
           notStarted, stopped>>
vars  == <<repo, pc, night>>

NoPlan == [shippable |-> << >>, prereqs |-> << >>, stackBases |-> << >>, deferred |-> {},
           cyclic |-> {}]

-----------------------------------------------------------------------------
FreshNight ==
  /\ selected = {}
  /\ skipped = {}
  /\ plan = NoPlan
  /\ chains = << >>
  /\ base = Default
  /\ current = NoIssue
  /\ tracking = [b \in Targets |-> {}]
  /\ shipped = {}
  /\ results = << >>
  /\ deferred = {}
  /\ notStarted = {}
  /\ stopped = FALSE

Init ==
  /\ blockedBy \in Graphs
  /\ open = Issues
  /\ triaged = {}
  /\ branch = [n \in Issues |-> {}]
  /\ pull = [n \in Issues |-> "none"]
  /\ target = [n \in Issues |-> Default]
  /\ main = {}
  /\ interrupts = 0
  /\ pc = "idle"
  /\ FreshNight

(* A night's memory is its process's.                                      *)
ForgetNight ==
  /\ selected' = {}
  /\ skipped' = {}
  /\ plan' = NoPlan
  /\ chains' = << >>
  /\ base' = Default
  /\ current' = NoIssue
  /\ tracking' = [b \in Targets |-> {}]
  /\ shipped' = {}
  /\ results' = << >>
  /\ deferred' = {}
  /\ notStarted' = {}
  /\ stopped' = FALSE

(* The first `count' of the issues, oldest first.                          *)
Oldest(issues, count) == {n \in issues : Cardinality({m \in issues : m < n}) < count}

(* Mutant: only a live pull request makes an attempt.                      *)
Attempted_LiveOnly(touched) == {n \in touched : pull[n] \in {"draft", "ready"}}

(* Mutant: any branch makes an attempt.                                    *)
Attempted_AnyBranch(touched) == touched

(* resolveAttemptedBranches: a branch with a pull request, whatever its    *)
(* state.                                                                  *)
Attempted(touched) == {n \in touched : pull[n] # "none"}

(* Selection: issues with a branch are skipped, or, without a pull         *)
(* request, have it reset; of the others the oldest MaxIssues are taken.   *)
(* The clone holds the default branch of that moment.                      *)
SelectWork ==
  /\ pc = "idle"
  /\ LET matching == open \ triaged
         touched  == {n \in matching : branch[n] # {}}
         orphaned == touched \ Attempted(touched)
     IN  /\ branch' = [n \in Issues |-> IF n \in orphaned THEN {} ELSE branch[n]]
         /\ skipped' = Attempted(touched)
         /\ selected' = Oldest(matching \ Attempted(touched), MaxIssues)
  /\ tracking' = [tracking EXCEPT ![Default] = main]
  /\ pc' = IF selected' = {} THEN "over" ELSE "selected"
  /\ UNCHANGED <<blockedBy, open, triaged, pull, target, main, interrupts, plan, chains, base, current,
                 shipped, results, deferred, notStarted, stopped>>

(* The pre-run gate stands the whole night down.                           *)
StandDown ==
  /\ pc = "selected"
  /\ Trips
  /\ notStarted' = selected
  /\ stopped' = TRUE
  /\ pc' = "over"
  /\ UNCHANGED <<repo, selected, skipped, plan, chains, base, current, tracking, shipped, results,
                 deferred>>

(* What GitHub says of the selected issues, and of the pull requests of    *)
(* their skipped prerequisites (resolveInFlightPrereqs).                   *)
Dependencies ==
  [n \in selected |->
     [overflow  |-> FALSE,
      blockedBy |-> {[number |-> p, open |-> p \in open, here |-> TRUE] : p \in blockedBy[n]}]]

InFlightPrereqs ==
  LET Liveness(state) == CASE state \in {"draft", "ready"} -> "OPEN"
                           [] state = "merged" -> "MERGED"
                           [] state = "closed" -> "CLOSED"
                           [] OTHER -> "none"
  IN  [p \in {q \in skipped : q \in open /\ \E n \in selected : q \in blockedBy[n]} |->
         Liveness(pull[p])]

(* The classifier divides the shippable issues into ordered chains; off,   *)
(* or when it fails, every issue is its own.                               *)
Classifications(shippable) ==
  {AllIndependent(shippable)} \cup
  (IF Heuristic
     THEN LET Chain(order, ends) ==
                [i \in DOMAIN ends |->
                   SubSeq(order, IF i = 1 THEN 1 ELSE ends[i - 1] + 1, ends[i])]
          IN  {Chain(order, SortByKey(ends \cup {Len(shippable)}, [e \in Nat |-> e])) :
                 order \in SetToSeqs(ToSet(shippable)),
                 ends \in SUBSET (1 .. Len(shippable) - 1)}
     ELSE {})

(* Planning, the image build, the chains, and the fetch of the default     *)
(* branch, which may fail.  A night with nothing shippable ends here.      *)
PlanNight ==
  /\ pc = "selected"
  /\ plan' = PlanPrereqs(selected, Dependencies, InFlightPrereqs, [n \in Issues |-> 0])
  /\ deferred' = plan'.deferred
  /\ IF plan'.shippable = << >>
       THEN pc' = "over" /\ UNCHANGED <<chains, tracking>>
       ELSE \E conflicts \in Classifications(plan'.shippable) :
              /\ chains' = MergeGraphs(conflicts, plan'.prereqs)
              /\ \/ tracking' = [tracking EXCEPT ![Default] = main]
                 \/ Fails /\ UNCHANGED tracking
              /\ pc' = "next"
  /\ UNCHANGED <<repo, selected, skipped, base, current, shipped, results, notStarted, stopped>>

(* The image cannot be built: the night throws.                            *)
NightAborts ==
  /\ pc = "selected"
  /\ Fails
  /\ pc' = "idle"
  /\ ForgetNight
  /\ UNCHANGED repo

-----------------------------------------------------------------------------
(* The loop over the chains.                                               *)

Upcoming == chains[1][1]

(* Mutant: a finished chain stays in the list.                             *)
Advance_LeavesEmpty(onto) ==
  /\ chains' = <<Tail(chains[1])>> \o Tail(chains)
  /\ base' = onto

(* The loop goes on: to the chain's next member on `onto', or to the next  *)
(* chain, which starts from the default branch.                            *)
Advance(onto) ==
  IF Len(chains[1]) > 1
    THEN chains' = <<Tail(chains[1])>> \o Tail(chains) /\ base' = onto
    ELSE chains' = Tail(chains) /\ base' = Default

AtIssue == pc = "next" /\ chains # << >>

(* Mutant: what the budget keeps from starting is not recorded.            *)
BudgetStops_Unrecorded ==
  /\ AtIssue
  /\ stopped \/ Trips \/ Cardinality(shipped) >= MaxIssues
  /\ stopped' = TRUE
  /\ Advance(base)
  /\ UNCHANGED <<repo, pc, selected, skipped, plan, current, tracking, shipped, results, deferred,
                 notStarted>>

(* The between-issues gate; once it has tripped nothing starts any more.   *)
BudgetStops ==
  /\ AtIssue
  /\ stopped \/ Trips \/ Cardinality(shipped) >= MaxIssues
  /\ stopped' = TRUE
  /\ notStarted' = notStarted \cup {Upcoming}
  /\ Advance(base)
  /\ UNCHANGED <<repo, pc, selected, skipped, plan, current, tracking, shipped, results, deferred>>

BudgetHolds == ~stopped /\ Cardinality(shipped) < MaxIssues

Unshipped(n) == plan.prereqs[n] \ shipped

Defer ==
  /\ deferred' = deferred \cup {Upcoming}
  /\ Advance(base)
  /\ UNCHANGED <<repo, pc, selected, skipped, plan, current, tracking, shipped, results, notStarted,
                 stopped>>

(* A prerequisite did not ship tonight.                                    *)
DeferUnshipped ==
  /\ AtIssue
  /\ BudgetHolds
  /\ Unshipped(Upcoming) # {}
  /\ Defer

(* The branch of the in-flight prerequisite cannot be fetched.             *)
DeferUnfetched ==
  /\ AtIssue
  /\ BudgetHolds
  /\ Unshipped(Upcoming) = {}
  /\ Upcoming \in DOMAIN plan.stackBases
  /\ Fails \/ branch[plan.stackBases[Upcoming]] = {}
  /\ Defer

(* issuePrBase: the in-flight prerequisite, or the chain's running base.   *)
BaseOf(n) == IF n \in DOMAIN plan.stackBases THEN plan.stackBases[n] ELSE base

(* The issue's base is there; its selector labels may still conflict.      *)
Startable ==
  /\ AtIssue
  /\ BudgetHolds
  /\ Unshipped(Upcoming) = {}
  /\ Upcoming \in DOMAIN plan.stackBases => branch[plan.stackBases[Upcoming]] # {}

(* results.push: what became of one more issue.                            *)
Recorded(n, outcome) ==
  [m \in DOMAIN results \cup {n} |-> IF m = n THEN outcome ELSE results[m]]

ModelConflict ==
  /\ Startable
  /\ Fails
  /\ results' = Recorded(Upcoming, "error")
  /\ Advance(base)
  /\ UNCHANGED <<repo, pc, selected, skipped, plan, current, tracking, shipped, deferred, notStarted,
                 stopped>>

(* processIssue checks the branch out from the clone's ref of its base; of *)
(* these only an in-flight base is fetched anew.                           *)
StartIssue ==
  /\ Startable
  /\ IF Upcoming \in DOMAIN plan.stackBases
       THEN LET p == plan.stackBases[Upcoming] IN tracking' = [tracking EXCEPT ![p] = branch[p]]
       ELSE UNCHANGED tracking
  /\ LET onto == BaseOf(Upcoming)
     IN  current' = [number |-> Upcoming, onto |-> onto, work |-> tracking'[onto]]
  /\ pc' = "working"
  /\ UNCHANGED <<repo, selected, skipped, plan, chains, base, shipped, results, deferred,
                 notStarted, stopped>>

(* Mutant: onto the chain's running base, whatever it was cut from.       *)
OpenDraft_ChainBase ==
  /\ pc = "working"
  /\ current.onto # Default => branch[current.onto] # {}
  /\ LET n == current.number
     IN  /\ branch' = [branch EXCEPT ![n] = current.work \cup {n}]
         /\ tracking' = [tracking EXCEPT ![n] = branch'[n]]
         /\ pull' = [pull EXCEPT ![n] = "draft"]
         /\ target' = [target EXCEPT ![n] = base]
  /\ pc' = "opened"
  /\ UNCHANGED <<blockedBy, open, triaged, main, interrupts, selected, skipped, plan, chains, base,
                 current, shipped, results, deferred, notStarted, stopped>>

(* The branch is pushed and its draft pull request opened; GitHub opens    *)
(* none onto a branch that is gone.                                        *)
OpenDraft ==
  /\ pc = "working"
  /\ current.onto # Default => branch[current.onto] # {}
  /\ LET n == current.number
     IN  /\ branch' = [branch EXCEPT ![n] = current.work \cup {n}]
         /\ tracking' = [tracking EXCEPT ![n] = branch'[n]]
         /\ pull' = [pull EXCEPT ![n] = "draft"]
         /\ target' = [target EXCEPT ![n] = current.onto]
  /\ pc' = "opened"
  /\ UNCHANGED <<blockedBy, open, triaged, main, interrupts, selected, skipped, plan, chains, base,
                 current, shipped, results, deferred, notStarted, stopped>>

(* pr-opened, and not a draft.                                             *)
Ships(outcome) == outcome = "ready"

(* processIssue is over: the result is kept, and only a ready pull request *)
(* becomes the base of the chain's next member.                            *)
Finish(outcome) ==
  /\ outcome \in Outcomes
  /\ results' = Recorded(current.number, outcome)
  /\ shipped' = IF Ships(outcome) THEN shipped \cup {current.number} ELSE shipped
  /\ Advance(IF Ships(outcome) THEN current.number ELSE base)
  /\ current' = NoIssue
  /\ pc' = "next"
  /\ UNCHANGED <<blockedBy, open, target, main, interrupts, selected, skipped, plan, tracking,
                 deferred, notStarted, stopped>>

(* Without a pull request: nothing to show, a label that keeps the issue   *)
(* out of later nights, or an error, perhaps after the push.               *)
FinishWithoutPr(outcome) ==
  /\ pc = "working"
  /\ outcome \in {"failed", "no-changes", "error", "error-branch"}
  /\ branch' = IF outcome = "error-branch"
                 THEN [branch EXCEPT ![current.number] = current.work \cup {current.number}]
                 ELSE branch
  /\ triaged' = IF outcome = "no-changes" THEN triaged \cup {current.number} ELSE triaged
  /\ Finish(outcome)
  /\ UNCHANGED pull

(* With one: ready, or left a draft.  Someone may have closed it by then.  *)
FinishWithPr(outcome) ==
  /\ pc = "opened"
  /\ outcome \in {"ready", "draft"}
  /\ pull' = IF outcome = "ready" /\ pull[current.number] = "draft"
               THEN [pull EXCEPT ![current.number] = "ready"] ELSE pull
  /\ Finish(outcome)
  /\ UNCHANGED <<branch, triaged>>

NightEnds ==
  /\ pc = "next"
  /\ chains = << >>
  /\ pc' = "over"
  /\ UNCHANGED <<repo, night>>

(* The summary is written; the next night starts with nothing in memory.   *)
Rest ==
  /\ pc = "over"
  /\ pc' = "idle"
  /\ ForgetNight
  /\ UNCHANGED repo

(* The host sleeps or the job is cancelled: the process is gone, its       *)
(* branch perhaps pushed already, and the next night starts afresh.        *)
Interrupted ==
  /\ pc # "idle"
  /\ interrupts < MaxInterrupts
  /\ interrupts' = interrupts + 1
  /\ \/ UNCHANGED branch
     \/ /\ pc = "working"
        /\ branch' = [branch EXCEPT ![current.number] = current.work \cup {current.number}]
  /\ pc' = "idle"
  /\ ForgetNight
  /\ UNCHANGED <<blockedBy, open, triaged, pull, target, main>>

-----------------------------------------------------------------------------
(* People.                                                                 *)

(* A ready pull request is merged into its target.  Into the default       *)
(* branch, that closes the issue (`fix #<n>:').  The branch stays, or is   *)
(* deleted and the pull requests on it are retargeted.                     *)
MergePull(n) ==
  /\ pull[n] = "ready"
  /\ target[n] # Default => branch[target[n]] # {}
  /\ pull' = [pull EXCEPT ![n] = "merged"]
  /\ IF target[n] = Default
       THEN main' = main \cup branch[n] /\ open' = open \ {n}
       ELSE UNCHANGED <<main, open>>
  /\ LET merged == [m \in Issues |->
                      IF m = target[n] THEN branch[m] \cup branch[n] ELSE branch[m]]
     IN  \/ branch' = merged /\ UNCHANGED target
         \/ /\ branch' = [merged EXCEPT ![n] = {}]
            /\ target' = [m \in Issues |->
                            IF target[m] = n /\ pull[m] \in {"draft", "ready"}
                              THEN target[n] ELSE target[m]]
  /\ UNCHANGED <<blockedBy, triaged, interrupts, pc, night>>

ClosePull(n) ==
  /\ pull[n] \in {"draft", "ready"}
  /\ pull' = [pull EXCEPT ![n] = "closed"]
  /\ UNCHANGED <<blockedBy, open, triaged, branch, target, main, interrupts, pc, night>>

-----------------------------------------------------------------------------
Chains  == BudgetStops \/ DeferUnshipped \/ DeferUnfetched \/ ModelConflict \/ StartIssue
           \/ OpenDraft
           \/ (\E outcome \in Outcomes : FinishWithoutPr(outcome) \/ FinishWithPr(outcome))
           \/ NightEnds
Program == SelectWork \/ StandDown \/ PlanNight \/ NightAborts \/ Chains \/ Rest

People == \E n \in Issues : \/ "merge" \in Reviewers /\ MergePull(n)
                            \/ "close" \in Reviewers /\ ClosePull(n)

Next == Program \/ Interrupted \/ People

Spec == Init /\ [][Next]_vars

(* Nights keep coming, and each runs on while the host lets it.  Nothing   *)
(* is assumed of people.                                                   *)
FairSpec == Spec /\ WF_vars(Program)

(* And an issue tried in night after night gets its pull request opened in *)
(* one of them: the agent does not fail it forever.                        *)
DrainSpec == FairSpec /\ \A n \in Issues : SF_vars(OpenDraft /\ current.number = n)

-----------------------------------------------------------------------------
(* Properties.                                                             *)

TypeOK ==
  /\ blockedBy \in Graphs
  /\ UNION {open, triaged, main, selected, skipped, shipped, deferred, notStarted}
       \subseteq Issues
  /\ branch \in [Issues -> SUBSET Issues]
  /\ pull \in [Issues -> {"none", "draft", "ready", "merged", "closed"}]
  /\ target \in [Issues -> Targets]
  /\ interrupts \in 0 .. MaxInterrupts
  /\ pc \in {"idle", "selected", "next", "working", "opened", "over"}
  /\ \A i \in DOMAIN chains : chains[i] # << >> /\ ToSet(chains[i]) \subseteq selected
  /\ base \in Targets
  /\ current \in [number : Targets, onto : Targets, work : SUBSET Issues]
  /\ tracking \in [Targets -> SUBSET Issues]
  /\ DOMAIN results \subseteq Issues
  /\ stopped \in BOOLEAN

(* No selected issue is lost or told two stories: when the night is over   *)
(* each has a result, is deferred or was not started, and only one of      *)
(* these.                                                                  *)
EveryIssueAccounted ==
  pc = "over" =>
    /\ selected = DOMAIN results \cup deferred \cup notStarted
    /\ DOMAIN results \cap deferred = {}
    /\ DOMAIN results \cap notStarted = {}
    /\ deferred \cap notStarted = {}

(* What an issue is stacked on is green: a branch of this night ended in a *)
(* ready pull request; one of another night is a native prerequisite.      *)
StackedOnGreenOrNative ==
  pc = "working" /\ current.onto # Default =>
    \/ current.onto \in DOMAIN results /\ results[current.onto] = "ready"
    \/ current.onto \in blockedBy[current.number] \cap skipped

(* The work an issue waited for is under it when it starts: the in-flight  *)
(* prerequisite it is stacked on, and its prerequisites of the night in a  *)
(* night that stacks nothing on what is in flight.                         *)
BuildsOnPrereqs ==
  pc = "working" =>
    /\ current.number \in DOMAIN plan.stackBases =>
         plan.stackBases[current.number] \in current.work
    /\ plan.stackBases = << >> => plan.prereqs[current.number] \subseteq current.work

(* The diff of a stacked pull request shows only its own change: what it   *)
(* is to be merged into is under it.                                       *)
StacksShowOwnDiff ==
  [][\A n \in Issues :
       pull[n] = "none" /\ pull'[n] # "none" /\ target'[n] # Default =>
         target'[n] \in branch'[n]]_vars

(* A stacked issue is cut from, and proposed onto, the work it needs.      *)
StacksAreSound == []StackedOnGreenOrNative /\ []BuildsOnPrereqs /\ StacksShowOwnDiff

(* No night touches the branch of an issue that has a pull request: what   *)
(* is in review, merged or abandoned is never redone over.                 *)
ReviewedWorkIsKept ==
  [][pc # pc' =>
       \A n \in Issues : branch[n] # {} /\ pull[n] # "none" => branch'[n] = branch[n]]_vars

(* An issue that cannot be stacked: two open issues it waits for have pull *)
(* requests in review, and a branch has one base.                          *)
TwoInFlight(n) ==
  pull[n] = "none" /\ \E p, q \in blockedBy[n] \cap open :
                        p # q /\ {pull[p], pull[q]} \subseteq {"draft", "ready"}

(* With nobody reviewing and edges that only point at older issues each    *)
(* issue gets its pull request in the end, unless it, or one before it     *)
(* that keeps its slot, waits for two that are in review: a dependent      *)
(* deferred tonight is stacked on what is in flight another night, and     *)
(* what an error or an interruption left behind is reset and done again.   *)
DrainsUnlessHeld ==
  \A n \in Issues : <>(pull[n] # "none" \/ \E m \in Issues : m <= n /\ TwoInFlight(m))

=============================================================================
