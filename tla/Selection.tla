------------------------------ MODULE Selection -------------------------------
(***************************************************************************)
(* Which issues a night works on: the selection of runNightWithGit         *)
(* (action/src/main.ts), on its default path over the whole list or, tier  *)
(* by tier and page by page, on the priority path (priority-selection.ts). *)
(* Both give every batch to resolveWork: the branches, then the triage     *)
(* gate, with writes to GitHub in between.                                 *)
(*                                                                         *)
(* One step per remote call; any may fail, the night may be killed, and    *)
(* people close issues, push, remove branches and open pull requests       *)
(* meanwhile. What a night does with the issues selected is NightRun's: it *)
(* may do nothing, and the next night selects again.                       *)
(***************************************************************************)
EXTENDS PrereqPlan

CONSTANTS
  Issues,     \* the issue numbers
  Pulls,      \* pull requests that carry the pickup label: the list has both
  Pickups,    \* the pickup labels of an `any' rule, in order
  Priorities, \* the priority labels, highest first
  Cap,        \* inputs.maxIssues
  Lots,       \* what an issue may be like: its labels, branch tip, pull request and signal
  MaxNights,  \* bound on the nights
  MaxWrites,  \* bound on what people do
  Fails       \* whether remote calls may fail

Unlabeled == "unlabeled"
Triaged == "fixowl:triaged"

ASSUME NumbersAssumption ==
  (Issues \cup Pulls) \subseteq Nat /\ IsFiniteSet(Issues \cup Pulls) /\ Issues \cap Pulls = {}
ASSUME CapAssumption == Cap \in Nat \ {0}
ASSUME RuleAssumption ==
  /\ Pickups \in Seq(STRING) \ {<< >>} /\ Priorities \in Seq(STRING)
  /\ Unlabeled \notin ToSet(Priorities)
ASSUME LotsAssumption ==
  Lots \subseteq [labels : SUBSET STRING, tip : {"none", "fixowl", "human"}, pr : BOOLEAN,
                  signal : {"none", "fixed"}]
ASSUME NightsAssumption == MaxNights \in Nat \ {0} /\ MaxWrites \in Nat /\ Fails \in BOOLEAN

VARIABLES
  priority,  \* off, the issues with a priority label only, or all of them
  open,      \* the open issues
  labels,    \* the labels of each issue and pull request
  tip,       \* whose commit is at the tip of the branch of an issue
  hasPr,     \* the issues whose branch has, or had, a pull request
  signal,    \* what GitHub records of an issue: fixed, a duplicate
  comments,  \* how many triage comments an issue has
  pc,        \* the next call
  heads,     \* the issues with a branch when the night listed the branches
  query,     \* the running query, of Queries
  page,      \* its page
  fetched,   \* how many items the page had
  seen,      \* the issues looked at
  batch,     \* the issues resolveWork looks at
  todo,      \* of these: orphans to reset, then issues to triage
  kept,      \* its survivors
  selected, skipped, out,   \* what the night has chosen, skipped and triaged
  lost,      \* history: how often a triage comment was left without the label
  gone,      \* history: the issues closed during this night
  raced,     \* history: the branches a person has pushed to, or opened a pull request for, after
             \* the night looked
  nights, writes

github == <<priority, open, labels, tip, hasPr, signal, comments>>
cursor == <<query, page, fetched, seen>>
work   == <<batch, todo, kept>>
chosen == <<selected, skipped, out>>
counts == <<lost, gone, raced, nights, writes>>
selectVars   == <<github, pc, heads, cursor, work, chosen, counts>>

Modes == {"off", "labelled", "all"}
Least(S) == CHOOSE n \in S : \A k \in S : n <= k

-----------------------------------------------------------------------------
(* The queries *)

\* The tiers, with that of the issues without a priority label last.
Tiers == Append(Priorities, Unlabeled)

\* Every tier with every pickup label in turn.
Queries == [q \in 1 .. (Len(Tiers) * Len(Pickups)) |->
              [tier   |-> Tiers[1 + ((q - 1) \div Len(Pickups))],
               pickup |-> Pickups[1 + ((q - 1) % Len(Pickups))]]]

\* priorityTiers leaves that last tier out unless it is asked for.
LastQuery == (IF priority = "labelled" THEN Len(Priorities) ELSE Len(Tiers)) * Len(Pickups)

Matches(n) == labels[n] \cap ToSet(Pickups) # {}
IsUnlabeled(n) == labels[n] \cap ToSet(Priorities) = {}

\* The items of a list from the place `after' on to the place `upto', oldest first.
Window(list, after, upto) ==
  {n \in list : Cardinality({k \in list : k <= n}) \in after + 1 .. upto}

\* listOpenIssuesPage: issues and pull requests with all of the query's labels, oldest first.
PerPage == Cap
Listed(q) ==
  LET wanted == {Queries[q].pickup} \cup ({Queries[q].tier} \ {Unlabeled})
  IN  {n \in open \cup Pulls : wanted \subseteq labels[n]}
Page(q, p) == Window(Listed(q), (p - 1) * PerPage, p * PerPage)

-----------------------------------------------------------------------------
(* The night *)

Running == pc \notin {"over", "cut"}

\* A night remembers nothing of the last one.
Forget ==
  /\ heads' = {} /\ query' = 1 /\ page' = 1 /\ fetched' = 0 /\ seen' = {}
  /\ batch' = {} /\ todo' = {} /\ kept' = {} /\ selected' = << >> /\ skipped' = {} /\ out' = {}
  /\ gone' = {} /\ raced' = {}

FreshNight ==
  /\ pc = "start" /\ heads = {} /\ query = 1 /\ page = 1 /\ fetched = 0 /\ seen = {}
  /\ batch = {} /\ todo = {} /\ kept = {} /\ selected = << >> /\ skipped = {} /\ out = {}

SelectInit ==
  /\ \E lot \in [Issues -> Lots] :
       /\ labels = [n \in Issues \cup Pulls |->
                      IF n \in Issues THEN lot[n].labels ELSE {Pickups[1]}]
       /\ tip = [n \in Issues |-> lot[n].tip]
       /\ hasPr = {n \in Issues : lot[n].pr}
       /\ signal = [n \in Issues |-> lot[n].signal]
  /\ priority \in Modes /\ (Priorities = << >> => priority = "off")
  /\ open = Issues /\ comments = [n \in Issues |-> 0]
  /\ FreshNight
  /\ lost = [n \in Issues |-> 0] /\ gone = {} /\ raced = {} /\ nights = 1 /\ writes = 0

\* The remote branches are listed once.
ListBranches ==
  /\ pc = "start" /\ pc' = "list"
  /\ heads' = {n \in Issues : tip[n] # "none"}
  /\ UNCHANGED <<github, cursor, work, chosen, counts>>

\* Issues that already carry the label are left out of the batch.
Eligible_Any(candidates) == candidates
Eligible(candidates) == {n \in candidates : Triaged \notin labels[n]}

\* The default path takes every open issue the rule matches.
SelectIssues ==
  /\ pc = "list" /\ priority = "off" /\ pc' = "attempts"
  /\ batch' = Eligible({n \in open : Matches(n)})
  /\ UNCHANGED <<github, heads, cursor, todo, kept, chosen, counts>>

\* The next query, from its first page; after the last one the selection is over.
NextQuery ==
  IF query = LastQuery THEN pc' = "over" /\ UNCHANGED <<query, page>>
  ELSE pc' = "list" /\ query' = query + 1 /\ page' = 1

\* What is new on the page; of the last tier, what has no priority label.
Candidates_Again(items) ==
  {n \in items \cap Issues : Matches(n) /\ (Queries[query].tier = Unlabeled => IsUnlabeled(n))}
Candidates(items) ==
  {n \in (items \cap Issues) \ seen :
     Matches(n) /\ (Queries[query].tier = Unlabeled => IsUnlabeled(n))}

FetchPage ==
  LET items == Page(query, page) IN
  /\ pc = "list" /\ priority # "off"
  /\ fetched' = Cardinality(items)
  /\ IF items = {} THEN NextQuery /\ UNCHANGED <<seen, batch>>
     ELSE /\ batch' = Eligible(Candidates(items))
          /\ seen' = seen \cup Candidates(items)
          /\ pc' = "attempts" /\ UNCHANGED <<query, page>>
  /\ UNCHANGED <<github, heads, todo, kept, chosen, counts>>

\* resolveAttemptedBranches: a branch with a pull request makes an attempt, one without an orphan.
Attempts ==
  /\ pc = "attempts" /\ pc' = "tips"
  /\ skipped' = skipped \cup (batch \cap heads \cap hasPr)
  /\ todo' = (batch \cap heads) \ hasPr
  /\ raced' = {}
  /\ UNCHANGED <<github, heads, cursor, batch, kept, selected, out, lost, gone, nights, writes>>

Owned_Any(n) == TRUE

\* isFixowlBranchTip
Owned(n) == tip[n] = "fixowl"

\* The tip of an orphan is fetched, which throws when the branch is gone.
ReadTip ==
  /\ pc = "tips" /\ todo # {}
  /\ LET n == Least(todo) IN
     /\ tip[n] # "none"
     /\ IF Owned(n) THEN pc' = "delete" /\ UNCHANGED <<skipped, todo>>
        ELSE pc' = "tips" /\ skipped' = skipped \cup {n} /\ todo' = todo \ {n}
     /\ raced' = raced \ ({n} \ hasPr)
  /\ UNCHANGED <<github, heads, cursor, batch, kept, selected, out, lost, gone, nights, writes>>

\* deleteRemoteBranch, whatever the tip is by now.
DeleteRemoteBranch ==
  /\ pc = "delete"
  /\ LET n == Least(todo) IN
     /\ tip[n] # "none"
     /\ tip' = [tip EXCEPT ![n] = "none"]
     /\ todo' = todo \ {n}
  /\ pc' = "tips"
  /\ UNCHANGED <<priority, open, labels, hasPr, signal, comments, heads, cursor, batch, kept, chosen,
                 counts>>

\* planTriage over what is fresh; when the signals cannot be read nothing is triaged.
Signals ==
  /\ pc = "tips" /\ todo = {}
  /\ LET fresh == batch \ skipped IN
     \/ /\ todo' = {n \in fresh : signal[n] # "none"}
        /\ kept' = {n \in fresh : signal[n] = "none"}
     \/ Fails /\ todo' = {} /\ kept' = fresh
  /\ pc' = "comment"
  /\ UNCHANGED <<github, heads, cursor, batch, chosen, counts>>

\* applyTriageSkip, first half: when the call fails, left or not, the label is not tried.
Comment ==
  /\ pc = "comment" /\ todo # {}
  /\ LET n == Least(todo) IN
     \/ /\ comments' = [comments EXCEPT ![n] = @ + 1]
        /\ pc' = "label" /\ UNCHANGED <<todo, out, lost>>
     \/ /\ Fails /\ todo' = todo \ {n} /\ out' = out \cup {n}
        /\ \E left \in 0 .. 1 : /\ comments' = [comments EXCEPT ![n] = @ + left]
                               /\ lost' = [lost EXCEPT ![n] = @ + left]
        /\ UNCHANGED pc
  /\ UNCHANGED <<priority, open, labels, tip, hasPr, signal, heads, cursor, batch, kept, selected,
                 skipped, gone, raced, nights, writes>>

\* Second half.
Label ==
  /\ pc = "label" /\ pc' = "comment"
  /\ LET n == Least(todo) IN
     /\ \/ labels' = [labels EXCEPT ![n] = @ \cup {Triaged}] /\ UNCHANGED lost
        \/ Fails /\ lost' = [lost EXCEPT ![n] = @ + 1] /\ UNCHANGED labels
     /\ todo' = todo \ {n} /\ out' = out \cup {n}
  /\ UNCHANGED <<priority, open, tip, hasPr, signal, comments, heads, cursor, batch, kept, selected,
                 skipped, gone, raced, nights, writes>>

Drained_Filtered == Cardinality(batch) < PerPage

\* A page shorter than asked for, pull requests counted, ends its query.
Drained == fetched < PerPage

\* Later in the list.
Turn_Stay == page
Turn == page + 1

\* The survivors fill the cap, oldest first; then the next page or query is looked at.
Fill ==
  /\ pc = "comment" /\ todo = {}
  /\ LET taken == Window(kept, 0, Cap - Len(selected))
     IN  selected' = selected \o SortByKey(taken, [n \in taken |-> n])
  /\ IF priority = "off" \/ Len(selected') = Cap THEN pc' = "over" /\ UNCHANGED <<query, page>>
     ELSE IF Drained THEN NextQuery
     ELSE pc' = "list" /\ page' = Turn /\ UNCHANGED query
  /\ batch' = {} /\ kept' = {}
  /\ UNCHANGED <<github, heads, fetched, seen, todo, skipped, out, counts>>

\* A call throws: of those that are not shielded any may; fetching or deleting a branch that is
\* gone does.
Throws ==
  /\ \/ Fails /\ pc \in {"start", "list", "delete"}
     \/ Fails /\ pc = "attempts" /\ batch \cap heads # {}
     \/ Fails /\ pc = "tips" /\ todo # {}
     \/ pc \in {"tips", "delete"} /\ todo # {} /\ tip[Least(todo)] = "none"
  /\ pc' = "cut" /\ Forget
  /\ UNCHANGED <<github, lost, nights, writes>>

Killed ==
  /\ Running /\ Fails /\ pc' = "cut" /\ Forget
  /\ lost' = [n \in Issues |-> IF pc = "label" /\ n = Least(todo) THEN lost[n] + 1 ELSE lost[n]]
  /\ UNCHANGED <<github, nights, writes>>

NextNight ==
  /\ ~Running /\ nights < MaxNights
  /\ nights' = nights + 1 /\ pc' = "start" /\ Forget
  /\ UNCHANGED <<github, lost, writes>>

-----------------------------------------------------------------------------
(* People *)

Acts == Running /\ writes < MaxWrites /\ writes' = writes + 1

Close(n) ==
  /\ Acts /\ n \in open /\ open' = open \ {n} /\ gone' = gone \cup {n}
  /\ UNCHANGED <<priority, labels, tip, hasPr, signal, comments, pc, heads, cursor, work, chosen, lost,
                 raced, nights>>

Push(n) ==
  /\ Acts /\ tip[n] = "fixowl" /\ tip' = [tip EXCEPT ![n] = "human"] /\ raced' = raced \cup {n}
  /\ UNCHANGED <<priority, open, labels, hasPr, signal, comments, pc, heads, cursor, work, chosen,
                 lost, gone, nights>>

RemoveBranch(n) ==
  /\ Acts /\ tip[n] # "none" /\ tip' = [tip EXCEPT ![n] = "none"]
  /\ UNCHANGED <<priority, open, labels, hasPr, signal, comments, pc, heads, cursor, work, chosen,
                 lost, gone, raced, nights>>

OpenPr(n) ==
  /\ Acts /\ tip[n] # "none" /\ n \notin hasPr /\ hasPr' = hasPr \cup {n} /\ raced' = raced \cup {n}
  /\ UNCHANGED <<priority, open, labels, tip, signal, comments, pc, heads, cursor, work, chosen, lost,
                 gone, nights>>

Step ==
  \/ ListBranches \/ SelectIssues \/ FetchPage \/ Attempts \/ ReadTip \/ DeleteRemoteBranch
  \/ Signals \/ Comment \/ Label \/ Fill \/ Throws

SelectNext ==
  \/ Step \/ Killed \/ NextNight
  \/ \E n \in Issues : Close(n) \/ Push(n) \/ RemoveBranch(n) \/ OpenPr(n)

\* A call returns or throws.
SelectSpec == SelectInit /\ [][SelectNext]_selectVars /\ WF_selectVars(Step)

-----------------------------------------------------------------------------
(* Properties *)

SelectTypeOK ==
  /\ priority \in Modes /\ open \subseteq Issues /\ hasPr \subseteq Issues
  /\ tip \in [Issues -> {"none", "fixowl", "human"}] /\ signal \in [Issues -> {"none", "fixed"}]
  /\ pc \in {"start", "list", "attempts", "tips", "delete", "comment", "label", "over", "cut"}
  /\ query \in 1 .. LastQuery /\ page \in Nat \ {0} /\ fetched \in 0 .. PerPage
  /\ todo \subseteq batch /\ kept \subseteq batch /\ batch \subseteq Issues
  /\ heads \subseteq Issues /\ seen \subseteq Issues
  /\ skipped \subseteq Issues /\ out \subseteq Issues /\ skipped \cap out = {}
  /\ IsInjective(selected) /\ Len(selected) <= Cap /\ ToSet(selected) \cap (skipped \cup out) = {}
  /\ comments \in [Issues -> Nat] /\ lost \in [Issues -> Nat]
  /\ nights \in 1 .. MaxNights /\ writes \in 0 .. MaxWrites

\* The issues of the list, and the order the night means to take them in.
Queued(n) ==
  n \in open /\ Matches(n) /\ Triaged \notin labels[n] /\ (priority = "labelled" => ~IsUnlabeled(n))
Fits(n, q) ==
  /\ Queries[q].pickup \in labels[n]
  /\ IF Queries[q].tier = Unlabeled THEN IsUnlabeled(n) ELSE Queries[q].tier \in labels[n]
Rank(n) == Least({q \in DOMAIN Queries : Fits(n, q)})
Ahead(n, m) ==
  IF priority = "off" \/ Rank(n) = Rank(m) THEN n < m ELSE Rank(n) < Rank(m)

Accounted(n) == n \in ToSet(selected) \cup skipped \cup out

\* Only a closed issue before it moves an issue up, past the page that was to show it.
Shifted(n) == priority # "off" /\ \E c \in gone : c < n

\* No issue jumps the queue: whatever was in line before a selected issue has been selected,
\* skipped or triaged itself, over all pages and queries, unless the list moved under the pages.
NoneJumpsTheQueue ==
  pc = "over" => \A m \in ToSet(selected) : \A n \in Issues :
                   Queued(n) /\ Ahead(n, m) => Accounted(n) \/ Shifted(n)

\* The cap is left unfilled only when nobody is left in line: a page shortened by pull requests,
\* skips or triage is no reason to stop.
CapIsFilled ==
  pc = "over" /\ Len(selected) < Cap => \A n \in Issues : Queued(n) => Accounted(n) \/ Shifted(n)

\* The slots of a night go to the head of the line.
QueueIsKept == NoneJumpsTheQueue /\ CapIsFilled

\* A reset deletes only fixowl's commits on a branch without a pull request, as far as the night
\* could see: what a person did before the night looked survives it.
ResetsOnlyOrphans ==
  [][\A n \in Issues : pc = "delete" /\ writes' = writes /\ tip[n] # "none" /\ tip'[n] = "none" =>
       n \in raced \/ (tip[n] = "fixowl" /\ n \notin hasPr)]_selectVars

\* An issue is triaged on GitHub once: a second comment means that the first was left without its
\* label, by a failed call or a killed night.
CommentedOnce == \A n \in Issues : comments[n] <= 1 + lost[n]

\* The selection ends, however the list moves.
SelectionEnds == Running ~> ~Running
=============================================================================
