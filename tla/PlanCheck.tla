------------------------------ MODULE PlanCheck -----------------------------
(***************************************************************************)
(* Checks PrereqPlan over every input of a bounded size, against           *)
(* definitions that do not follow the code's algorithms.                   *)
(*                                                                         *)
(* PlanInit has every selection over Issues: any edges among the numbers,  *)
(* any hopeless issues, any state of the numbers left out.  MergeInit has  *)
(* every division of some orders into chains with every acyclic set of     *)
(* edges: the merge sees the numbers only through their places in that     *)
(* order, so the orders need not be all there are.                         *)
(***************************************************************************)
EXTENDS PrereqPlan

CONSTANTS
  Issues,       \* the issue numbers
  Ranks,        \* the priority ranks to try, as functions on Issues
  Orders,       \* the orders of the issues in the classifier's output to try
  MaxOdd        \* bound: issues with blockers out of reach, or blocked by themselves

ASSUME IssuesAssumption == Issues \subseteq Nat /\ IsFiniteSet(Issues) /\ Issues # {}
ASSUME RanksAssumption  == Ranks \subseteq [Issues -> Nat]
ASSUME OrdersAssumption == Orders \subseteq SetToSeqs(Issues)
ASSUME OddAssumption == MaxOdd \in Nat

VARIABLES
  stage,   \* plan or merge: what is to be computed; then planned or merged
  input,   \* what it is computed from
  plan     \* what it gives

vars == <<stage, input, plan>>

(* What becomes of a number that is not selected: closed, out of reach, or *)
(* skipped with a pull request in some state.                              *)
Absences == {"closed", "absent", "OPEN", "MERGED", "CLOSED", "none"}

Deps(in) ==
  [n \in in.selected |->
     [overflow  |-> n \in in.hopeless,
      blockedBy |-> {[number |-> p, open |-> p \in in.selected \/ in.absence[p] # "closed",
                      here |-> TRUE] : p \in in.edges[n]}]]

InFlight(in) ==
  LET skipped == {p \in DOMAIN in.absence : in.absence[p] \notin {"closed", "absent"}}
  IN  [p \in skipped |-> in.absence[p]]

Plan(in) == PlanPrereqs(in.selected, Deps(in), InFlight(in), in.rank)

(* The two ways to be hopeless defer alike: overflow stands for both.      *)
PlanInit ==
  /\ \E selected \in SUBSET Issues :
     \E edges \in [selected -> SUBSET Issues] :
     \E hopeless \in SUBSET selected, absence \in [Issues \ selected -> Absences],
        rank \in Ranks :
       /\ Cardinality(hopeless) + Cardinality({n \in selected : n \in edges[n]}) <= MaxOdd
       /\ input = [selected |-> selected, edges |-> edges, hopeless |-> hopeless,
                   absence |-> absence, rank |-> rank]
  /\ stage = "plan"
  /\ plan = << >>

(* The ways to cut a sequence into chains: after each of some positions.   *)
Cuts(order) ==
  LET Chains(ends) == [i \in DOMAIN ends |->
                         SubSeq(order, IF i = 1 THEN 1 ELSE ends[i - 1] + 1, ends[i])]
  IN  {Chains(SortByKey(cut \cup {Len(order)}, [e \in Nat |-> e])) : cut \in SUBSET (1 .. Len(order) - 1)}

(* Where the paths of next lead from n, next being a function from nodes   *)
(* to sets of them: what no set that holds next[n] and that next does not  *)
(* lead out of can do without.                                             *)
Leads(next) ==
  [n \in DOMAIN next |->
     {m \in DOMAIN next :
        \A C \in SUBSET DOMAIN next :
          next[n] \subseteq C /\ (\A k \in C : next[k] \subseteq C) => m \in C}]

Acyclic(edges) == LET leads == Leads(edges) IN \A n \in Issues : n \notin leads[n]

Dags == {edges \in [Issues -> SUBSET Issues] : Acyclic(edges)}

MergeInit ==
  /\ \E order \in Orders : \E chains \in Cuts(order), edges \in Dags :
       input = [chains |-> chains, edges |-> edges]
  /\ stage = "merge"
  /\ plan = << >>

ComputePlan ==
  /\ stage = "plan"
  /\ plan' = Plan(input)
  /\ stage' = "planned"
  /\ UNCHANGED input

ComputeMerge ==
  /\ stage = "merge"
  /\ plan' = MergeGraphs(input.chains, input.edges)
  /\ stage' = "merged"
  /\ UNCHANGED input

Init == PlanInit \/ MergeInit

Next == ComputePlan \/ ComputeMerge

Spec == Init /\ [][Next]_vars

-----------------------------------------------------------------------------
(* n needs m when a path of edges among the selected issues leads there.   *)
Needs(in) == Leads([n \in in.selected |-> in.edges[n] \cap in.selected])

(* Exactly the issues are deferred that cannot be ordered and stacked, or  *)
(* that need one which cannot: nothing ships that should wait, nothing     *)
(* waits that could ship.                                                  *)
DeferredExactly ==
  stage = "planned" =>
    LET needs      == Needs(input)
        outside(n) == {p \in input.edges[n] \ input.selected : input.absence[p] # "closed"}
        live(n)    == {p \in outside(n) : input.absence[p] = "OPEN"}
        stuck(n)   == \/ n \in input.hopeless
                      \/ n \in needs[n]
                      \/ \E p \in outside(n) : input.absence[p] \notin {"OPEN", "MERGED"}
                      \/ Cardinality(live(n)) > 1
                      \/ live(n) # {} /\ input.edges[n] \cap input.selected # {}
    IN  plan.deferred =
          {n \in input.selected : stuck(n) \/ \E m \in needs[n] : stuck(m)}

(* Position of n in a sequence without repetition.                         *)
At(seq, n) == CHOOSE i \in DOMAIN seq : seq[i] = n

(* A sequence orders nodes by key as far as the edges allow: each once,    *)
(* prerequisites first, and a node stands before one with a smaller key    *)
(* only if that one was still waiting for a prerequisite.  Of equal keys   *)
(* the older goes first.                                                   *)
OrderedByEdgesThenKey(seq, nodes, pre, key) ==
  /\ ToSet(seq) = nodes /\ Len(seq) = Cardinality(nodes)
  /\ \A i \in DOMAIN seq : \A p \in pre[seq[i]] \cap nodes : At(seq, p) < i
  /\ \A i, j \in DOMAIN seq :
       /\ i < j
       /\ key[seq[j]] < key[seq[i]] \/ (key[seq[j]] = key[seq[i]] /\ seq[j] < seq[i])
       => \E p \in pre[seq[j]] \cap nodes : At(seq, p) >= i

(* The shippable issues come prerequisites first, then by priority, then   *)
(* oldest first.                                                           *)
ShipsInOrder ==
  stage = "planned" =>
    OrderedByEdgesThenKey(plan.shippable, input.selected \ plan.deferred, plan.prereqs, input.rank)

(* No open blocker of an issue that ships is forgotten: it ships earlier   *)
(* tonight, is merged, or is the one live branch the issue is stacked on.  *)
NoBlockerForgotten ==
  stage = "planned" =>
    \A n \in ToSet(plan.shippable), p \in Issues :
      p \in input.edges[n] =>
        \/ p \in ToSet(plan.shippable) /\ p \in plan.prereqs[n]
        \/ p \notin input.selected /\ input.absence[p] \in {"closed", "MERGED"}
        \/ /\ p \notin input.selected /\ input.absence[p] = "OPEN"
           /\ n \in DOMAIN plan.stackBases /\ plan.stackBases[n] = p
           /\ plan.prereqs[n] = {}

(* The plan of a night is exactly what its edges ask for.                  *)
PlanIsExact == DeferredExactly /\ ShipsInOrder /\ NoBlockerForgotten

-----------------------------------------------------------------------------
Linked(in) ==
  Leads([n \in Issues |->
           {m \in Issues : \/ m = n
                           \/ m \in in.edges[n] \/ n \in in.edges[m]
                           \/ \E c \in ToSet(in.chains) : {n, m} \subseteq ToSet(c)}])

(* Two issues share a chain exactly when conflicts and edges link them.    *)
ChainsAreLinked ==
  stage = "merged" =>
    LET linked == Linked(input) IN
    \A n, m \in Issues :
      m \in linked[n] <=> \E i \in DOMAIN plan : {n, m} \subseteq ToSet(plan[i])

(* Every issue is in one chain; in it prerequisites come first, and the    *)
(* classifier's order holds wherever the edges allow.                      *)
ChainsAreOrdered ==
  stage = "merged" =>
    LET all == FlattenSeq(input.chains)
    IN  /\ Len(FlattenSeq(plan)) = Cardinality(Issues)
        /\ \A i \in DOMAIN plan :
             OrderedByEdgesThenKey(plan[i], ToSet(plan[i]), input.edges,
                                   [n \in Issues |-> At(all, n)])

(* Edges that only say what the classifier chose anyway change nothing.    *)
MergeIsAdditive ==
  stage = "merged" =>
    ((\A n \in Issues : \A p \in input.edges[n] :
         \E c \in ToSet(input.chains) : {n, p} \subseteq ToSet(c) /\ At(c, p) < At(c, n))
       => plan = input.chains)

(* The merged chains keep the classifier's and the edges' links, and order *)
(* them.                                                                   *)
ChainsAreRight == ChainsAreLinked /\ ChainsAreOrdered /\ MergeIsAdditive

=============================================================================
