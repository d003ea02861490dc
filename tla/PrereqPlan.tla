----------------------------- MODULE PrereqPlan -----------------------------
(***************************************************************************)
(* The pure planning of a night: which selected issues may ship            *)
(* (prereq-planner.ts), and in which chains and order (merge-graph.ts),    *)
(* both in packages/action/src.                                            *)
(*                                                                         *)
(* An issue is its number.  deps[n] is what GitHub says of issue n: its    *)
(* blockedBy edges, and whether there were more than could be read.        *)
(* inFlight[p] is the pull request state of a skipped prerequisite p,      *)
(* "none" when it has no pull request; its branch goes by its number.      *)
(***************************************************************************)
EXTENDS Integers, SequencesExt

(* What can be reached from `start' along next, a function from nodes to   *)
(* sets of nodes: the fixpoint loop and the union-find of the code.        *)
Reached(start, next) ==
  LET size == Cardinality(DOMAIN next)
      stage[k \in 0 .. size] ==
        IF k = 0 THEN start ELSE stage[k - 1] \cup UNION {next[n] : n \in stage[k - 1]}
  IN  stage[size]

(* The smallest key, and the oldest issue among equals (comparePriority).  *)
First(ready, key) ==
  CHOOSE n \in ready : \A m \in ready : key[n] < key[m] \/ (key[n] = key[m] /\ n <= m)

(* Kahn's sort: of the nodes whose predecessors are placed, the first by   *)
(* key is placed next.                                                     *)
TopoOrder(nodes, pre, key) ==
  LET placed[k \in 0 .. Cardinality(nodes)] ==
        IF k = 0 THEN << >>
        ELSE LET ready == {n \in nodes \ ToSet(placed[k - 1]) :
                             pre[n] \cap nodes \subseteq ToSet(placed[k - 1])}
             IN  IF ready = {} THEN placed[k - 1]
                 ELSE Append(placed[k - 1], First(ready, key))
  IN  placed[Cardinality(nodes)]

(* A finite set in the order of its keys, which differ.                    *)
SortByKey(set, key) ==
  [i \in 1 .. Cardinality(set) |->
     CHOOSE x \in set : Cardinality({y \in set : key[y] < key[x]}) = i - 1]

-----------------------------------------------------------------------------
(* planPrereqs.                                                            *)

(* Open blockers in this repository.                                       *)
Blockers(dep) == {e.number : e \in {x \in dep.blockedBy : x.open /\ x.here}}

InSet(selected, dep) == Blockers(dep) \cap selected

(* Skipped prerequisites with an open pull request: candidate bases.       *)
Bases(selected, dep, inFlight) ==
  {p \in Blockers(dep) \ selected : p \in DOMAIN inFlight /\ inFlight[p] = "OPEN"}

(* Deferred outright: too many blockers, one in another repository, or one *)
(* that neither ships tonight nor is in flight or merged.                  *)
Blocked(selected, dep, inFlight) ==
  \/ dep.overflow
  \/ \E e \in dep.blockedBy : e.open /\ ~e.here
  \/ \E p \in Blockers(dep) \ selected :
        p \notin DOMAIN inFlight \/ inFlight[p] \notin {"OPEN", "MERGED"}

(* Several bases, or a base and a prerequisite of the same night.          *)
Unstackable(selected, dep, inFlight) ==
  LET bases == Bases(selected, dep, inFlight)
  IN  bases # {} /\ (Cardinality(bases) > 1 \/ InSet(selected, dep) # {})

(* findCycleNodes: what Kahn's algorithm never settles.                    *)
CycleNodes(pre) ==
  LET size == Cardinality(DOMAIN pre)
      settled[k \in 0 .. size] ==
        IF k = 0 THEN {} ELSE {n \in DOMAIN pre : pre[n] \subseteq settled[k - 1]}
  IN  DOMAIN pre \ settled[size]

(* Mutant: deferral does not cascade.                                      *)
Cascade_None(pre, deferred) == deferred

(* An issue with a deferred prerequisite is deferred, to the fixpoint.     *)
Cascade(pre, deferred) ==
  Reached(deferred, [n \in DOMAIN pre |-> {m \in DOMAIN pre : n \in pre[m]}])

PlanPrereqs(selected, deps, inFlight, rank) ==
  LET pre       == [n \in selected |-> InSet(selected, deps[n])]
      cyclic    == CycleNodes(pre)
      direct    == {n \in selected : \/ Blocked(selected, deps[n], inFlight)
                                     \/ Unstackable(selected, deps[n], inFlight)}
      deferred  == Cascade(pre, direct \cup cyclic)
      ships     == selected \ deferred
      stacked   == {n \in ships : Bases(selected, deps[n], inFlight) # {}}
  IN  [shippable  |-> TopoOrder(ships, pre, rank),
       prereqs    |-> [n \in ships |-> pre[n] \cap ships],
       stackBases |-> [n \in stacked |-> CHOOSE p \in Bases(selected, deps[n], inFlight) : TRUE],
       deferred   |-> deferred,
       cyclic     |-> cyclic]

-----------------------------------------------------------------------------
(* mergeGraphs.                                                            *)

ChainOf(chains, n) == CHOOSE c \in ToSet(chains) : n \in ToSet(c)

(* The issues united with n: by a conflict chain or by an edge.            *)
Component(chains, prereqs, n) ==
  LET all == ToSet(FlattenSeq(chains))
      united(k) == ToSet(ChainOf(chains, k)) \cup {m \in all : m \in prereqs[k] \/ k \in prereqs[m]}
  IN  Reached({n}, [k \in all |-> united(k)])

(* Mutant: chains by their smallest issue number.                          *)
MergeGraphs_ByNumber(chains, prereqs) ==
  LET all        == FlattenSeq(chains)
      position   == [n \in ToSet(all) |-> CHOOSE i \in DOMAIN all : all[i] = n]
      components == {Component(chains, prereqs, n) : n \in ToSet(all)}
      start(c)   == CHOOSE i \in c : \A n \in c : i <= n
      ordered    == SortByKey(components, [c \in components |-> start(c)])
  IN  [i \in DOMAIN ordered |-> TopoOrder(ordered[i], prereqs, position)]

(* Chains by their first member's position in the classifier's output, and *)
(* within a chain prerequisites first, then that position.                 *)
MergeGraphs(chains, prereqs) ==
  LET all        == FlattenSeq(chains)
      position   == [n \in ToSet(all) |-> CHOOSE i \in DOMAIN all : all[i] = n]
      components == {Component(chains, prereqs, n) : n \in ToSet(all)}
      start(c)   == CHOOSE i \in {position[n] : n \in c} : \A n \in c : i <= position[n]
      ordered    == SortByKey(components, [c \in components |-> start(c)])
  IN  [i \in DOMAIN ordered |-> TopoOrder(ordered[i], prereqs, position)]

AllIndependent(numbers) == [i \in DOMAIN numbers |-> <<numbers[i]>>]

=============================================================================
