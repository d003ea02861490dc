--------------------------- MODULE PlanCheckProofs --------------------------
(***************************************************************************)
(* The plan and the merged chains are what PlanCheck asks of them, for     *)
(* every set of issues and every input over it.                            *)
(***************************************************************************)
EXTENDS PlanCheck, PlanProofs

-----------------------------------------------------------------------------
(* Where paths lead.                                                       *)

LEMMA LeadsIs ==
  ASSUME NEW N, NEW next \in [N -> SUBSET N]
  PROVE  /\ Leads(next) \in [N -> SUBSET N]
         /\ \A n \in N : next[n] \subseteq Leads(next)[n]
         /\ \A n \in N : \A k \in Leads(next)[n] : next[k] \subseteq Leads(next)[n]
         /\ \A n \in N, C \in SUBSET N :
              next[n] \subseteq C /\ (\A k \in C : next[k] \subseteq C) => Leads(next)[n] \subseteq C
         /\ \A n \in N : \A m \in Leads(next)[n] : Leads(next)[m] \subseteq Leads(next)[n]
<1> DEFINE leads == Leads(next)
           Closed(C) == \A k \in C : next[k] \subseteq C
<1>1. \A n \in N : leads[n] = {m \in N : \A C \in SUBSET N : next[n] \subseteq C /\ Closed(C) => m \in C}
  BY DEF Leads
<1>2. leads \in [N -> SUBSET N]
  BY DEF Leads
<1> HIDE DEF leads
<1>3. \A n \in N, C \in SUBSET N : next[n] \subseteq C /\ Closed(C) => leads[n] \subseteq C
  BY <1>1
<1>4. \A n \in N : next[n] \subseteq leads[n]
  BY <1>1
<1>5. ASSUME NEW n \in N
      PROVE  Closed(leads[n])
  <2>1. SUFFICES ASSUME NEW k \in leads[n], NEW m \in next[k]
                 PROVE  m \in leads[n]
    OBVIOUS
  <2>2. k \in N /\ m \in N
    BY <1>2, <2>1
  <2>3. ASSUME NEW C \in SUBSET N, next[n] \subseteq C, Closed(C)
        PROVE  m \in C
    BY <1>3, <2>1, <2>3
  <2> QED
    BY <1>1, <2>2, <2>3
<1>6. \A n \in N : \A m \in leads[n] : leads[m] \subseteq leads[n]
  BY <1>2, <1>3, <1>5
<1> QED
  BY <1>2, <1>3, <1>4, <1>5, <1>6 DEF leads

(* What Kahn's algorithm never settles leads into a cycle, and nothing     *)
(* else does.                                                              *)
LEMMA CyclesExact ==
  ASSUME NEW N, IsFiniteSet(N), NEW pre \in [N -> SUBSET N], NEW n \in N
  PROVE  n \in CycleNodes(pre) <=> \E m \in Leads(pre)[n] : m \in Leads(pre)[m]
<1> DEFINE leads  == Leads(pre)
           cyclic == CycleNodes(pre)
<1>1. /\ leads \in [N -> SUBSET N]
      /\ \A k \in N : pre[k] \subseteq leads[k]
      /\ \A k \in N, C \in SUBSET N :
           pre[k] \subseteq C /\ (\A l \in C : pre[l] \subseteq C) => leads[k] \subseteq C
      /\ \A k \in N : \A m \in leads[k] : leads[m] \subseteq leads[k]
  BY LeadsIs
<1>2. /\ cyclic \subseteq N
      /\ \E rank : Ranked(N \ cyclic, pre, rank)
      /\ \A k \in N : k \in cyclic <=> pre[k] \cap cyclic # {}
  BY SettledIsRanked
<1> HIDE DEF leads, cyclic
<1>3. ASSUME n \in cyclic
      PROVE  \E m \in leads[n] : m \in leads[m]
  <2> DEFINE B == cyclic \cap leads[n]
             sizes == {Cardinality(leads[m]) : m \in B}
  <2>1. B # {}
    BY <1>1, <1>2, <1>3
  <2>2. \A m \in N : IsFiniteSet(leads[m]) /\ Cardinality(leads[m]) \in Nat
    BY <1>1, FS_Subset, FS_CardinalityType
  <2>3. sizes # {} /\ sizes \subseteq Nat
    BY <1>2, <2>1, <2>2
  <2>4. PICK s \in sizes : \A t \in sizes : s <= t
    BY <2>3, LeastNat
  <2>5. PICK m \in B : Cardinality(leads[m]) = s
    BY <2>4
  <2>6. m \in N /\ m \in cyclic /\ m \in leads[n]
    BY <1>2, <2>5
  <2>7. PICK p \in pre[m] : p \in cyclic
    BY <1>2, <2>6
  <2>8. p \in leads[m] /\ p \in leads[n] /\ p \in N
    BY <1>1, <2>6, <2>7
  <2>9. leads[p] \subseteq leads[m]
    BY <1>1, <2>6, <2>8
  <2>10. Cardinality(leads[m]) <= Cardinality(leads[p])
    BY <2>4, <2>5, <2>7, <2>8
  <2>11. leads[p] = leads[m]
    <3>1. Cardinality(leads[p]) <= Cardinality(leads[m])
      BY <2>2, <2>6, <2>9, FS_Subset
    <3>2. Cardinality(leads[p]) = Cardinality(leads[m])
      BY <2>2, <2>6, <2>8, <2>10, <3>1
    <3> QED
      BY <2>2, <2>6, <2>9, <3>2, FS_Subset
  <2> QED
    BY <2>8, <2>11
<1>4. ASSUME NEW m \in leads[n], m \in leads[m], n \notin cyclic
      PROVE  FALSE
  <2>1. PICK rank : Ranked(N \ cyclic, pre, rank)
    BY <1>2
  <2> DEFINE S == N \ cyclic
  <2>2. \A k \in S : pre[k] \subseteq S
    BY <1>2
  <2>3. m \in S
    BY <1>1, <1>4, <2>2
  <2> DEFINE C == {k \in S : rank[k] < rank[m]}
  <2>4. /\ rank \in [S -> Nat]
        /\ \A k \in S : \A p \in pre[k] : rank[p] < rank[k]
    BY <2>1, <2>2 DEF Ranked
  <2>5. pre[m] \subseteq C
    BY <2>2, <2>3, <2>4
  <2>6. \A k \in C : pre[k] \subseteq C
    <3>1. SUFFICES ASSUME NEW k \in C, NEW p \in pre[k]
                   PROVE  p \in C
      OBVIOUS
    <3>2. p \in S /\ k \in S /\ rank[p] < rank[k] /\ rank[k] < rank[m]
      BY <2>2, <2>4, <3>1
    <3>3. rank[p] \in Nat /\ rank[k] \in Nat /\ rank[m] \in Nat
      BY <2>3, <2>4, <3>2
    <3> QED
      BY <3>2, <3>3
  <2>7. m \in C
    <3>1. m \in N /\ C \in SUBSET N
      BY <2>3
    <3> HIDE DEF C
    <3> QED
      BY <1>1, <1>4, <2>5, <2>6, <3>1
  <2>8. rank[m] \in Nat
    BY <2>3, <2>4
  <2> QED
    BY <2>7, <2>8
<1> QED
  BY <1>3, <1>4 DEF leads, cyclic

-----------------------------------------------------------------------------
(* Orders.                                                                 *)

LEMMA AtIs ==
  ASSUME NEW A, NEW s \in Seq(A), Different(s)
  PROVE  /\ \A n \in ToSet(s) : At(s, n) \in 1 .. Len(s) /\ s[At(s, n)] = n
         /\ \A i \in 1 .. Len(s) : s[i] \in ToSet(s) /\ At(s, s[i]) = i
<1>1. DOMAIN s = 1 .. Len(s)
  BY LenProperties
<1>2. ASSUME NEW n \in ToSet(s)
      PROVE  At(s, n) \in 1 .. Len(s) /\ s[At(s, n)] = n
  <2>1. \E i \in DOMAIN s : s[i] = n
    BY DEF ToSet
  <2>2. At(s, n) \in DOMAIN s /\ s[At(s, n)] = n
    BY <2>1 DEF At
  <2> QED
    BY <1>1, <2>2
<1>3. ASSUME NEW i \in 1 .. Len(s)
      PROVE  s[i] \in ToSet(s) /\ At(s, s[i]) = i
  <2>1. s[i] \in ToSet(s)
    BY <1>1 DEF ToSet
  <2>2. At(s, s[i]) \in 1 .. Len(s) /\ s[At(s, s[i])] = s[i]
    BY <1>2, <2>1
  <2> QED
    BY <2>1, <2>2 DEF Different
<1> QED
  BY <1>2, <1>3

(* What the sort gives is ordered by edges, then key.                      *)
LEMMA SortedOrders ==
  ASSUME NEW nodes, NEW s, NEW pre, NEW key, NEW edges, NEW rank,
         Sorted(s, nodes, pre, key), ToSet(s) = nodes, Len(s) = Cardinality(nodes),
         \A n \in nodes : edges[n] \cap nodes = pre[n] \cap nodes,
         \A n \in nodes : rank[n] = key[n]
  PROVE  OrderedByEdgesThenKey(s, nodes, edges, rank)
<1>1. /\ s \in Seq(nodes) /\ Different(s)
      /\ \A i \in 1 .. Len(s) : \A p \in pre[s[i]] \cap nodes : Among(s, i, p)
      /\ \A i \in 1 .. Len(s), m \in nodes :
           ~Among(s, i, m) /\ (\A p \in pre[m] \cap nodes : Among(s, i, p)) => ~Before(m, s[i], key)
  BY DEF Sorted, InOrder, ByKey
<1>2. DOMAIN s = 1 .. Len(s) /\ Len(s) \in Nat /\ \A i \in 1 .. Len(s) : s[i] \in nodes
  BY <1>1, LenProperties, ElementOfSeq
<1>3. /\ \A n \in nodes : At(s, n) \in 1 .. Len(s) /\ s[At(s, n)] = n
      /\ \A i \in 1 .. Len(s) : At(s, s[i]) = i
  BY <1>1, AtIs
<1>4. ASSUME NEW i \in 1 .. Len(s), NEW n \in nodes
      PROVE  Among(s, i, n) <=> At(s, n) < i
  <2>1. ASSUME Among(s, i, n)
        PROVE  At(s, n) < i
    <3>1. PICK q \in 1 .. i - 1 : s[q] = n
      BY <2>1 DEF Among
    <3>2. q \in 1 .. Len(s) /\ q < i
      BY <1>2
    <3>3. At(s, n) = q
      BY <1>3, <3>1, <3>2
    <3> QED
      BY <3>2, <3>3
  <2>2. ASSUME At(s, n) < i
        PROVE  Among(s, i, n)
    <3>1. PICK q \in 1 .. Len(s) : q = At(s, n) /\ s[q] = n
      BY <1>3
    <3>2. q \in 1 .. i - 1
      BY <1>2, <2>2, <3>1
    <3> QED
      BY <3>1, <3>2 DEF Among
  <2> QED
    BY <2>1, <2>2
<1>5. \A i \in DOMAIN s : \A p \in edges[s[i]] \cap nodes : At(s, p) < i
  <2>1. SUFFICES ASSUME NEW i \in 1 .. Len(s), NEW p \in edges[s[i]] \cap nodes
                 PROVE  At(s, p) < i
    BY <1>2
  <2>2. p \in pre[s[i]] \cap nodes
    BY <1>2, <2>1
  <2> QED
    BY <1>1, <1>4, <2>2
<1>6. ASSUME NEW i \in 1 .. Len(s), NEW j \in 1 .. Len(s), i < j,
             rank[s[j]] < rank[s[i]] \/ (rank[s[j]] = rank[s[i]] /\ s[j] < s[i])
      PROVE  \E p \in edges[s[j]] \cap nodes : At(s, p) >= i
  <2>1. s[i] \in nodes /\ s[j] \in nodes /\ Before(s[j], s[i], key)
    BY <1>2, <1>6 DEF Before
  <2>2. ~Among(s, i, s[j])
    <3>1. At(s, s[j]) = j
      BY <1>3
    <3>2. ~(j < i)
      BY <1>2, <1>6
    <3> QED
      BY <1>4, <2>1, <3>1, <3>2
  <2>3. PICK p \in pre[s[j]] \cap nodes : ~Among(s, i, p)
    BY <1>1, <2>1, <2>2
  <2>4. p \in edges[s[j]] \cap nodes
    BY <2>1, <2>3
  <2>5. At(s, p) \in 1 .. Len(s) /\ ~(At(s, p) < i)
    BY <1>3, <1>4, <2>3
  <2>6. At(s, p) >= i
    BY <1>2, <2>5
  <2> QED
    BY <2>4, <2>6
<1>7. \A i, j \in DOMAIN s :
        /\ i < j
        /\ rank[s[j]] < rank[s[i]] \/ (rank[s[j]] = rank[s[i]] /\ s[j] < s[i])
        => \E p \in edges[s[j]] \cap nodes : At(s, p) >= i
  BY <1>2, <1>6
<1> QED
  BY <1>5, <1>7, Zenon DEF OrderedByEdgesThenKey

-----------------------------------------------------------------------------
(* The inputs of a plan.                                                   *)

PlanInputs ==
  {in \in [selected : SUBSET Issues,
           edges    : UNION {[S -> SUBSET Issues] : S \in SUBSET Issues},
           hopeless : SUBSET Issues,
           absence  : UNION {[S -> Absences] : S \in SUBSET Issues},
           rank     : Ranks] :
     /\ in.edges \in [in.selected -> SUBSET Issues]
     /\ in.absence \in [Issues \ in.selected -> Absences]}

(* The edges among the selected issues, the others, those of them with an  *)
(* open pull request, and what defers an issue whatever becomes of the     *)
(* rest.                                                                   *)
Pre(in) == [n \in in.selected |-> in.edges[n] \cap in.selected]

Outside(in, n) == {p \in in.edges[n] \ in.selected : in.absence[p] # "closed"}

Live(in, n) == {p \in Outside(in, n) : in.absence[p] = "OPEN"}

Held(in, n) ==
  \/ n \in in.hopeless
  \/ \E p \in Outside(in, n) : in.absence[p] \notin {"OPEN", "MERGED"}
  \/ Cardinality(Live(in, n)) > 1
  \/ Live(in, n) # {} /\ in.edges[n] \cap in.selected # {}

LEMMA InputIs ==
  ASSUME NEW in \in PlanInputs
  PROVE  /\ PreOf(in.selected, Deps(in)) = Pre(in)
         /\ DirectOf(in.selected, Deps(in), InFlight(in)) = {n \in in.selected : Held(in, n)}
         /\ \A n \in in.selected : Bases(in.selected, Deps(in)[n], InFlight(in)) = Live(in, n)
<1> DEFINE sel == in.selected
           dep(n) == Deps(in)[n]
           flight == InFlight(in)
<1>1. /\ sel \subseteq Issues
      /\ in.edges \in [sel -> SUBSET Issues]
      /\ in.absence \in [Issues \ sel -> Absences]
  BY DEF PlanInputs
<1>2. /\ DOMAIN flight = {p \in Issues \ sel : in.absence[p] \notin {"closed", "absent"}}
      /\ \A p \in DOMAIN flight : flight[p] = in.absence[p]
  BY <1>1 DEF InFlight
<1>3. ASSUME NEW n \in sel
      PROVE  /\ dep(n).overflow <=> n \in in.hopeless
             /\ \A e \in dep(n).blockedBy : e.here
             /\ Blockers(dep(n)) = {p \in in.edges[n] : p \in sel \/ in.absence[p] # "closed"}
  <2>1. dep(n) = [overflow  |-> n \in in.hopeless,
                  blockedBy |-> {[number |-> p, open |-> p \in sel \/ in.absence[p] # "closed",
                                  here |-> TRUE] : p \in in.edges[n]}]
    BY DEF Deps
  <2> HIDE DEF dep, sel
  <2>2. dep(n).overflow <=> n \in in.hopeless
    <3>1. dep(n).overflow = (n \in in.hopeless)
      BY <2>1
    <3> QED
      BY <3>1, Zenon
  <2>3. dep(n).blockedBy = {[number |-> p, open |-> p \in sel \/ in.absence[p] # "closed",
                             here |-> TRUE] : p \in in.edges[n]}
    BY <2>1
  <2>4. \A e \in dep(n).blockedBy : e.here
    BY <2>3
  <2>5. \A p : p \in Blockers(dep(n)) <=> \E e \in dep(n).blockedBy : e.open /\ e.here /\ p = e.number
    BY DEF Blockers
  <2>6. Blockers(dep(n)) = {p \in in.edges[n] : p \in sel \/ in.absence[p] # "closed"}
    <3>1. ASSUME NEW p \in Blockers(dep(n))
          PROVE  p \in in.edges[n] /\ (p \in sel \/ in.absence[p] # "closed")
      <4>1. PICK e \in dep(n).blockedBy : e.open /\ e.here /\ p = e.number
        BY <2>5, <3>1, Zenon
      <4>2. PICK q \in in.edges[n] :
              e = [number |-> q, open |-> q \in sel \/ in.absence[q] # "closed", here |-> TRUE]
        BY <2>3
      <4>3. e.number = q /\ e.open = (q \in sel \/ in.absence[q] # "closed")
        BY <4>2
      <4> QED
        BY <4>1, <4>3, Zenon
    <3>2. ASSUME NEW p \in in.edges[n], p \in sel \/ in.absence[p] # "closed"
          PROVE  p \in Blockers(dep(n))
      <4>1. [number |-> p, open |-> p \in sel \/ in.absence[p] # "closed", here |-> TRUE]
              \in dep(n).blockedBy
        BY <2>3
      <4> QED
        BY <2>5, <3>2, <4>1
    <3> QED
      BY <3>1, <3>2
  <2> QED
    BY <2>2, <2>4, <2>6
<1> HIDE DEF dep, flight
<1>4. ASSUME NEW n \in sel
      PROVE  /\ InSet(sel, dep(n)) = in.edges[n] \cap sel
             /\ Blockers(dep(n)) \ sel = Outside(in, n)
             /\ Bases(sel, dep(n), flight) = Live(in, n)
  <2>1. InSet(sel, dep(n)) = in.edges[n] \cap sel
    BY <1>3 DEF InSet
  <2>2. Blockers(dep(n)) \ sel = Outside(in, n)
    BY <1>3 DEF Outside
  <2>3. Bases(sel, dep(n), flight) = Live(in, n)
    <3>1. Outside(in, n) \subseteq Issues \ sel
      BY <1>1 DEF Outside
    <3> QED
      BY <1>2, <2>2, <3>1 DEF Bases, Live
  <2> QED
    BY <2>1, <2>2, <2>3
<1>5. ASSUME NEW n \in sel
      PROVE  Blocked(sel, dep(n), flight) <=>
               \/ n \in in.hopeless
               \/ \E p \in Outside(in, n) : in.absence[p] \notin {"OPEN", "MERGED"}
  <2>1. Outside(in, n) \subseteq Issues \ sel
    BY <1>1 DEF Outside
  <2>2. \A p \in Outside(in, n) : in.absence[p] # "closed"
    BY DEF Outside
  <2>3. \A p \in Outside(in, n) : p \notin DOMAIN flight \/ flight[p] \notin {"OPEN", "MERGED"}
                                     <=> in.absence[p] \notin {"OPEN", "MERGED"}
    BY <1>2, <2>1, <2>2
  <2> QED
    BY <1>3, <1>4, <2>3, Zenon DEF Blocked
<1>6. ASSUME NEW n \in sel
      PROVE  Unstackable(sel, dep(n), flight) <=>
               \/ Cardinality(Live(in, n)) > 1
               \/ Live(in, n) # {} /\ in.edges[n] \cap sel # {}
  <2>1. Cardinality({}) = 0
    BY FS_EmptySet
  <2>2. Live(in, n) = {} => ~(Cardinality(Live(in, n)) > 1)
    BY <2>1
  <2> QED
    BY <1>4, <2>2, Zenon DEF Unstackable
<1>7. PreOf(sel, Deps(in)) = Pre(in)
  BY <1>4 DEF PreOf, Pre, dep
<1>8. DirectOf(sel, Deps(in), flight) = {n \in sel : Held(in, n)}
  <2>1. \A n \in sel : Blocked(sel, dep(n), flight) \/ Unstackable(sel, dep(n), flight) <=> Held(in, n)
    BY <1>5, <1>6, Zenon DEF Held
  <2> QED
    BY <2>1, Zenon DEF DirectOf, dep
<1> QED
  BY <1>4, <1>7, <1>8 DEF dep, flight


(* PlanPrereqsIs, for such an input.                                       *)
LEMMA PlanIs ==
  ASSUME NEW in \in PlanInputs
  PROVE  LET p     == Plan(in)
             pre   == Pre(in)
             ships == in.selected \ p.deferred
         IN  /\ IsFiniteSet(in.selected)
             /\ pre \in [in.selected -> SUBSET in.selected]
             /\ {n \in in.selected : Held(in, n)} \subseteq p.deferred
             /\ CycleNodes(pre) \subseteq p.deferred
             /\ p.deferred \subseteq in.selected
             /\ \A n \in ships : pre[n] \subseteq ships
             /\ \A C \in SUBSET in.selected :
                  /\ {n \in in.selected : Held(in, n)} \subseteq C
                  /\ CycleNodes(pre) \subseteq C
                  /\ \A n \in in.selected : pre[n] \cap C # {} => n \in C
                  => p.deferred \subseteq C
             /\ Sorted(p.shippable, ships, pre, in.rank)
             /\ ToSet(p.shippable) = ships
             /\ Len(p.shippable) = Cardinality(ships)
             /\ p.prereqs = [n \in ships |-> pre[n]]
             /\ DOMAIN p.stackBases = {n \in ships : Live(in, n) # {}}
             /\ \A n \in DOMAIN p.stackBases : p.stackBases[n] \in Live(in, n)
<1> DEFINE sel == in.selected
           p == Plan(in)
           pre == Pre(in)
           direct == {n \in sel : Held(in, n)}
<1>1. /\ sel \subseteq Nat /\ IsFiniteSet(sel)
      /\ \A n \in sel : in.rank[n] \in Nat
  <2>1. sel \in SUBSET Issues /\ in.rank \in Ranks
    BY DEF PlanInputs
  <2>2. in.rank \in [Issues -> Nat]
    BY <2>1, RanksAssumption
  <2> QED
    BY <2>1, <2>2, IssuesAssumption, FS_Subset
<1>2. RightPlan(p, sel, Deps(in), InFlight(in), in.rank)
  BY <1>1, PlanPrereqsIs DEF Plan
<1>3. pre \in [sel -> SUBSET sel]
  BY DEF Pre
<1>4. /\ PreOf(sel, Deps(in)) = pre
      /\ DirectOf(sel, Deps(in), InFlight(in)) = direct
      /\ \A n \in sel : Bases(sel, Deps(in)[n], InFlight(in)) = Live(in, n)
  BY InputIs
<1> HIDE DEF sel, p, pre, direct
<1> DEFINE ships == sel \ p.deferred
<1>5. /\ direct \cup CycleNodes(pre) \subseteq p.deferred
      /\ p.deferred \subseteq sel
      /\ \A C \in SUBSET sel :
           direct \cup CycleNodes(pre) \subseteq C /\ (\A n \in sel : pre[n] \cap C # {} => n \in C)
             => p.deferred \subseteq C
      /\ Sorted(p.shippable, ships, pre, in.rank)
      /\ ToSet(p.shippable) = ships
      /\ Len(p.shippable) = Cardinality(ships)
      /\ p.prereqs = [n \in ships |-> pre[n]]
      /\ \A n \in ships : pre[n] \subseteq ships
      /\ DOMAIN p.stackBases = {n \in ships : Bases(sel, Deps(in)[n], InFlight(in)) # {}}
      /\ \A n \in DOMAIN p.stackBases : p.stackBases[n] \in Bases(sel, Deps(in)[n], InFlight(in))
  BY <1>2, <1>4, Zenon DEF RightPlan
<1>6. /\ DOMAIN p.stackBases = {n \in ships : Live(in, n) # {}}
      /\ \A n \in DOMAIN p.stackBases : p.stackBases[n] \in Live(in, n)
  <2>1. \A n \in ships : Bases(sel, Deps(in)[n], InFlight(in)) = Live(in, n)
    BY <1>4
  <2>2. DOMAIN p.stackBases = {n \in ships : Live(in, n) # {}}
    BY <1>5, <2>1
  <2> HIDE DEF ships
  <2> QED
    BY <1>5, <2>1, <2>2
<1>7. \A C \in SUBSET sel :
        /\ direct \subseteq C
        /\ CycleNodes(pre) \subseteq C
        /\ \A n \in sel : pre[n] \cap C # {} => n \in C
        => p.deferred \subseteq C
  BY <1>5
<1>8. direct \subseteq p.deferred /\ CycleNodes(pre) \subseteq p.deferred
  BY <1>5
<1> QED
  BY <1>1, <1>3, <1>5, <1>6, <1>7, <1>8, Zenon DEF sel, p, pre, direct

-----------------------------------------------------------------------------
(* The plan is exact.                                                      *)

PlanInv ==
  /\ stage \in {"plan", "planned", "merge", "merged"}
  /\ stage \in {"plan", "planned"} => input \in PlanInputs
  /\ stage = "planned" => plan = Plan(input)

LEMMA PlanDefers ==
  ASSUME PlanInv
  PROVE  DeferredExactly
<1> SUFFICES ASSUME stage = "planned"
             PROVE  DeferredExactly
  BY DEF DeferredExactly
<1> DEFINE sel      == input.selected
           pre      == Pre(input)
           needs    == Leads(pre)
           deferred == plan.deferred
           direct   == {n \in sel : Held(input, n)}
           Stuck(n) == Held(input, n) \/ n \in needs[n]
           D        == {n \in sel : Stuck(n) \/ \E m \in needs[n] : Stuck(m)}
<1>1. input \in PlanInputs /\ plan = Plan(input)
  BY DEF PlanInv
<1>2. /\ IsFiniteSet(sel)
      /\ pre \in [sel -> SUBSET sel]
      /\ direct \subseteq deferred
      /\ CycleNodes(pre) \subseteq deferred
      /\ deferred \subseteq sel
      /\ \A n \in sel \ deferred : pre[n] \subseteq sel \ deferred
      /\ \A C \in SUBSET sel :
           /\ direct \subseteq C
           /\ CycleNodes(pre) \subseteq C
           /\ \A n \in sel : pre[n] \cap C # {} => n \in C
           => deferred \subseteq C
  BY <1>1, PlanIs
<1> HIDE DEF sel, pre, deferred
<1>3. /\ needs \in [sel -> SUBSET sel]
      /\ \A n \in sel : pre[n] \subseteq needs[n]
      /\ \A n \in sel, C \in SUBSET sel :
           pre[n] \subseteq C /\ (\A k \in C : pre[k] \subseteq C) => needs[n] \subseteq C
      /\ \A n \in sel : \A m \in needs[n] : needs[m] \subseteq needs[n]
  BY <1>2, LeadsIs
<1>4. \A n \in sel : n \in CycleNodes(pre) <=> \E m \in needs[n] : m \in needs[m]
  BY <1>2, CyclesExact
<1> HIDE DEF needs
<1>5. deferred \subseteq D
  <2>1. D \in SUBSET sel /\ direct \subseteq D
    OBVIOUS
  <2>2. CycleNodes(pre) \subseteq D
    BY <1>2, <1>4
  <2>3. ASSUME NEW n \in sel, pre[n] \cap D # {}
        PROVE  n \in D
    <3>1. PICK p \in pre[n] : p \in D
      BY <2>3
    <3>2. p \in needs[n] /\ needs[p] \subseteq needs[n]
      BY <1>3, <3>1
    <3>3. Stuck(p) \/ \E m \in needs[p] : Stuck(m)
      BY <3>1
    <3>4. \E m \in needs[n] : Stuck(m)
      BY <3>2, <3>3
    <3> QED
      BY <3>4
  <2> HIDE DEF D, direct
  <2> QED
    BY <1>2, <2>1, <2>2, <2>3
<1>6. D \subseteq deferred
  <2>1. SUFFICES ASSUME NEW n \in D, n \notin deferred
                 PROVE  FALSE
    OBVIOUS
  <2>2. n \in sel \ deferred
    BY <2>1
  <2>3. needs[n] \subseteq sel \ deferred
    BY <1>2, <1>3, <2>2
  <2>4. PICK m \in sel \ deferred : Stuck(m)
    BY <2>1, <2>2, <2>3
  <2>5. ~Held(input, m)
    BY <1>2, <2>4
  <2>6. m \in CycleNodes(pre)
    BY <1>4, <2>4, <2>5
  <2> QED
    BY <1>2, <2>4, <2>6
<1>7. deferred = D
  BY <1>5, <1>6
<1>8. needs = Needs(input)
  BY Zenon DEF needs, pre, Pre, Needs
<1> QED
  BY <1>7, <1>8, Zenon DEF DeferredExactly, deferred, sel, Held, Live, Outside


LEMMA PlanOrders ==
  ASSUME PlanInv
  PROVE  ShipsInOrder
<1> SUFFICES ASSUME stage = "planned"
             PROVE  ShipsInOrder
  BY DEF ShipsInOrder
<1> DEFINE pre   == Pre(input)
           ships == input.selected \ plan.deferred
<1>1. /\ Sorted(plan.shippable, ships, pre, input.rank)
      /\ ToSet(plan.shippable) = ships
      /\ Len(plan.shippable) = Cardinality(ships)
      /\ plan.prereqs = [n \in ships |-> pre[n]]
  BY PlanIs DEF PlanInv
<1> HIDE DEF ships, pre
<1>2. \A n \in ships : plan.prereqs[n] \cap ships = pre[n] \cap ships
  BY <1>1
<1>3. OrderedByEdgesThenKey(plan.shippable, ships, plan.prereqs, input.rank)
  BY <1>1, <1>2, SortedOrders, Zenon
<1> QED
  BY <1>3 DEF ShipsInOrder, ships

LEMMA PlanForgetsNone ==
  ASSUME PlanInv
  PROVE  NoBlockerForgotten
<1> SUFFICES ASSUME stage = "planned"
             PROVE  NoBlockerForgotten
  BY DEF NoBlockerForgotten
<1> DEFINE sel   == input.selected
           pre   == Pre(input)
           ships == sel \ plan.deferred
<1>1. /\ sel \subseteq Issues
      /\ input.edges \in [sel -> SUBSET Issues]
      /\ input.absence \in [Issues \ sel -> Absences]
  BY DEF PlanInv, PlanInputs
<1>2. /\ {n \in sel : Held(input, n)} \subseteq plan.deferred
      /\ \A n \in ships : pre[n] \subseteq ships
      /\ ToSet(plan.shippable) = ships
      /\ plan.prereqs = [n \in ships |-> pre[n]]
      /\ DOMAIN plan.stackBases = {n \in ships : Live(input, n) # {}}
      /\ \A n \in DOMAIN plan.stackBases : plan.stackBases[n] \in Live(input, n)
  BY PlanIs DEF PlanInv
<1>3. \A n \in sel : pre[n] = input.edges[n] \cap sel
  BY DEF Pre
<1> HIDE DEF sel, pre
<1>4. ASSUME NEW n \in ships, NEW p \in Issues, p \in input.edges[n]
      PROVE  \/ p \in ships /\ p \in plan.prereqs[n]
             \/ p \notin sel /\ input.absence[p] \in {"closed", "MERGED"}
             \/ /\ p \notin sel /\ input.absence[p] = "OPEN"
                /\ n \in DOMAIN plan.stackBases /\ plan.stackBases[n] = p
                /\ plan.prereqs[n] = {}
  <2>1. ~Held(input, n) /\ n \in sel
    BY <1>2, <1>4
  <2>2. CASE p \in sel
    BY <1>2, <1>3, <1>4, <2>1, <2>2
  <2>3. CASE p \notin sel /\ input.absence[p] # "closed"
    <3>1. p \in Outside(input, n)
      BY <1>4, <2>3 DEF Outside, sel
    <3>2. input.absence[p] \in {"OPEN", "MERGED"}
      BY <2>1, <3>1, Zenon DEF Held
    <3>3. CASE input.absence[p] = "OPEN"
      <4>1. p \in Live(input, n)
        BY <3>1, <3>3 DEF Live
      <4>2. n \in DOMAIN plan.stackBases /\ plan.stackBases[n] \in Live(input, n)
        BY <1>2, <4>1
      <4>3. ~(Cardinality(Live(input, n)) > 1) /\ input.edges[n] \cap sel = {}
        BY <2>1, <4>1, Zenon DEF Held, sel
      <4>4. plan.prereqs[n] = {}
        BY <1>2, <1>3, <1>4, <2>1, <4>3
      <4>5. plan.stackBases[n] = p
        <5>1. PICK q \in Live(input, n) : q = plan.stackBases[n]
          BY <4>2
        <5>2. SUFFICES ASSUME q # p
                       PROVE  FALSE
          BY <5>1
        <5>3. Cardinality({p, q}) = 2
          <6>1. IsFiniteSet({p}) /\ Cardinality({p}) = 1
            BY FS_Singleton
          <6>2. Cardinality({p} \cup {q}) = Cardinality({p}) + 1
            BY <5>2, <6>1, FS_AddElement
          <6>3. {p, q} = {p} \cup {q}
            OBVIOUS
          <6> QED
            BY <6>1, <6>2, <6>3
        <5>4. {p, q} \subseteq Live(input, n) /\ IsFiniteSet(Live(input, n))
          <6>1. Live(input, n) \subseteq Issues
            BY <1>1, <2>1 DEF Live, Outside
          <6> QED
            BY <4>1, <5>1, <6>1, IssuesAssumption, FS_Subset
        <5>5. Cardinality({p, q}) <= Cardinality(Live(input, n)) /\ Cardinality(Live(input, n)) \in Nat
          BY <5>4, FS_Subset, FS_CardinalityType
        <5> QED
          BY <4>3, <5>3, <5>5
      <4> QED
        BY <2>3, <3>3, <4>2, <4>4, <4>5
    <3>4. CASE input.absence[p] = "MERGED"
      BY <2>3, <3>4
    <3> QED
      BY <3>2, <3>3, <3>4
  <2>4. CASE p \notin sel /\ input.absence[p] = "closed"
    BY <2>4
  <2> QED
    BY <2>2, <2>3, <2>4
<1> QED
  BY <1>2, <1>4, Zenon DEF NoBlockerForgotten, sel

LEMMA PlanInvInductive ==
  /\ Init => PlanInv
  /\ PlanInv /\ [Next]_vars => PlanInv'
<1>1. ASSUME PlanInit
      PROVE  PlanInv
  <2>0. PICK selected \in SUBSET Issues :
          \E edges \in [selected -> SUBSET Issues] :
          \E hopeless \in SUBSET selected, absence \in [Issues \ selected -> Absences],
             rank \in Ranks :
            input = [selected |-> selected, edges |-> edges, hopeless |-> hopeless,
                     absence |-> absence, rank |-> rank]
    BY <1>1, Zenon DEF PlanInit
  <2>1. PICK edges \in [selected -> SUBSET Issues], hopeless \in SUBSET selected,
             absence \in [Issues \ selected -> Absences], rank \in Ranks :
          input = [selected |-> selected, edges |-> edges, hopeless |-> hopeless,
                   absence |-> absence, rank |-> rank]
    BY <2>0, Zenon
  <2>2. /\ input \in [selected : SUBSET Issues,
                      edges    : UNION {[S -> SUBSET Issues] : S \in SUBSET Issues},
                      hopeless : SUBSET Issues,
                      absence  : UNION {[S -> Absences] : S \in SUBSET Issues},
                      rank     : Ranks]
        /\ input.edges \in [input.selected -> SUBSET Issues]
        /\ input.absence \in [Issues \ input.selected -> Absences]
    <3>1. /\ edges \in UNION {[S -> SUBSET Issues] : S \in SUBSET Issues}
          /\ absence \in UNION {[S -> Absences] : S \in SUBSET Issues}
          /\ hopeless \in SUBSET Issues
      OBVIOUS
    <3> QED
      BY <2>1, <3>1
  <2> QED
    BY <1>1, <2>2 DEF PlanInv, PlanInputs, PlanInit
<1>2. ASSUME MergeInit
      PROVE  PlanInv
  BY <1>2 DEF MergeInit, PlanInv
<1>3. ASSUME PlanInv, ComputePlan
      PROVE  PlanInv'
  BY <1>3 DEF PlanInv, ComputePlan
<1>4. ASSUME PlanInv, ComputeMerge
      PROVE  PlanInv'
  BY <1>4 DEF PlanInv, ComputeMerge
<1>5. ASSUME PlanInv, UNCHANGED vars
      PROVE  PlanInv'
  BY <1>5 DEF PlanInv, vars
<1> QED
  BY <1>1, <1>2, <1>3, <1>4, <1>5 DEF Init, Next

(* PlanIsExact for every selection: exactly the issues are deferred that   *)
(* cannot ship or need one that cannot, the others come in the order the   *)
(* edges and the ranks ask for, and no open blocker of them is forgotten.  *)
THEOREM PlanExact == Spec => []PlanIsExact
<1>1. Init => PlanInv
  BY PlanInvInductive
<1>2. PlanInv /\ [Next]_vars => PlanInv'
  BY PlanInvInductive
<1>3. PlanInv => PlanIsExact
  BY PlanDefers, PlanOrders, PlanForgetsNone DEF PlanIsExact
<1> QED
  BY <1>1, <1>2, <1>3, PTL DEF Spec


-----------------------------------------------------------------------------
(* The inputs of a merge.                                                  *)

LEMMA CutsAreTidy ==
  ASSUME NEW order \in Orders, NEW chains \in Cuts(order)
  PROVE  Tidy(chains, Issues, Positions(chains))
<1>1. order \in Seq(Issues) /\ Different(order) /\ ToSet(order) = Issues
  <2>1. order \in SetToSeqs(Issues)
    BY OrdersAssumption
  <2>2. /\ order \in [1 .. Cardinality(Issues) -> Issues]
        /\ \A i, j \in 1 .. Cardinality(Issues) : i # j => order[i] # order[j]
    BY <2>1 DEF SetToSeqs
  <2>3. PICK c \in Nat : c = Cardinality(Issues)
    BY IssuesAssumption, FS_CardinalityType
  <2>4. order \in Seq(Issues)
    BY <2>2, <2>3, SeqDef
  <2>5. DOMAIN order = 1 .. Len(order) /\ DOMAIN order = 1 .. c
    BY <2>2, <2>3, <2>4, LenProperties
  <2>6. Different(order)
    BY <2>2, <2>3, <2>5 DEF Different
  <2>7. Cardinality(ToSet(order)) = Cardinality(Issues) /\ ToSet(order) \subseteq Issues
    <3>1. Len(order) \in Nat /\ Cardinality(ToSet(order)) = Len(order)
      BY <2>4, <2>6, DifferentLen, LenProperties
    <3>2. Len(order) = c
      BY <2>3, <2>5, <3>1
    <3>3. ToSet(order) \subseteq Issues
      BY <2>2 DEF ToSet
    <3> QED
      BY <2>3, <3>1, <3>2, <3>3
  <2> QED
    BY <2>4, <2>6, <2>7, IssuesAssumption, FS_Subset
<1>2. order # << >>
  <2>1. ToSet(<< >>) = {}
    BY DEF ToSet
  <2> QED
    BY <1>1, <2>1, IssuesAssumption
<1>3. PICK ends \in SUBSET (1 .. Len(order) - 1) : chains = Cut(order, Ends(Len(order), ends))
  BY Zenon DEF Cuts, Cut, Ends
<1>4. PICK cut : cut = Ends(Len(order), ends)
  OBVIOUS
<1>5. /\ cut \in Seq(1 .. Len(order)) /\ cut # << >>
      /\ cut[Len(cut)] = Len(order)
      /\ \A i, j \in 1 .. Len(cut) : i < j => cut[i] < cut[j]
  BY <1>1, <1>2, <1>4, EndsIs, Zenon
<1> DEFINE at == Positions(chains)
<1>6. FlattenSeq(chains) = order
  BY <1>1, <1>3, <1>4, <1>5, FlattenCut, Zenon
<1>7. \A p \in 1 .. Len(order) : at[order[p]] = p
  <2>1. at = [n \in Issues |-> CHOOSE i \in DOMAIN order : order[i] = n]
    <3>1. at = [n \in ToSet(FlattenSeq(chains)) |->
                  CHOOSE i \in DOMAIN FlattenSeq(chains) : FlattenSeq(chains)[i] = n]
      BY DEF Positions
    <3> HIDE DEF at
    <3> QED
      BY <1>1, <1>6, <3>1
  <2>2. \A n \in Issues : at[n] = At(order, n)
    BY <2>1 DEF At
  <2>3. \A p \in 1 .. Len(order) : order[p] \in Issues /\ At(order, order[p]) = p
    BY <1>1, AtIs
  <2> HIDE DEF at
  <2> QED
    BY <2>2, <2>3
<1> HIDE DEF at
<1> QED
  BY <1>1, <1>3, <1>4, <1>5, <1>7, CutIs, Zenon DEF at

MergeInv ==
  /\ stage \in {"plan", "planned", "merge", "merged"}
  /\ stage \in {"merge", "merged"} =>
       /\ Tidy(input.chains, Issues, Positions(input.chains))
       /\ input.edges \in [Issues -> SUBSET Issues]
       /\ Acyclic(input.edges)
  /\ stage = "merged" => plan = MergeGraphs(input.chains, input.edges)

LEMMA MergeInvInductive ==
  /\ Init => MergeInv
  /\ MergeInv /\ [Next]_vars => MergeInv'
<1>1. ASSUME MergeInit
      PROVE  MergeInv
  <2>1. PICK order \in Orders : \E chains \in Cuts(order), edges \in Dags :
                                  input = [chains |-> chains, edges |-> edges]
    BY <1>1, Zenon DEF MergeInit
  <2>2. PICK chains \in Cuts(order), edges \in Dags : input = [chains |-> chains, edges |-> edges]
    BY <2>1, Zenon
  <2>3. Tidy(chains, Issues, Positions(chains))
    BY CutsAreTidy
  <2>4. input.chains = chains /\ input.edges = edges
    BY <2>2
  <2>5. edges \in [Issues -> SUBSET Issues] /\ Acyclic(edges)
    BY DEF Dags
  <2> QED
    BY <1>1, <2>3, <2>4, <2>5 DEF MergeInv, MergeInit
<1>2. ASSUME PlanInit
      PROVE  MergeInv
  BY <1>2 DEF PlanInit, MergeInv
<1>3. ASSUME MergeInv, ComputePlan
      PROVE  MergeInv'
  BY <1>3 DEF MergeInv, ComputePlan
<1>4. ASSUME MergeInv, ComputeMerge
      PROVE  MergeInv'
  BY <1>4 DEF MergeInv, ComputeMerge
<1>5. ASSUME MergeInv, UNCHANGED vars
      PROVE  MergeInv'
  BY <1>5 DEF MergeInv, vars
<1> QED
  BY <1>1, <1>2, <1>3, <1>4, <1>5 DEF Init, Next

(* MergeGraphsIs, for such an input.                                       *)
LEMMA MergeIs ==
  ASSUME MergeInv, stage = "merged"
  PROVE  RightChains(plan, Issues, input.chains, input.edges)
<1> DEFINE edges == input.edges
<1>1. /\ Divides(input.chains, Issues)
      /\ edges \in [Issues -> SUBSET Issues]
      /\ Acyclic(edges)
      /\ plan = MergeGraphs(input.chains, edges)
  BY Zenon DEF MergeInv, Tidy
<1> HIDE DEF edges
<1>2. CycleNodes(edges) = {}
  <2>1. CycleNodes(edges) \subseteq Issues
    BY <1>1, SettledIsRanked, IssuesAssumption
  <2>2. \A n \in Issues : n \in CycleNodes(edges) <=> \E m \in Leads(edges)[n] : m \in Leads(edges)[m]
    BY <1>1, CyclesExact, IssuesAssumption
  <2>3. \A n \in Issues : Leads(edges)[n] \subseteq Issues
    BY <1>1, LeadsIs
  <2>4. \A n \in Issues : n \notin Leads(edges)[n]
    BY <1>1, Zenon DEF Acyclic
  <2> QED
    BY <2>1, <2>2, <2>3, <2>4
<1>3. PICK rank : Ranked(Issues, edges, rank)
  <2>1. \E rank : Ranked(Issues \ CycleNodes(edges), edges, rank)
    BY <1>1, SettledIsRanked, IssuesAssumption
  <2>2. Issues \ CycleNodes(edges) = Issues
    BY <1>2
  <2> QED
    BY <2>1, <2>2
<1>4. RightChains(MergeGraphs(input.chains, edges), Issues, input.chains, edges)
  BY <1>1, <1>3, IssuesAssumption, MergeGraphsIs, Zenon
<1> QED
  BY <1>1, <1>4, Zenon DEF edges


LEMMA MergeLinks ==
  ASSUME MergeInv
  PROVE  ChainsAreLinked
<1> SUFFICES ASSUME stage = "merged"
             PROVE  ChainsAreLinked
  BY DEF ChainsAreLinked
<1> DEFINE chains == input.chains
           edges  == input.edges
           next   == [n \in Issues |->
                        {m \in Issues : \/ m = n
                                        \/ m \in edges[n] \/ n \in edges[m]
                                        \/ \E c \in ToSet(chains) : {n, m} \subseteq ToSet(c)}]
           linked == Leads(next)
<1>1. /\ plan \in Seq(Seq(Issues))
      /\ \A i \in 1 .. Len(plan) :
           /\ Linkless(ToSet(plan[i]), Issues, chains, edges)
           /\ \A C \in SUBSET Issues :
                Linkless(C, Issues, chains, edges) /\ C \cap ToSet(plan[i]) # {}
                  => ToSet(plan[i]) \subseteq C
      /\ UNION {ToSet(plan[i]) : i \in 1 .. Len(plan)} = Issues
  BY MergeIs, Zenon DEF RightChains
<1>2. Divides(chains, Issues)
  BY Zenon DEF MergeInv, Tidy
<1> HIDE DEF chains, edges
<1>3. DOMAIN plan = 1 .. Len(plan) /\ DOMAIN chains = 1 .. Len(chains)
  BY <1>1, <1>2, LenProperties DEF Divides
<1>4. next \in [Issues -> SUBSET Issues]
  OBVIOUS
<1>5. \A n, m \in Issues : m \in next[n] <=> \/ m = n
                                             \/ m \in edges[n] \/ n \in edges[m]
                                             \/ \E c \in ToSet(chains) : {n, m} \subseteq ToSet(c)
  OBVIOUS
<1> HIDE DEF next
<1>6. /\ linked \in [Issues -> SUBSET Issues]
      /\ \A n \in Issues : next[n] \subseteq linked[n]
      /\ \A n \in Issues : \A k \in linked[n] : next[k] \subseteq linked[n]
      /\ \A n \in Issues, C \in SUBSET Issues :
           next[n] \subseteq C /\ (\A k \in C : next[k] \subseteq C) => linked[n] \subseteq C
  BY <1>4, LeadsIs
<1> HIDE DEF linked
<1>7. \A c : c \in ToSet(chains) <=> \E i \in 1 .. Len(chains) : c = chains[i]
  BY <1>3 DEF ToSet
<1>8. ASSUME NEW i \in 1 .. Len(plan)
      PROVE  /\ ToSet(plan[i]) \subseteq Issues
             /\ \A k \in ToSet(plan[i]) : next[k] \subseteq ToSet(plan[i])
  <2>1. ToSet(plan[i]) \subseteq Issues
    <3>1. ToSet(plan[i]) \in {ToSet(plan[j]) : j \in 1 .. Len(plan)}
      OBVIOUS
    <3> QED
      BY <1>1, <3>1, Zenon
  <2>2. ASSUME NEW k \in ToSet(plan[i]), NEW m \in next[k]
        PROVE  m \in ToSet(plan[i])
    <3>1. k \in Issues /\ m \in Issues
      BY <1>4, <2>1, <2>2
    <3>2. /\ \A j \in 1 .. Len(chains) : k \in ToSet(chains[j]) => ToSet(chains[j]) \subseteq ToSet(plan[i])
          /\ \A l \in Issues : l \in edges[k] \/ k \in edges[l] => l \in ToSet(plan[i])
      BY <1>1 DEF Linkless
    <3> QED
      BY <1>5, <1>7, <2>2, <3>1, <3>2
  <2> QED
    BY <2>1, <2>2
<1>9. ASSUME NEW n \in Issues
      PROVE  Linkless(linked[n], Issues, chains, edges) /\ n \in linked[n]
  <2>1. n \in linked[n]
    BY <1>5, <1>6
  <2>2. ASSUME NEW k \in linked[n]
        PROVE  /\ \A i \in 1 .. Len(chains) :
                    k \in ToSet(chains[i]) => ToSet(chains[i]) \subseteq linked[n]
               /\ \A m \in Issues : m \in edges[k] \/ k \in edges[m] => m \in linked[n]
    <3>1. k \in Issues /\ next[k] \subseteq linked[n]
      BY <1>6, <2>2
    <3>2. ASSUME NEW i \in 1 .. Len(chains), k \in ToSet(chains[i]), NEW m \in ToSet(chains[i])
          PROVE  m \in linked[n]
      <4>1. m \in Issues
        BY <1>2, <3>2 DEF Divides
      <4>2. chains[i] \in ToSet(chains) /\ {k, m} \subseteq ToSet(chains[i])
        BY <1>7, <3>2
      <4> QED
        BY <1>5, <3>1, <4>1, <4>2
    <3> QED
      BY <1>5, <3>1, <3>2
  <2> QED
    BY <2>1, <2>2 DEF Linkless
<1>10. ASSUME NEW n \in Issues, NEW m \in linked[n]
       PROVE  \E i \in DOMAIN plan : {n, m} \subseteq ToSet(plan[i])
  <2>1. PICK i \in 1 .. Len(plan) : n \in ToSet(plan[i])
    BY <1>1
  <2>2. linked[n] \subseteq ToSet(plan[i])
    BY <1>6, <1>8, <2>1
  <2> QED
    BY <1>3, <1>10, <2>1, <2>2
<1>11. ASSUME NEW n \in Issues, NEW m \in Issues, NEW i \in DOMAIN plan, {n, m} \subseteq ToSet(plan[i])
       PROVE  m \in linked[n]
  <2>1. linked[n] \in SUBSET Issues /\ Linkless(linked[n], Issues, chains, edges)
    BY <1>6, <1>9
  <2>2. linked[n] \cap ToSet(plan[i]) # {}
    BY <1>9, <1>11
  <2>3. ToSet(plan[i]) \subseteq linked[n]
    BY <1>1, <1>3, <2>1, <2>2
  <2> QED
    BY <1>11, <2>3
<1>12. linked = Linked(input)
  BY Zenon DEF linked, next, chains, edges, Linked
<1> QED
  BY <1>10, <1>11, <1>12, Zenon DEF ChainsAreLinked

LEMMA MergeOrders ==
  ASSUME MergeInv
  PROVE  ChainsAreOrdered
<1> SUFFICES ASSUME stage = "merged"
             PROVE  ChainsAreOrdered
  BY DEF ChainsAreOrdered
<1> DEFINE chains == input.chains
           edges  == input.edges
           all    == FlattenSeq(chains)
           at     == Positions(chains)
           place  == [n \in Issues |-> At(all, n)]
<1>1. /\ plan \in Seq(Seq(Issues))
      /\ \A i \in 1 .. Len(plan) : Sorted(plan[i], ToSet(plan[i]), edges, at)
      /\ UNION {ToSet(plan[i]) : i \in 1 .. Len(plan)} = Issues
      /\ \A i, j \in 1 .. Len(plan) : ToSet(plan[i]) \cap ToSet(plan[j]) # {} => i = j
  BY MergeIs, Zenon DEF RightChains
<1>2. ToSet(all) = Issues
  <2>1. /\ chains \in Seq(Seq(Issues))
        /\ UNION {ToSet(chains[i]) : i \in 1 .. Len(chains)} = Issues
    BY Zenon DEF MergeInv, Tidy, Divides
  <2> QED
    BY <2>1, FlattenIs, Zenon
<1>3. \A n \in Issues : place[n] = at[n]
  BY <1>2 DEF At, Positions
<1> HIDE DEF at, all, edges, chains
<1>4. DOMAIN plan = 1 .. Len(plan) /\ \A i \in 1 .. Len(plan) : plan[i] \in Seq(Issues)
  BY <1>1, LenProperties, ElementOfSeq
<1>5. \A i \in 1 .. Len(plan) : Different(plan[i])
  BY <1>1 DEF Sorted
<1>6. Len(FlattenSeq(plan)) = Cardinality(Issues)
  <2>1. FlattenSeq(plan) \in Seq(Issues) /\ ToSet(FlattenSeq(plan)) = Issues
    BY <1>1, FlattenIs, Zenon
  <2>2. Different(FlattenSeq(plan))
    BY <1>1, <1>5, FlattenDifferent, Zenon
  <2>3. Cardinality(ToSet(FlattenSeq(plan))) = Len(FlattenSeq(plan))
    BY <2>1, <2>2, DifferentLen, Zenon
  <2> QED
    BY <2>1, <2>3
<1> HIDE DEF place
<1>7. ASSUME NEW i \in DOMAIN plan
      PROVE  OrderedByEdgesThenKey(plan[i], ToSet(plan[i]), edges, place)
  <2>1. PICK s, nodes : s = plan[i] /\ nodes = ToSet(plan[i])
    OBVIOUS
  <2>2. s \in Seq(Issues) /\ Different(s) /\ nodes \subseteq Issues /\ Sorted(s, nodes, edges, at)
    BY <1>1, <1>4, <1>5, <2>1
  <2>3. ToSet(s) = nodes /\ Len(s) = Cardinality(nodes)
    BY <2>1, <2>2, DifferentLen
  <2>4. \A n \in nodes : place[n] = at[n]
    BY <1>3, <2>2
  <2>5. OrderedByEdgesThenKey(s, nodes, edges, place)
    BY <2>2, <2>3, <2>4, SortedOrders, Zenon
  <2> QED
    BY <2>1, <2>5
<1> QED
  BY <1>6, <1>7, Zenon DEF ChainsAreOrdered, chains, edges, all, place


-----------------------------------------------------------------------------
(* What changes nothing.                                                   *)

Rising(f, a) == \A i, j \in 1 .. a : i < j => f[i] < f[j]

Onto(f, a, b) == \A j \in 1 .. b : \E i \in 1 .. a : f[i] = j

LEMMA Growing ==
  ASSUME NEW a \in Nat, NEW b \in Nat, NEW f \in [1 .. a -> 1 .. b], Rising(f, a)
  PROVE  \A i \in 1 .. a : i <= f[i]
<1> DEFINE Bad == {i \in 1 .. a : ~(i <= f[i])}
<1>1. SUFFICES ASSUME Bad # {}
               PROVE  FALSE
  OBVIOUS
<1>2. PICK i \in Bad : \A j \in Bad : i <= j
  <2>1. Bad \subseteq Nat
    OBVIOUS
  <2> QED
    BY <1>1, <2>1, LeastNat
<1>3. i \in 1 .. a /\ f[i] \in 1 .. b /\ i # 1
  BY <1>2
<1>4. i - 1 \in 1 .. a /\ i - 1 < i /\ ~(i <= i - 1)
  BY <1>3
<1>5. i - 1 \notin Bad
  <2> HIDE DEF Bad
  <2> QED
    BY <1>2, <1>4
<1>6. i - 1 <= f[i - 1] /\ f[i - 1] < f[i] /\ f[i - 1] \in 1 .. b
  BY <1>3, <1>4, <1>5 DEF Rising
<1> QED
  BY <1>2, <1>3, <1>6

LEMMA GrowingOnto ==
  ASSUME NEW a \in Nat, NEW b \in Nat, NEW f \in [1 .. a -> 1 .. b], Rising(f, a), Onto(f, a, b)
  PROVE  a = b /\ \A i \in 1 .. a : f[i] = i
<1> DEFINE g == [j \in 1 .. b |-> CHOOSE i \in 1 .. a : f[i] = j]
<1>1. \A j \in 1 .. b : g[j] \in 1 .. a /\ f[g[j]] = j
  BY DEF Onto
<1>2. g \in [1 .. b -> 1 .. a]
  BY <1>1
<1> HIDE DEF g
<1>3. Rising(g, b)
  <2>1. SUFFICES ASSUME NEW i \in 1 .. b, NEW j \in 1 .. b, i < j, ~(g[i] < g[j])
                 PROVE  FALSE
    BY DEF Rising
  <2>2. PICK k \in 1 .. a, l \in 1 .. a : k = g[i] /\ l = g[j] /\ f[k] = i /\ f[l] = j
    BY <1>1
  <2>3. k = l \/ l < k
    BY <2>1, <2>2
  <2> QED
    BY <2>1, <2>2, <2>3 DEF Rising
<1>4. \A i \in 1 .. a : i <= f[i]
  BY Growing
<1>5. \A j \in 1 .. b : j <= g[j]
  BY <1>2, <1>3, Growing
<1>6. ASSUME NEW i \in 1 .. a
      PROVE  f[i] = i
  <2>1. PICK j \in 1 .. b : j = f[i]
    OBVIOUS
  <2>2. PICK k \in 1 .. a : k = g[j] /\ f[k] = j
    BY <1>1
  <2>3. k = i
    <3>1. ~(k < i) /\ ~(i < k)
      BY <2>1, <2>2 DEF Rising
    <3> QED
      BY <3>1
  <2>4. i <= j /\ j <= k
    BY <1>4, <1>5, <2>1, <2>2
  <2> QED
    BY <2>1, <2>3, <2>4
<1>7. a <= b
  BY <1>6
<1>8. b <= a
  BY <1>1, <1>5
<1> QED
  BY <1>6, <1>7, <1>8

(* Sorting what is in order gives it back.                                 *)
LEMMA SortedUnique ==
  ASSUME NEW nodes, NEW s, NEW c, NEW pre, NEW key, Sorted(s, nodes, pre, key),
         c \in Seq(nodes), Different(c), ToSet(s) = nodes, ToSet(c) = nodes,
         \A n \in nodes : key[n] \in Nat,
         \A k, l \in 1 .. Len(c) : k < l => key[c[k]] < key[c[l]],
         \A n \in nodes : \A p \in pre[n] \cap nodes : key[p] < key[n]
  PROVE  s = c
<1>1. /\ s \in Seq(nodes) /\ Different(s)
      /\ \A i \in 1 .. Len(s), m \in nodes :
           ~Among(s, i, m) /\ (\A p \in pre[m] \cap nodes : Among(s, i, p)) => ~Before(m, s[i], key)
  BY DEF Sorted, ByKey
<1>2. Len(s) = Len(c)
  <2>1. Cardinality(nodes) = Len(s) /\ Cardinality(nodes) = Len(c)
    BY <1>1, DifferentLen
  <2> QED
    BY <2>1
<1>3. PICK len \in Nat : len = Len(s) /\ len = Len(c) /\ DOMAIN s = 1 .. len /\ DOMAIN c = 1 .. len
  BY <1>1, <1>2, LenProperties
<1> DEFINE Bad == {i \in 1 .. len : s[i] # c[i]}
<1>4. SUFFICES ASSUME Bad # {}
               PROVE  FALSE
  <2>1. s \in [1 .. len -> nodes] /\ c \in [1 .. len -> nodes]
    BY <1>1, <1>3, LenProperties
  <2> QED
    BY <1>4, <2>1
<1>5. PICK i \in Bad : \A j \in Bad : i <= j
  <2>1. Bad \subseteq Nat
    OBVIOUS
  <2> QED
    BY <1>4, <2>1, LeastNat
<1>6. i \in 1 .. len /\ s[i] # c[i]
  BY <1>5
<1>7. \A q \in 1 .. i - 1 : q \in 1 .. len /\ s[q] = c[q]
  <2>1. SUFFICES ASSUME NEW q \in 1 .. i - 1
                 PROVE  q \in 1 .. len /\ s[q] = c[q]
    OBVIOUS
  <2>2. q \in 1 .. len /\ ~(i <= q)
    BY <1>6, <2>1
  <2> QED
    BY <1>5, <2>2
<1>8. s[i] \in nodes /\ c[i] \in nodes
  BY <1>1, <1>3, <1>6, ElementOfSeq
<1>9. ~Among(s, i, c[i])
  <2>1. SUFFICES ASSUME NEW q \in 1 .. i - 1, s[q] = c[i]
                 PROVE  FALSE
    BY DEF Among
  <2>2. c[q] = c[i] /\ q \in 1 .. len /\ q # i
    BY <1>6, <1>7, <2>1
  <2> QED
    BY <1>3, <1>6, <2>2 DEF Different
<1>10. ASSUME NEW p \in pre[c[i]] \cap nodes
       PROVE  Among(s, i, p)
  <2>1. PICK k \in 1 .. len : c[k] = p
    BY <1>3, <1>10 DEF ToSet
  <2>2. key[p] < key[c[i]] /\ key[p] \in Nat /\ key[c[i]] \in Nat
    BY <1>8, <1>10
  <2>3. ~(i < k) /\ i # k
    BY <1>3, <1>6, <2>1, <2>2
  <2>4. k \in 1 .. i - 1
    BY <1>6, <2>3
  <2> QED
    BY <1>7, <2>1, <2>4 DEF Among
<1>11. ~Before(c[i], s[i], key)
  BY <1>1, <1>3, <1>6, <1>8, <1>9, <1>10
<1>12. PICK k \in 1 .. len : c[k] = s[i]
  BY <1>3, <1>8 DEF ToSet
<1>13. i < k
  <2>1. k # i
    BY <1>6, <1>12
  <2>2. ~(k < i)
    <3>1. SUFFICES ASSUME k < i
                   PROVE  FALSE
      OBVIOUS
    <3>2. k \in 1 .. i - 1
      BY <1>6, <3>1
    <3>3. s[k] = s[i]
      BY <1>7, <1>12, <3>2
    <3> QED
      BY <1>1, <1>3, <1>6, <2>1, <3>3 DEF Different
  <2> QED
    BY <1>6, <2>1, <2>2
<1>14. key[c[i]] < key[c[k]]
  BY <1>3, <1>6, <1>13
<1> QED
  BY <1>11, <1>12, <1>14 DEF Before


LEMMA MergeAdds ==
  ASSUME MergeInv
  PROVE  MergeIsAdditive
<1> DEFINE chains == input.chains
           edges  == input.edges
           at     == Positions(chains)
           Chosen == \A n \in Issues : \A p \in edges[n] :
                       \E c \in ToSet(chains) : {n, p} \subseteq ToSet(c) /\ At(c, p) < At(c, n)
<1> SUFFICES ASSUME stage = "merged", Chosen
             PROVE  plan = chains
  BY Zenon DEF MergeIsAdditive
<1>1. /\ plan \in Seq(Seq(Issues))
      /\ \A i \in 1 .. Len(plan) :
           /\ plan[i] # << >>
           /\ Sorted(plan[i], ToSet(plan[i]), edges, at)
           /\ Linkless(ToSet(plan[i]), Issues, chains, edges)
           /\ \A C \in SUBSET Issues :
                Linkless(C, Issues, chains, edges) /\ C \cap ToSet(plan[i]) # {}
                  => ToSet(plan[i]) \subseteq C
      /\ UNION {ToSet(plan[i]) : i \in 1 .. Len(plan)} = Issues
      /\ \A i, j \in 1 .. Len(plan) : ToSet(plan[i]) \cap ToSet(plan[j]) # {} => i = j
      /\ \A i, j \in 1 .. Len(plan) :
           i < j => \E n \in ToSet(plan[i]) : \A m \in ToSet(plan[j]) : at[n] < at[m]
  BY MergeIs, Zenon DEF RightChains
<1>2. /\ Divides(chains, Issues)
      /\ \A i \in 1 .. Len(chains) : chains[i] # << >> /\ Different(chains[i])
      /\ \A i, j \in 1 .. Len(chains) : ToSet(chains[i]) \cap ToSet(chains[j]) # {} => i = j
      /\ \A i \in 1 .. Len(chains) : \A k, l \in 1 .. Len(chains[i]) :
           k < l => at[chains[i][k]] < at[chains[i][l]]
      /\ \A i, j \in 1 .. Len(chains) :
           i < j => \A n \in ToSet(chains[i]), m \in ToSet(chains[j]) : at[n] < at[m]
      /\ edges \in [Issues -> SUBSET Issues]
  BY Zenon DEF MergeInv, Tidy
<1>3. at \in [Issues -> Nat]
  BY <1>2, PositionsIs
<1>4. Chosen
  OBVIOUS
<1> HIDE DEF chains, edges, at, Chosen
<1>5. /\ Len(plan) \in Nat /\ DOMAIN plan = 1 .. Len(plan)
      /\ Len(chains) \in Nat /\ DOMAIN chains = 1 .. Len(chains)
      /\ \A i \in 1 .. Len(plan) : plan[i] \in Seq(Issues)
      /\ \A i \in 1 .. Len(chains) : chains[i] \in Seq(Issues)
  BY <1>1, <1>2, LenProperties, ElementOfSeq DEF Divides
<1>6. /\ \A i \in 1 .. Len(plan) : ToSet(plan[i]) \subseteq Issues /\ ToSet(plan[i]) # {}
      /\ \A i \in 1 .. Len(chains) : ToSet(chains[i]) \subseteq Issues /\ ToSet(chains[i]) # {}
  <2>1. ASSUME NEW s \in Seq(Issues), s # << >>
        PROVE  ToSet(s) \subseteq Issues /\ ToSet(s) # {}
    <3>1. DOMAIN s = 1 .. Len(s) /\ Len(s) \in Nat /\ Len(s) # 0
          /\ \A i \in 1 .. Len(s) : s[i] \in Issues
      BY <2>1, LenProperties, EmptySeq, ElementOfSeq
    <3>2. 1 \in DOMAIN s
      BY <3>1
    <3> QED
      BY <3>1, <3>2 DEF ToSet
  <2> QED
    BY <1>1, <1>2, <1>5, <2>1
(* The edges stay inside the chains, and point back.                       *)
<1>7. ASSUME NEW i \in 1 .. Len(chains), NEW n \in ToSet(chains[i]), NEW p \in edges[n]
      PROVE  p \in ToSet(chains[i]) /\ at[p] < at[n]
  <2>1. n \in Issues /\ p \in Issues
    BY <1>2, <1>6, <1>7
  <2>2. PICK c \in ToSet(chains) : {n, p} \subseteq ToSet(c) /\ At(c, p) < At(c, n)
    BY <1>4, <1>7, <2>1, Zenon DEF Chosen
  <2>3. PICK j \in 1 .. Len(chains) : c = chains[j]
    BY <1>5 DEF ToSet
  <2>4. j = i
    BY <1>2, <1>7, <2>2, <2>3
  <2>5. c \in Seq(Issues) /\ Different(c) /\ n \in ToSet(c) /\ p \in ToSet(c)
    BY <1>2, <1>5, <2>2, <2>3
  <2>6. /\ At(c, p) \in 1 .. Len(c) /\ c[At(c, p)] = p
        /\ At(c, n) \in 1 .. Len(c) /\ c[At(c, n)] = n
    BY <2>5, AtIs
  <2>7. at[c[At(c, p)]] < at[c[At(c, n)]]
    BY <1>2, <2>2, <2>3, <2>6
  <2> QED
    BY <2>3, <2>4, <2>5, <2>6, <2>7
<1>8. ASSUME NEW i \in 1 .. Len(chains)
      PROVE  Linkless(ToSet(chains[i]), Issues, chains, edges)
  <2>1. SUFFICES ASSUME NEW n \in ToSet(chains[i])
                 PROVE  /\ \A j \in 1 .. Len(chains) :
                             n \in ToSet(chains[j]) => ToSet(chains[j]) \subseteq ToSet(chains[i])
                        /\ \A m \in Issues : m \in edges[n] \/ n \in edges[m] => m \in ToSet(chains[i])
    BY DEF Linkless
  <2>2. \A j \in 1 .. Len(chains) : n \in ToSet(chains[j]) => j = i
    BY <1>2, <2>1
  <2>3. ASSUME NEW m \in Issues, n \in edges[m]
        PROVE  m \in ToSet(chains[i])
    <3>1. PICK j \in 1 .. Len(chains) : m \in ToSet(chains[j])
      BY <1>2 DEF Divides
    <3>2. n \in ToSet(chains[j])
      BY <1>7, <2>3, <3>1
    <3> QED
      BY <2>2, <3>1, <3>2
  <2>4. \A m \in edges[n] : m \in ToSet(chains[i])
    BY <1>7, <2>1
  <2> QED
    BY <2>2, <2>3, <2>4
<1>9. ASSUME NEW k \in 1 .. Len(plan), NEW i \in 1 .. Len(chains),
             ToSet(plan[k]) \cap ToSet(chains[i]) # {}
      PROVE  plan[k] = chains[i]
  <2>1. ToSet(plan[k]) \subseteq ToSet(chains[i])
    <3>1. PICK C \in SUBSET Issues : C = ToSet(chains[i])
      BY <1>6
    <3>2. Linkless(C, Issues, chains, edges) /\ C \cap ToSet(plan[k]) # {}
      BY <1>8, <1>9, <3>1
    <3>3. \A D \in SUBSET Issues :
            Linkless(D, Issues, chains, edges) /\ D \cap ToSet(plan[k]) # {} => ToSet(plan[k]) \subseteq D
      BY <1>1, Zenon
    <3> QED
      BY <3>1, <3>2, <3>3
  <2>2. ToSet(chains[i]) \subseteq ToSet(plan[k])
    <3>1. PICK n : n \in ToSet(plan[k]) /\ n \in ToSet(chains[i])
      BY <1>9
    <3> QED
      BY <1>1, <3>1 DEF Linkless
  <2>3. PICK s, c, nodes : s = plan[k] /\ c = chains[i] /\ nodes = ToSet(c)
    OBVIOUS
  <2>4. ToSet(s) = nodes /\ ToSet(c) = nodes /\ nodes \subseteq Issues
    BY <1>6, <2>1, <2>2, <2>3
  <2>5. /\ Sorted(s, nodes, edges, at)
        /\ Different(c)
        /\ \A x, y \in 1 .. Len(c) : x < y => at[c[x]] < at[c[y]]
    BY <1>1, <1>2, <2>3, <2>4
  <2>6. c \in Seq(nodes)
    <3>1. c \in Seq(Issues)
      BY <1>5, <2>3
    <3>2. Len(c) \in Nat /\ DOMAIN c = 1 .. Len(c) /\ c \in [1 .. Len(c) -> Issues]
      BY <3>1, LenProperties
    <3>3. PICK l \in Nat : l = Len(c)
      BY <3>2
    <3>4. c \in [1 .. l -> nodes]
      BY <2>3, <3>2, <3>3 DEF ToSet
    <3> QED
      BY <3>4, SeqDef
  <2>7. \A n \in nodes : at[n] \in Nat
    BY <1>3, <2>4
  <2>8. \A n \in nodes : \A p \in edges[n] \cap nodes : at[p] < at[n]
    BY <1>7, <2>3
  <2>9. s = c
    BY <2>4, <2>5, <2>6, <2>7, <2>8, SortedUnique, Zenon
  <2> QED
    BY <2>3, <2>9
<1>10. PICK a \in Nat, b \in Nat : a = Len(plan) /\ b = Len(chains)
  BY <1>5
<1>11. ASSUME NEW k \in 1 .. a
       PROVE  \E i \in 1 .. b : plan[k] = chains[i]
  <2>1. PICK n \in Issues : n \in ToSet(plan[k])
    BY <1>6, <1>10
  <2>2. PICK i \in 1 .. b : n \in ToSet(chains[i])
    BY <1>2, <1>10 DEF Divides
  <2> QED
    BY <1>9, <1>10, <2>1, <2>2
<1>12. ASSUME NEW i \in 1 .. b
       PROVE  \E k \in 1 .. a : plan[k] = chains[i]
  <2>1. PICK n \in Issues : n \in ToSet(chains[i])
    BY <1>6, <1>10
  <2>2. PICK k \in 1 .. a : n \in ToSet(plan[k])
    BY <1>1, <1>10
  <2> QED
    BY <1>9, <1>10, <2>1, <2>2
<1>13. \A i, j \in 1 .. b : chains[i] = chains[j] => i = j
  <2>1. SUFFICES ASSUME NEW i \in 1 .. b, NEW j \in 1 .. b, chains[i] = chains[j]
                 PROVE  i = j
    OBVIOUS
  <2>2. ToSet(chains[i]) \cap ToSet(chains[j]) # {}
    BY <1>6, <1>10, <2>1
  <2> QED
    BY <1>2, <1>10, <2>2
<1> DEFINE f == [k \in 1 .. a |-> CHOOSE i \in 1 .. b : plan[k] = chains[i]]
<1>14. \A k \in 1 .. a : f[k] \in 1 .. b /\ plan[k] = chains[f[k]]
  BY <1>11
<1>15. f \in [1 .. a -> 1 .. b]
  BY <1>14
<1> HIDE DEF f
<1>16. ASSUME NEW k \in 1 .. a, NEW l \in 1 .. a, k < l
       PROVE  f[k] < f[l]
  <2>1. PICK i \in 1 .. b, j \in 1 .. b : i = f[k] /\ j = f[l] /\ plan[k] = chains[i] /\ plan[l] = chains[j]
    BY <1>14
  <2>2. PICK n \in ToSet(chains[i]) : \A m \in ToSet(chains[j]) : at[n] < at[m]
    BY <1>1, <1>10, <1>16, <2>1
  <2>3. PICK m \in ToSet(chains[j]) : TRUE
    BY <1>6, <1>10
  <2>4. at[n] < at[m] /\ at[n] \in Nat /\ at[m] \in Nat
    BY <1>3, <1>6, <1>10, <2>2, <2>3
  <2>5. ~(j < i)
    <3>1. SUFFICES ASSUME j < i
                   PROVE  FALSE
      OBVIOUS
    <3>2. at[m] < at[n]
      BY <1>2, <1>10, <2>2, <2>3, <3>1
    <3> QED
      BY <2>4, <3>2
  <2>6. j # i
    <3>1. SUFFICES ASSUME j = i
                   PROVE  FALSE
      OBVIOUS
    <3>2. at[n] < at[n]
      BY <2>2, <3>1
    <3> QED
      BY <2>4, <3>2
  <2> QED
    BY <2>1, <2>5, <2>6
<1>17. \A j \in 1 .. b : \E i \in 1 .. a : f[i] = j
  BY <1>12, <1>13, <1>14
<1>18. a = b /\ \A k \in 1 .. a : f[k] = k
  <2>1. Rising(f, a) /\ Onto(f, a, b)
    BY <1>16, <1>17 DEF Rising, Onto
  <2>2. PICK h \in [1 .. a -> 1 .. b] : h = f
    BY <1>15
  <2>3. a = b /\ \A i \in 1 .. a : h[i] = i
    BY <2>1, <2>2, GrowingOnto, Zenon
  <2> QED
    BY <2>2, <2>3
<1>19. \A k \in 1 .. a : plan[k] = chains[k]
  BY <1>14, <1>18
<1>20. plan \in [1 .. a -> Seq(Issues)] /\ chains \in [1 .. a -> Seq(Issues)]
  BY <1>1, <1>2, <1>10, <1>18, LenProperties DEF Divides
<1> QED
  BY <1>19, <1>20

(* ChainsAreRight for every division into chains and every acyclic edges:  *)
(* issues share a chain exactly when conflicts and edges link them, in it  *)
(* prerequisites come first and then the classifier's order, and edges     *)
(* that say nothing new change nothing.                                    *)
THEOREM ChainsRight == Spec => []ChainsAreRight
<1>1. Init => MergeInv
  BY MergeInvInductive
<1>2. MergeInv /\ [Next]_vars => MergeInv'
  BY MergeInvInductive
<1>3. MergeInv => ChainsAreRight
  BY MergeLinks, MergeOrders, MergeAdds DEF ChainsAreRight
<1> QED
  BY <1>1, <1>2, <1>3, PTL DEF Spec

=============================================================================
