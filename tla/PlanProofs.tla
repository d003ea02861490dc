------------------------------ MODULE PlanProofs -----------------------------
(***************************************************************************)
(* What the planning of a night computes, for every set of issues, edges,  *)
(* ranks and conflict chains.                                              *)
(*                                                                         *)
(* Induction is by the least number that would be a counterexample.        *)
(***************************************************************************)
EXTENDS PrereqPlan, TLAPS, SequenceTheorems, FiniteSetTheorems

-----------------------------------------------------------------------------
(* Numbers.                                                                *)

LEMMA LeastNat ==
  ASSUME NEW S, S \subseteq Nat, S # {}
  PROVE  \E n \in S : \A m \in S : n <= m
<1> DEFINE R == OpToRel(<, Nat)
<1>1. IsWellFoundedOn(R, Nat)
  BY NatLessThanWellFounded
<1>2. \A x, y \in Nat : <<x, y>> \in R <=> x < y
  BY DEF OpToRel
<1> HIDE DEF R
<1>3. PICK n \in S : \A m \in S : ~(<<m, n>> \in R)
  BY <1>1, WFMin
<1>4. ASSUME NEW m \in S
      PROVE  n <= m
  <2>1. m \in Nat /\ n \in Nat
    OBVIOUS
  <2>2. ~(m < n)
    BY <1>2, <1>3, <2>1
  <2> QED
    BY <2>1, <2>2
<1> QED
  BY <1>4

(* Repeating a step n times.                                               *)
Iterated(g, F, x, n) == g = [k \in 0 .. n |-> IF k = 0 THEN x ELSE F[g[k - 1]]]

LEMMA IteratesExist ==
  ASSUME NEW D, NEW F \in [D -> D], NEW x \in D, NEW n \in Nat
  PROVE  \E g \in [0 .. n -> D] : Iterated(g, F, x, n)
<1> DEFINE Bad == {m \in Nat : ~\E g \in [0 .. m -> D] : Iterated(g, F, x, m)}
<1>1. SUFFICES ASSUME Bad # {}
               PROVE  FALSE
  OBVIOUS
<1>2. PICK m \in Bad : \A k \in Bad : m <= k
  BY <1>1, LeastNat
<1>3. m # 0
  <2>1. [k \in 0 .. 0 |-> x] \in [0 .. 0 -> D] /\ Iterated([k \in 0 .. 0 |-> x], F, x, 0)
    BY DEF Iterated
  <2> QED
    BY <1>2, <2>1
<1>4. m - 1 \in Nat /\ m - 1 \notin Bad
  BY <1>2, <1>3
<1>5. PICK g \in [0 .. m - 1 -> D] : Iterated(g, F, x, m - 1)
  BY <1>4
<1> DEFINE h == [k \in 0 .. m |-> IF k = m THEN F[g[m - 1]] ELSE g[k]]
<1>6. h \in [0 .. m -> D]
  BY <1>2, <1>4
<1>7. Iterated(h, F, x, m)
  <2> DEFINE u == [k \in 0 .. m |-> IF k = 0 THEN x ELSE F[h[k - 1]]]
  <2>1. ASSUME NEW k \in 0 .. m
        PROVE  h[k] = u[k]
    <3>1. CASE k = 0
      BY <1>2, <1>3, <1>4, <1>5, <3>1 DEF Iterated
    <3>2. CASE k # 0 /\ k # m
      <4>1. k \in 0 .. m - 1 /\ k - 1 \in 0 .. m - 1 /\ k - 1 # m /\ k - 1 \in 0 .. m
        BY <1>2, <3>2
      <4>2. h[k] = g[k] /\ h[k - 1] = g[k - 1]
        BY <3>2, <4>1
      <4>3. g[k] = F[g[k - 1]]
        BY <1>5, <3>2, <4>1 DEF Iterated
      <4> QED
        BY <3>2, <4>2, <4>3
    <3>3. CASE k = m
      <4>1. m - 1 \in 0 .. m /\ m - 1 # m
        BY <1>2, <1>4
      <4> QED
        BY <1>3, <3>3, <4>1
    <3> QED
      BY <3>1, <3>2, <3>3
  <2>2. h = u
    BY <2>1
  <2> QED
    BY <2>2 DEF Iterated
<1> HIDE DEF h
<1> QED
  BY <1>2, <1>6, <1>7

-----------------------------------------------------------------------------
(* Reaching.                                                               *)

(* One round: what is there, and what follows from it.                     *)
Spread(N, next) == [X \in SUBSET N |-> X \cup UNION {next[n] : n \in X}]

LEMMA SpreadIs ==
  ASSUME NEW N, NEW next \in [N -> SUBSET N]
  PROVE  /\ Spread(N, next) \in [SUBSET N -> SUBSET N]
         /\ \A X \in SUBSET N : X \subseteq Spread(N, next)[X]
         /\ \A X \in SUBSET N : \A n \in X : next[n] \subseteq Spread(N, next)[X]
         /\ \A X, C \in SUBSET N :
              X \subseteq C /\ (\A n \in C : next[n] \subseteq C) => Spread(N, next)[X] \subseteq C
BY DEF Spread

(* Reached is as many rounds as there are nodes.                           *)
LEMMA ReachedByRounds ==
  ASSUME NEW N, IsFiniteSet(N), NEW start \in SUBSET N, NEW next \in [N -> SUBSET N]
  PROVE  \E g \in [0 .. Cardinality(N) -> SUBSET N] :
           /\ Iterated(g, Spread(N, next), start, Cardinality(N))
           /\ Reached(start, next) = g[Cardinality(N)]
<1> DEFINE size == Cardinality(N)
           Rounds(h) == h = [k \in 0 .. size |->
                               IF k = 0 THEN start
                               ELSE h[k - 1] \cup UNION {next[n] : n \in h[k - 1]}]
<1>1. size \in Nat /\ DOMAIN next = N
  BY FS_CardinalityType
<1>2. PICK g \in [0 .. size -> SUBSET N] : Iterated(g, Spread(N, next), start, size)
  <2>1. Spread(N, next) \in [SUBSET N -> SUBSET N]
    BY SpreadIs
  <2> QED
    BY <1>1, <2>1, IteratesExist, Zenon
<1>3. Rounds(g)
  <2> DEFINE u == [k \in 0 .. size |-> IF k = 0 THEN start
                                       ELSE g[k - 1] \cup UNION {next[n] : n \in g[k - 1]}]
  <2>1. ASSUME NEW k \in 0 .. size, k # 0
        PROVE  Spread(N, next)[g[k - 1]] = g[k - 1] \cup UNION {next[n] : n \in g[k - 1]}
    <3>1. k - 1 \in 0 .. size
      BY <1>1, <2>1
    <3>2. g[k - 1] \in SUBSET N
      BY <3>1
    <3> QED
      BY <3>2 DEF Spread
  <2>2. \A k \in 0 .. size : g[k] = u[k]
    BY <1>2, <2>1 DEF Iterated
  <2> QED
    BY <2>2
<1>4. PICK h : Rounds(h) /\ Reached(start, next) = h[size]
  BY <1>1, <1>3 DEF Reached
<1>5. \A k \in 0 .. size : h[k] = g[k]
  <2> DEFINE Bad == {k \in 0 .. size : h[k] # g[k]}
  <2>1. SUFFICES ASSUME Bad # {}
                 PROVE  FALSE
    OBVIOUS
  <2>2. Bad \subseteq Nat
    BY <1>1
  <2>3. PICK k \in Bad : \A j \in Bad : k <= j
    BY <2>1, <2>2, LeastNat
  <2>4. k # 0
    BY <1>1, <1>3, <1>4
  <2>5. k - 1 \in 0 .. size /\ k - 1 \notin Bad
    BY <1>1, <2>3, <2>4
  <2>6. h[k - 1] = g[k - 1]
    BY <2>5
  <2> QED
    BY <1>3, <1>4, <2>4, <2>6
<1>6. Reached(start, next) = g[size]
  BY <1>1, <1>4, <1>5
<1> QED
  BY <1>2, <1>6

(* As many rounds as there are nodes are enough, when none takes away.     *)
LEMMA RoundsSettle ==
  ASSUME NEW N, IsFiniteSet(N), NEW F \in [SUBSET N -> SUBSET N], NEW start \in SUBSET N,
         NEW g \in [0 .. Cardinality(N) -> SUBSET N], Iterated(g, F, start, Cardinality(N)),
         \A k \in 0 .. Cardinality(N) : g[k] \subseteq F[g[k]]
  PROVE  F[g[Cardinality(N)]] = g[Cardinality(N)]
<1> DEFINE size == Cardinality(N)
<1>1. size \in Nat
  BY FS_CardinalityType
<1>2. /\ \A k \in 0 .. size : k # 0 => k - 1 \in 0 .. size /\ g[k] = F[g[k - 1]]
      /\ \A k \in 0 .. size : g[k] \in SUBSET N
  <2>1. \A k \in 0 .. size : k # 0 => k - 1 \in 0 .. size
    BY <1>1
  <2>2. \A k \in 0 .. size : g[k] = IF k = 0 THEN start ELSE F[g[k - 1]]
    BY DEF Iterated
  <2>3. \A k \in 0 .. size : g[k] \in SUBSET N
    OBVIOUS
  <2> QED
    BY <2>1, <2>2, <2>3
<1> SUFFICES ASSUME F[g[size]] # g[size]
             PROVE  FALSE
  OBVIOUS
<1>3. \A j \in 0 .. size : F[g[size - j]] # g[size - j]
  <2> DEFINE Bad == {j \in 0 .. size : F[g[size - j]] = g[size - j]}
  <2>1. SUFFICES ASSUME Bad # {}
                 PROVE  FALSE
    OBVIOUS
  <2>2. PICK j \in Bad : \A i \in Bad : j <= i
    <3>1. Bad \subseteq Nat
      BY <1>1
    <3> QED
      BY <2>1, <3>1, LeastNat
  <2>3. j \in 0 .. size /\ j # 0
    BY <1>1, <2>2
  <2>4. j - 1 \in 0 .. size /\ j - 1 \notin Bad
    BY <1>1, <2>2, <2>3
  <2>5. PICK k \in 0 .. size : k = size - (j - 1)
    BY <1>1, <2>4
  <2>6. k # 0 /\ k - 1 = size - j
    BY <1>1, <2>3, <2>5
  <2>7. g[k] = F[g[k - 1]]
    BY <1>2, <2>5, <2>6
  <2>8. F[g[k - 1]] = g[k - 1]
    BY <2>2, <2>6
  <2>9. F[g[k]] = g[k]
    BY <2>7, <2>8
  <2> QED
    BY <2>4, <2>5, <2>9
<1>4. \A k \in 0 .. size : F[g[k]] # g[k]
  <2> TAKE k \in 0 .. size
  <2>1. PICK j \in 0 .. size : j = size - k
    BY <1>1
  <2>2. size - j = k
    BY <1>1, <2>1
  <2> QED
    BY <1>3, <2>2
<1>5. \A k \in 0 .. size : IsFiniteSet(g[k]) /\ Cardinality(g[k]) \in Nat
  BY <1>2, FS_Subset, FS_CardinalityType
<1>6. \A k \in 0 .. size : Cardinality(g[k]) >= k
  <2> DEFINE Bad == {k \in 0 .. size : ~(Cardinality(g[k]) >= k)}
  <2>1. SUFFICES ASSUME Bad # {}
                 PROVE  FALSE
    OBVIOUS
  <2>2. PICK k \in Bad : \A j \in Bad : k <= j
    <3>1. Bad \subseteq Nat
      BY <1>1
    <3> QED
      BY <2>1, <3>1, LeastNat
  <2>3. k \in 0 .. size /\ k # 0
    BY <1>1, <1>5, <2>2
  <2>4. k - 1 \in 0 .. size /\ k - 1 \notin Bad
    BY <1>1, <2>2, <2>3
  <2>5. Cardinality(g[k - 1]) >= k - 1
    BY <2>4
  <2>6. g[k - 1] \subseteq g[k] /\ g[k - 1] # g[k]
    BY <1>2, <1>4, <2>3, <2>4
  <2>7. Cardinality(g[k - 1]) <= Cardinality(g[k]) /\ Cardinality(g[k - 1]) # Cardinality(g[k])
    BY <1>5, <2>3, <2>6, FS_Subset
  <2> QED
    BY <1>5, <2>2, <2>3, <2>4, <2>5, <2>7
<1>7. Cardinality(g[size]) >= size /\ size \in 0 .. size
  BY <1>1, <1>6
<1>8. g[size] = N
  BY <1>1, <1>2, <1>5, <1>7, FS_Subset
<1>9. F[g[size]] \in SUBSET N /\ g[size] \subseteq F[g[size]]
  BY <1>2, <1>7
<1> QED
  BY <1>8, <1>9

(* Reached is the least set with the start that leads nowhere else.        *)
LEMMA ReachedIs ==
  ASSUME NEW N, IsFiniteSet(N), NEW start \in SUBSET N, NEW next \in [N -> SUBSET N]
  PROVE  /\ start \subseteq Reached(start, next)
         /\ Reached(start, next) \subseteq N
         /\ \A n \in Reached(start, next) : next[n] \subseteq Reached(start, next)
         /\ \A C \in SUBSET N : start \subseteq C /\ (\A n \in C : next[n] \subseteq C)
              => Reached(start, next) \subseteq C
<1> DEFINE size == Cardinality(N)
           F    == Spread(N, next)
<1>1. size \in Nat
  BY FS_CardinalityType
<1>2. PICK g \in [0 .. size -> SUBSET N] :
        Iterated(g, F, start, size) /\ Reached(start, next) = g[size]
  BY ReachedByRounds
<1> HIDE DEF F
<1>3. /\ g[0] = start
      /\ \A k \in 0 .. size : k # 0 => k - 1 \in 0 .. size /\ g[k] = F[g[k - 1]]
      /\ \A k \in 0 .. size : g[k] \in SUBSET N
  <2>1. 0 \in 0 .. size /\ \A k \in 0 .. size : k # 0 => k - 1 \in 0 .. size
    BY <1>1
  <2>2. \A k \in 0 .. size : g[k] = IF k = 0 THEN start ELSE F[g[k - 1]]
    BY <1>2 DEF Iterated
  <2>3. \A k \in 0 .. size : g[k] \in SUBSET N
    OBVIOUS
  <2> QED
    BY <2>1, <2>2, <2>3
<1>4. /\ \A X \in SUBSET N : F[X] \in SUBSET N /\ X \subseteq F[X]
      /\ \A X \in SUBSET N : \A n \in X : next[n] \subseteq F[X]
      /\ \A X, C \in SUBSET N : X \subseteq C /\ (\A n \in C : next[n] \subseteq C) => F[X] \subseteq C
  BY SpreadIs DEF F
<1>5. \A k \in 0 .. size : start \subseteq g[k]
  <2> DEFINE Bad == {k \in 0 .. size : ~(start \subseteq g[k])}
  <2>1. SUFFICES ASSUME Bad # {}
                 PROVE  FALSE
    OBVIOUS
  <2>2. PICK k \in Bad : \A j \in Bad : k <= j
    <3>1. Bad \subseteq Nat
      BY <1>1
    <3> QED
      BY <2>1, <3>1, LeastNat
  <2>3. k \in 0 .. size /\ k # 0
    BY <1>3, <2>2
  <2>4. k - 1 \in 0 .. size /\ k - 1 \notin Bad
    BY <1>1, <2>2, <2>3
  <2> QED
    BY <1>3, <1>4, <2>2, <2>3, <2>4
<1>6. F[g[size]] = g[size]
  <2>1. F \in [SUBSET N -> SUBSET N]
    BY SpreadIs DEF F
  <2>2. \A k \in 0 .. size : g[k] \subseteq F[g[k]]
    BY <1>3, <1>4
  <2> QED
    BY <1>2, <2>1, <2>2, RoundsSettle
<1>7. size \in 0 .. size
  BY <1>1
<1>8. ASSUME NEW C \in SUBSET N, start \subseteq C, \A n \in C : next[n] \subseteq C
      PROVE  g[size] \subseteq C
  <2> DEFINE Bad == {k \in 0 .. size : ~(g[k] \subseteq C)}
  <2>1. SUFFICES ASSUME Bad # {}
                 PROVE  FALSE
    BY <1>7
  <2>2. PICK k \in Bad : \A j \in Bad : k <= j
    <3>1. Bad \subseteq Nat
      BY <1>1
    <3> QED
      BY <2>1, <3>1, LeastNat
  <2>3. k \in 0 .. size /\ k # 0
    BY <1>3, <1>8, <2>2
  <2>4. k - 1 \in 0 .. size /\ k - 1 \notin Bad
    BY <1>1, <2>2, <2>3
  <2>5. g[k - 1] \subseteq C /\ g[k] = F[g[k - 1]] /\ g[k - 1] \in SUBSET N
    BY <1>3, <2>3, <2>4
  <2>6. F[g[k - 1]] \subseteq C
    BY <1>4, <1>8, <2>5
  <2> QED
    BY <2>2, <2>5, <2>6
<1>9. \A n \in g[size] : next[n] \subseteq g[size]
  BY <1>3, <1>4, <1>6, <1>7
<1> QED
  BY <1>2, <1>3, <1>5, <1>7, <1>8, <1>9

-----------------------------------------------------------------------------
(* Cycles.                                                                 *)

(* What is in no cycle has a rank above its prerequisites'.                *)
Ranked(nodes, pre, rank) ==
  /\ rank \in [nodes -> Nat]
  /\ \A n \in nodes : \A p \in pre[n] \cap nodes : rank[p] < rank[n]

LEMMA SettledIsRanked ==
  ASSUME NEW N, IsFiniteSet(N), NEW pre \in [N -> SUBSET N]
  PROVE  /\ CycleNodes(pre) \subseteq N
         /\ \E rank : Ranked(N \ CycleNodes(pre), pre, rank)
         /\ \A n \in N : n \in CycleNodes(pre) <=> pre[n] \cap CycleNodes(pre) # {}
<1> DEFINE size   == Cardinality(N)
           F      == [X \in SUBSET N |-> {n \in N : pre[n] \subseteq X}]
           Rounds(h) == h = [k \in 0 .. size |->
                               IF k = 0 THEN {} ELSE {n \in N : pre[n] \subseteq h[k - 1]}]
<1>1. size \in Nat /\ DOMAIN pre = N
  BY FS_CardinalityType
<1>2. PICK g \in [0 .. size -> SUBSET N] : Iterated(g, F, {}, size)
  <2>1. F \in [SUBSET N -> SUBSET N] /\ {} \in SUBSET N
    OBVIOUS
  <2> HIDE DEF F
  <2> QED
    BY <1>1, <2>1, IteratesExist, Zenon
<1>3. Rounds(g)
  <2> DEFINE u == [k \in 0 .. size |-> IF k = 0 THEN {} ELSE {n \in N : pre[n] \subseteq g[k - 1]}]
  <2>1. ASSUME NEW k \in 0 .. size, k # 0
        PROVE  F[g[k - 1]] = {n \in N : pre[n] \subseteq g[k - 1]}
    <3>1. k - 1 \in 0 .. size
      BY <1>1, <2>1
    <3>2. g[k - 1] \in SUBSET N
      BY <3>1
    <3> QED
      BY <3>2
  <2> HIDE DEF F
  <2>2. \A k \in 0 .. size : g[k] = u[k]
    BY <1>2, <2>1 DEF Iterated
  <2> QED
    BY <2>2
<1>4. PICK h : Rounds(h) /\ CycleNodes(pre) = N \ h[size]
  <2> DEFINE RoundsOf(h) == h = [k \in 0 .. Cardinality(DOMAIN pre) |->
                                   IF k = 0 THEN {}
                                   ELSE {n \in DOMAIN pre : pre[n] \subseteq h[k - 1]}]
  <2>1. \A h : RoundsOf(h) <=> Rounds(h)
    BY <1>1, Zenon
  <2>2. \E h : RoundsOf(h)
    <3> HIDE DEF RoundsOf, Rounds
    <3> QED
      BY <1>3, <2>1
  <2>3. PICK h : RoundsOf(h) /\ CycleNodes(pre) = DOMAIN pre \ h[Cardinality(DOMAIN pre)]
    BY <2>2 DEF CycleNodes
  <2> QED
    BY <1>1, <2>1, <2>3
<1> DEFINE S == N \ CycleNodes(pre)
           Rounded(n) == {k \in 0 .. size : n \in h[k]}
           rank == [n \in S |-> CHOOSE k \in Rounded(n) : \A j \in Rounded(n) : k <= j]
<1>5. ASSUME NEW n \in S
      PROVE  rank[n] \in Rounded(n) /\ \A j \in Rounded(n) : rank[n] <= j
  <2>1. size \in Rounded(n)
    BY <1>1, <1>4
  <2>2. Rounded(n) \subseteq Nat
    BY <1>1
  <2>3. \E k \in Rounded(n) : \A j \in Rounded(n) : k <= j
    BY <2>1, <2>2, LeastNat
  <2> QED
    BY <2>3
<1>6. ASSUME NEW n \in S, NEW p \in pre[n] \cap S
      PROVE  rank[p] < rank[n]
  <2>1. rank[n] \in 0 .. size /\ n \in h[rank[n]]
    BY <1>5
  <2>2. PICK k \in 0 .. size : k = rank[n]
    BY <2>1
  <2>3. n \in h[k]
    BY <2>1, <2>2
  <2>4. h[k] = IF k = 0 THEN {} ELSE {m \in N : pre[m] \subseteq h[k - 1]}
    BY <1>4
  <2>5. k # 0 /\ p \in h[k - 1] /\ k - 1 \in 0 .. size
    BY <1>1, <2>3, <2>4
  <2>6. k - 1 \in Rounded(p)
    BY <2>5
  <2>7. rank[p] \in 0 .. size /\ rank[p] <= k - 1
    BY <1>5, <2>6
  <2> QED
    BY <1>1, <2>2, <2>5, <2>7
<1>7. rank \in [S -> Nat]
  <2>1. \A n \in S : rank[n] \in Nat
    BY <1>1, <1>5
  <2> QED
    BY <2>1
<1> HIDE DEF rank, Rounded
<1>8. Ranked(S, pre, rank)
  BY <1>6, <1>7 DEF Ranked
<1>9. h \in [0 .. size -> SUBSET N] /\ Iterated(h, F, {}, size)
  <2>1. h \in [0 .. size -> SUBSET N]
    <3>1. \A k \in 0 .. size : h[k] \in SUBSET N
      BY <1>4
    <3>2. h = [k \in 0 .. size |-> h[k]]
      BY <1>4
    <3> QED
      BY <3>1, <3>2
  <2>2. \A k \in 0 .. size : h[k] = IF k = 0 THEN {} ELSE F[h[k - 1]]
    <3> TAKE k \in 0 .. size
    <3>1. h[k] = IF k = 0 THEN {} ELSE {n \in N : pre[n] \subseteq h[k - 1]}
      BY <1>4
    <3>2. k # 0 => h[k - 1] \in SUBSET N
      <4>1. k # 0 => k - 1 \in 0 .. size
        BY <1>1
      <4> QED
        BY <2>1, <4>1
    <3> QED
      BY <3>1, <3>2
  <2> HIDE DEF F
  <2>3. h = [k \in 0 .. size |-> IF k = 0 THEN {} ELSE F[h[k - 1]]]
    BY <2>1, <2>2
  <2> QED
    BY <2>1, <2>3 DEF Iterated
<1>10. F[h[size]] = h[size]
  <2>1. F \in [SUBSET N -> SUBSET N]
    OBVIOUS
  <2>2. \A X, Y \in SUBSET N : X \subseteq Y => F[X] \subseteq F[Y]
    OBVIOUS
  <2> HIDE DEF F
  <2>3. \A k \in 0 .. size : h[k] = IF k = 0 THEN {} ELSE F[h[k - 1]]
    BY <1>9 DEF Iterated
  <2>4. \A k \in 0 .. size : h[k] \subseteq F[h[k]]
    <3> DEFINE Bad == {k \in 0 .. size : ~(h[k] \subseteq F[h[k]])}
    <3>1. SUFFICES ASSUME Bad # {}
                   PROVE  FALSE
      OBVIOUS
    <3>2. PICK k \in Bad : \A j \in Bad : k <= j
      <4>1. Bad \subseteq Nat
        BY <1>1
      <4> QED
        BY <3>1, <4>1, LeastNat
    <3>3. k \in 0 .. size /\ k # 0
      BY <1>1, <2>3, <3>2
    <3>4. k - 1 \in 0 .. size /\ k - 1 \notin Bad
      BY <1>1, <3>2, <3>3
    <3>5. h[k - 1] \subseteq h[k] /\ h[k] = F[h[k - 1]]
      BY <2>3, <3>3, <3>4
    <3>6. h[k - 1] \in SUBSET N /\ h[k] \in SUBSET N
      BY <1>9, <3>3, <3>4
    <3> QED
      BY <2>2, <3>2, <3>5, <3>6
  <2>5. {} \in SUBSET N
    OBVIOUS
  <2> QED
    BY <1>9, <2>1, <2>4, <2>5, RoundsSettle
<1>11. \A n \in N : n \in CycleNodes(pre) <=> pre[n] \cap CycleNodes(pre) # {}
  <2>1. PICK X \in SUBSET N : X = h[size]
    BY <1>1, <1>9
  <2>2. CycleNodes(pre) = N \ X
    BY <1>4, <2>1, Zenon
  <2>4. X = {n \in N : pre[n] \subseteq X}
    <3>1. F[X] = X
      BY <1>10, <2>1
    <3> QED
      BY <3>1
  <2>3. \A n \in N : pre[n] \subseteq N
    OBVIOUS
  <2> QED
    BY <2>2, <2>3, <2>4
<1> QED
  BY <1>4, <1>8, <1>11

-----------------------------------------------------------------------------
(* Kahn's sort.                                                            *)

Before(n, m, key) == key[n] < key[m] \/ (key[n] = key[m] /\ n < m)

LEMMA FirstIs ==
  ASSUME NEW ready, ready \subseteq Nat, ready # {}, NEW key, \A n \in ready : key[n] \in Nat
  PROVE  First(ready, key) \in ready /\ \A m \in ready : ~Before(m, First(ready, key), key)
<1> DEFINE keys == {key[n] : n \in ready}
<1>1. PICK k \in keys : \A j \in keys : k <= j
  <2>1. keys # {} /\ keys \subseteq Nat
    OBVIOUS
  <2> QED
    BY <2>1, LeastNat
<1> DEFINE best == {n \in ready : key[n] = k}
<1>2. PICK n \in best : \A m \in best : n <= m
  <2>1. best # {} /\ best \subseteq Nat
    BY <1>1
  <2> QED
    BY <2>1, LeastNat
<1>3. \A m \in ready : key[n] < key[m] \/ (key[n] = key[m] /\ n <= m)
  <2> TAKE m \in ready
  <2>1. key[m] \in Nat /\ k \in Nat /\ k <= key[m] /\ key[n] = k
    BY <1>1, <1>2
  <2>2. CASE key[m] = k
    BY <1>2, <2>1, <2>2
  <2> QED
    BY <2>1, <2>2
<1>4. /\ First(ready, key) \in ready
      /\ \A m \in ready : \/ key[First(ready, key)] < key[m]
                          \/ key[First(ready, key)] = key[m] /\ First(ready, key) <= m
  BY <1>2, <1>3, Zenon DEF First
<1>5. ASSUME NEW m \in ready, NEW f \in ready, f = First(ready, key)
      PROVE  ~Before(m, f, key)
  <2>1. /\ key[m] \in Nat /\ key[f] \in Nat /\ m \in Nat /\ f \in Nat
        /\ key[f] < key[m] \/ (key[f] = key[m] /\ f <= m)
    BY <1>4, <1>5
  <2> QED
    BY <2>1 DEF Before
<1> QED
  BY <1>4, <1>5

(* A sequence of different nodes, each after its prerequisites, and each   *)
(* the first by key of those that were ready.                              *)
Different(s) == \A i, j \in 1 .. Len(s) : s[i] = s[j] => i = j

Among(s, i, n) == \E q \in 1 .. i - 1 : s[q] = n

InOrder(s, nodes, pre) ==
  \A i \in 1 .. Len(s) : \A p \in pre[s[i]] \cap nodes : Among(s, i, p)

ByKey(s, nodes, pre, key) ==
  \A i \in 1 .. Len(s), m \in nodes :
    ~Among(s, i, m) /\ (\A p \in pre[m] \cap nodes : Among(s, i, p)) => ~Before(m, s[i], key)

Sorted(s, nodes, pre, key) ==
  /\ s \in Seq(nodes)
  /\ Different(s)
  /\ InOrder(s, nodes, pre)
  /\ ByKey(s, nodes, pre, key)

Ready(nodes, pre, s) == {n \in nodes \ ToSet(s) : pre[n] \cap nodes \subseteq ToSet(s)}

Place(nodes, pre, key, s) ==
  IF Ready(nodes, pre, s) = {} THEN s ELSE Append(s, First(Ready(nodes, pre, s), key))

LEMMA PlaceSorted ==
  ASSUME NEW nodes, nodes \subseteq Nat, NEW pre, NEW key, \A n \in nodes : key[n] \in Nat,
         NEW s, Sorted(s, nodes, pre, key), Ready(nodes, pre, s) # {}
  PROVE  /\ Sorted(Place(nodes, pre, key, s), nodes, pre, key)
         /\ Len(Place(nodes, pre, key, s)) = Len(s) + 1
<1> DEFINE ready == Ready(nodes, pre, s)
           f     == First(ready, key)
           t     == Append(s, f)
<1>1. Place(nodes, pre, key, s) = t
  BY DEF Place
<1>2. f \in ready /\ \A m \in ready : ~Before(m, f, key)
  <2>1. ready \subseteq Nat /\ ready # {} /\ \A n \in ready : key[n] \in Nat
    BY DEF Ready
  <2> HIDE DEF ready
  <2> QED
    BY <2>1, FirstIs
<1> HIDE DEF f
<1>3. /\ f \in nodes /\ pre[f] \cap nodes \subseteq ToSet(s)
      /\ \A i \in 1 .. Len(s) : s[i] # f
  BY <1>2 DEF Ready, ToSet, Sorted
<1>4. /\ t \in Seq(nodes) /\ Len(t) = Len(s) + 1 /\ Len(s) \in Nat
      /\ \A i \in 1 .. Len(s) : t[i] = s[i]
      /\ t[Len(s) + 1] = f
  BY <1>3, AppendProperties DEF Sorted
<1> HIDE DEF t
<1>5. Different(t)
  <2> SUFFICES ASSUME NEW i \in 1 .. Len(s) + 1, NEW j \in 1 .. Len(s) + 1, t[i] = t[j]
               PROVE  i = j
    BY <1>4 DEF Different
  <2>1. CASE i \in 1 .. Len(s) /\ j \in 1 .. Len(s)
    BY <1>4, <2>1 DEF Sorted, Different
  <2>2. CASE i = Len(s) + 1 \/ j = Len(s) + 1
    BY <1>3, <1>4, <2>2
  <2> QED
    BY <1>4, <2>1, <2>2
<1>6. \A i \in 1 .. Len(s) : \A n : Among(t, i, n) <=> Among(s, i, n)
  <2> TAKE i \in 1 .. Len(s)
  <2> TAKE n
  <2>1. \A q \in 1 .. i - 1 : t[q] = s[q]
    BY <1>4
  <2> QED
    BY <2>1 DEF Among
<1>7. \A n : Among(t, Len(s) + 1, n) <=> n \in ToSet(s)
  <2>1. Len(s) + 1 - 1 = Len(s) /\ DOMAIN s = 1 .. Len(s)
    BY <1>4 DEF Sorted
  <2> QED
    BY <1>4, <2>1 DEF Among, ToSet
<1>8. InOrder(t, nodes, pre)
  <2> SUFFICES ASSUME NEW i \in 1 .. Len(s) + 1, NEW p \in pre[t[i]] \cap nodes
               PROVE  Among(t, i, p)
    BY <1>4 DEF InOrder
  <2>1. CASE i \in 1 .. Len(s)
    BY <1>4, <1>6, <2>1 DEF Sorted, InOrder
  <2>2. CASE i = Len(s) + 1
    BY <1>3, <1>4, <1>7, <2>2
  <2> QED
    BY <1>4, <2>1, <2>2
<1>9. ByKey(t, nodes, pre, key)
  <2> SUFFICES ASSUME NEW i \in 1 .. Len(s) + 1, NEW m \in nodes, ~Among(t, i, m),
                      \A p \in pre[m] \cap nodes : Among(t, i, p)
               PROVE  ~Before(m, t[i], key)
    BY <1>4 DEF ByKey
  <2>1. CASE i \in 1 .. Len(s)
    BY <1>4, <1>6, <2>1 DEF Sorted, ByKey
  <2>2. CASE i = Len(s) + 1
    <3>1. m \in ready
      BY <1>7, <2>2 DEF Ready
    <3> QED
      BY <1>2, <1>4, <2>2, <3>1
  <2> QED
    BY <1>4, <2>1, <2>2
<1> QED
  BY <1>1, <1>4, <1>5, <1>8, <1>9 DEF Sorted

LEMMA DifferentLen ==
  ASSUME NEW S, NEW s \in Seq(S), Different(s)
  PROVE  IsFiniteSet(ToSet(s)) /\ Cardinality(ToSet(s)) = Len(s)
<1>1. Len(s) \in Nat /\ DOMAIN s = 1 .. Len(s)
  BY LenProperties
<1>2. s \in Bijection(1 .. Len(s), ToSet(s))
  <2>1. s \in [1 .. Len(s) -> ToSet(s)] /\ IsInjective(s)
    BY <1>1, LenProperties DEF ToSet, Different, IsInjective
  <2>2. \A t \in ToSet(s) : \E i \in 1 .. Len(s) : s[i] = t
    BY <1>1 DEF ToSet
  <2> QED
    BY <2>1, <2>2 DEF Bijection, Injection, Surjection
<1>3. ExistsBijection(1 .. Len(s), ToSet(s))
  BY <1>2 DEF ExistsBijection
<1> QED
  BY <1>1, <1>3, FS_CountingElements, FS_NatBijection

LEMMA TopoOrderIs ==
  ASSUME NEW nodes, nodes \subseteq Nat, IsFiniteSet(nodes), NEW pre,
         NEW key, \A n \in nodes : key[n] \in Nat, NEW rank, Ranked(nodes, pre, rank)
  PROVE  /\ Sorted(TopoOrder(nodes, pre, key), nodes, pre, key)
         /\ ToSet(TopoOrder(nodes, pre, key)) = nodes
         /\ Len(TopoOrder(nodes, pre, key)) = Cardinality(nodes)
<1> DEFINE size == Cardinality(nodes)
           F    == [s \in Seq(nodes) |-> Place(nodes, pre, key, s)]
           Rounds(h) == h = [k \in 0 .. size |->
                               IF k = 0 THEN << >>
                               ELSE LET ready == {n \in nodes \ ToSet(h[k - 1]) :
                                                    pre[n] \cap nodes \subseteq ToSet(h[k - 1])}
                                    IN  IF ready = {} THEN h[k - 1]
                                        ELSE Append(h[k - 1], First(ready, key))]
<1>1. size \in Nat
  BY FS_CardinalityType
<1>2. PICK g \in [0 .. size -> Seq(nodes)] : Iterated(g, F, << >>, size)
  <2>1. ASSUME NEW s \in Seq(nodes)
        PROVE  Place(nodes, pre, key, s) \in Seq(nodes)
    <3>1. CASE Ready(nodes, pre, s) = {}
      BY <3>1 DEF Place
    <3>2. CASE Ready(nodes, pre, s) # {}
      <4> DEFINE ready == Ready(nodes, pre, s)
      <4>1. ready \subseteq nodes /\ ready \subseteq Nat /\ ready # {} /\ \A n \in ready : key[n] \in Nat
        BY <3>2 DEF Ready
      <4> HIDE DEF ready
      <4>2. First(ready, key) \in nodes
        BY <4>1, FirstIs
      <4> QED
        BY <3>2, <4>2, AppendProperties DEF Place, ready
    <3> QED
      BY <3>1, <3>2
  <2>2. F \in [Seq(nodes) -> Seq(nodes)] /\ << >> \in Seq(nodes)
    BY <2>1
  <2> HIDE DEF F
  <2> QED
    BY <1>1, <2>2, IteratesExist, Zenon
<1>3. \A k \in 0 .. size : g[k] = IF k = 0 THEN << >> ELSE Place(nodes, pre, key, g[k - 1])
  <2> TAKE k \in 0 .. size
  <2>1. g[k] = IF k = 0 THEN << >> ELSE F[g[k - 1]]
    BY <1>2 DEF Iterated
  <2>2. CASE k # 0
    <3>1. k - 1 \in 0 .. size
      BY <1>1, <2>2
    <3>2. g[k - 1] \in Seq(nodes)
      BY <3>1
    <3> QED
      BY <2>1, <2>2, <3>2
  <2> QED
    BY <2>1, <2>2
<1>4. Rounds(g)
  <2> DEFINE u == [k \in 0 .. size |->
                     IF k = 0 THEN << >>
                     ELSE LET ready == {n \in nodes \ ToSet(g[k - 1]) :
                                          pre[n] \cap nodes \subseteq ToSet(g[k - 1])}
                          IN  IF ready = {} THEN g[k - 1]
                              ELSE Append(g[k - 1], First(ready, key))]
  <2>1. \A k \in 0 .. size : g[k] = u[k]
    BY <1>3, Zenon DEF Place, Ready
  <2> QED
    BY <2>1
<1>5. PICK h : Rounds(h) /\ TopoOrder(nodes, pre, key) = h[size]
  <2>1. \E h : Rounds(h)
    BY <1>4, Zenon
  <2> QED
    BY <2>1, Zenon DEF TopoOrder
<1>6. \A k \in 0 .. size : h[k] = IF k = 0 THEN << >> ELSE Place(nodes, pre, key, h[k - 1])
  BY <1>5, Zenon DEF Place, Ready
<1> HIDE DEF F, Rounds
<1>7. \A k \in 0 .. size : Sorted(h[k], nodes, pre, key) /\ Len(h[k]) = k
  <2> DEFINE Bad == {k \in 0 .. size : ~(Sorted(h[k], nodes, pre, key) /\ Len(h[k]) = k)}
  <2>1. SUFFICES ASSUME Bad # {}
                 PROVE  FALSE
    OBVIOUS
  <2>2. PICK k \in Bad : \A j \in Bad : k <= j
    <3>1. Bad \subseteq Nat
      BY <1>1
    <3> QED
      BY <2>1, <3>1, LeastNat
  <2>3. k \in 0 .. size /\ k # 0
    <3>1. h[0] = << >>
      BY <1>1, <1>6
    <3>2. Sorted(<< >>, nodes, pre, key) /\ Len(<< >>) = 0
      BY DEF Sorted, Different, InOrder, ByKey
    <3> QED
      BY <2>2, <3>1, <3>2
  <2>4. k - 1 \in 0 .. size /\ k - 1 \notin Bad
    BY <1>1, <2>2, <2>3
  <2>5. PICK s : s = h[k - 1]
    OBVIOUS
  <2>6. /\ Sorted(s, nodes, pre, key) /\ Len(s) = k - 1
        /\ h[k] = Place(nodes, pre, key, s)
    BY <1>6, <2>3, <2>4, <2>5
  <2>7. /\ s \in Seq(nodes) /\ IsFiniteSet(ToSet(s)) /\ Cardinality(ToSet(s)) = k - 1
        /\ ToSet(s) \subseteq nodes
    BY <2>6, DifferentLen DEF Sorted, ToSet
  <2>8. nodes \ ToSet(s) # {}
    BY <1>1, <2>3, <2>7
  <2>9. Ready(nodes, pre, s) # {}
    <3> DEFINE ranks == {rank[n] : n \in nodes \ ToSet(s)}
    <3>1. ranks # {} /\ ranks \subseteq Nat
      BY <2>8 DEF Ranked
    <3>2. PICK r \in ranks : \A q \in ranks : r <= q
      BY <3>1, LeastNat
    <3>3. PICK n \in nodes \ ToSet(s) : rank[n] = r
      BY <3>2
    <3>4. ASSUME NEW p \in pre[n] \cap nodes
          PROVE  p \in ToSet(s)
      <4>1. rank[p] < r /\ rank[p] \in Nat /\ r \in Nat
        BY <3>3 DEF Ranked
      <4>2. SUFFICES ASSUME p \notin ToSet(s)
                     PROVE  FALSE
        OBVIOUS
      <4>3. rank[p] \in ranks
        BY <4>2
      <4>4. r <= rank[p]
        BY <3>2, <4>3
      <4> QED
        BY <4>1, <4>4
    <3>5. n \in Ready(nodes, pre, s)
      BY <3>3, <3>4 DEF Ready
    <3> QED
      BY <3>5
  <2>10. /\ Sorted(Place(nodes, pre, key, s), nodes, pre, key)
         /\ Len(Place(nodes, pre, key, s)) = Len(s) + 1
    BY <2>6, <2>9, PlaceSorted
  <2>11. k - 1 + 1 = k
    BY <1>1, <2>3
  <2> QED
    BY <2>2, <2>6, <2>10, <2>11
<1>8. Sorted(h[size], nodes, pre, key) /\ Len(h[size]) = size
  BY <1>1, <1>7
<1>9. ToSet(h[size]) = nodes
  <2>1. PICK s : s = h[size]
    OBVIOUS
  <2>2. s \in Seq(nodes) /\ Different(s) /\ Len(s) = size
    BY <1>8, <2>1 DEF Sorted
  <2>3. ToSet(s) \subseteq nodes /\ Cardinality(ToSet(s)) = size
    BY <2>2, DifferentLen DEF ToSet
  <2> QED
    BY <1>1, <2>1, <2>3, FS_Subset
<1> QED
  BY <1>5, <1>8, <1>9

-----------------------------------------------------------------------------
(* Flattening and sorting.                                                 *)

LEMMA ConcatToSet ==
  ASSUME NEW S, NEW s \in Seq(S), NEW t \in Seq(S)
  PROVE  s \o t \in Seq(S) /\ ToSet(s \o t) = ToSet(s) \cup ToSet(t)
<1>1. /\ s \o t \in Seq(S) /\ Len(s \o t) = Len(s) + Len(t)
      /\ \A i \in 1 .. Len(s) + Len(t) : (s \o t)[i] = IF i <= Len(s) THEN s[i] ELSE t[i - Len(s)]
  BY ConcatProperties
<1>2. /\ Len(s) \in Nat /\ Len(t) \in Nat /\ DOMAIN s = 1 .. Len(s) /\ DOMAIN t = 1 .. Len(t)
      /\ DOMAIN (s \o t) = 1 .. Len(s) + Len(t)
  BY <1>1, LenProperties
<1>3. \A x \in ToSet(s \o t) : x \in ToSet(s) \cup ToSet(t)
  <2> TAKE x \in ToSet(s \o t)
  <2>1. PICK i \in 1 .. Len(s) + Len(t) : x = (s \o t)[i]
    BY <1>2 DEF ToSet
  <2>2. CASE i <= Len(s)
    <3>1. i \in DOMAIN s /\ x = s[i]
      BY <1>1, <1>2, <2>1, <2>2
    <3> QED
      BY <3>1 DEF ToSet
  <2>3. CASE ~(i <= Len(s))
    <3>1. i - Len(s) \in DOMAIN t /\ x = t[i - Len(s)]
      BY <1>1, <1>2, <2>1, <2>3
    <3> QED
      BY <3>1 DEF ToSet
  <2> QED
    BY <2>2, <2>3
<1>4. \A x \in ToSet(s) : x \in ToSet(s \o t)
  <2> TAKE x \in ToSet(s)
  <2>1. PICK i \in 1 .. Len(s) : x = s[i]
    BY <1>2 DEF ToSet
  <2>2. i \in 1 .. Len(s) + Len(t) /\ (s \o t)[i] = x
    BY <1>1, <1>2, <2>1
  <2> QED
    BY <1>2, <2>2 DEF ToSet
<1>5. \A x \in ToSet(t) : x \in ToSet(s \o t)
  <2> TAKE x \in ToSet(t)
  <2>1. PICK j \in 1 .. Len(t) : x = t[j]
    BY <1>2 DEF ToSet
  <2>2. PICK i \in 1 .. Len(s) + Len(t) : i = Len(s) + j /\ ~(i <= Len(s)) /\ i - Len(s) = j
    BY <1>2
  <2>3. (s \o t)[i] = x
    BY <1>1, <2>1, <2>2
  <2> QED
    BY <1>2, <2>3 DEF ToSet
<1> QED
  BY <1>1, <1>3, <1>4, <1>5

LEMMA ConcatDifferent ==
  ASSUME NEW A, NEW s \in Seq(A), NEW t \in Seq(A), Different(s), Different(t),
         ToSet(s) \cap ToSet(t) = {}
  PROVE  Different(s \o t)
<1>1. /\ Len(s) \in Nat /\ Len(t) \in Nat /\ Len(s \o t) = Len(s) + Len(t)
      /\ DOMAIN s = 1 .. Len(s) /\ DOMAIN t = 1 .. Len(t)
      /\ \A i \in 1 .. Len(s) + Len(t) : (s \o t)[i] = IF i <= Len(s) THEN s[i] ELSE t[i - Len(s)]
  BY ConcatProperties, LenProperties
<1>2. PICK r : r = s \o t
  OBVIOUS
<1>3. PICK a \in Nat, b \in Nat : a = Len(s) /\ b = Len(t)
  BY <1>1
<1>4. /\ \A i \in 1 .. a : r[i] = s[i] /\ s[i] \in ToSet(s)
      /\ \A i \in 1 .. a + b : i > a => i - a \in 1 .. b /\ r[i] = t[i - a] /\ t[i - a] \in ToSet(t)
  <2>1. \A i \in 1 .. a : i \in 1 .. a + b /\ i <= a
    OBVIOUS
  <2>2. \A i \in 1 .. a + b : i > a => i - a \in 1 .. b /\ ~(i <= a)
    OBVIOUS
  <2> QED
    BY <1>1, <1>2, <1>3, <2>1, <2>2 DEF ToSet
<1>5. ASSUME NEW i \in 1 .. a + b, NEW j \in 1 .. a + b, r[i] = r[j]
      PROVE  i = j
  <2>1. CASE i <= a /\ j <= a
    <3>1. i \in 1 .. a /\ j \in 1 .. a
      BY <2>1
    <3> QED
      BY <1>3, <1>4, <1>5, <3>1 DEF Different
  <2>2. CASE i > a /\ j > a
    <3>1. i - a \in 1 .. b /\ j - a \in 1 .. b /\ t[i - a] = t[j - a]
      BY <1>4, <1>5, <2>2
    <3>2. i - a = j - a
      BY <1>3, <3>1 DEF Different
    <3> QED
      BY <3>2
  <2>3. CASE i <= a /\ j > a
    <3>1. i \in 1 .. a
      BY <2>3
    <3> QED
      BY <1>4, <1>5, <2>3, <3>1
  <2>4. CASE i > a /\ j <= a
    <3>1. j \in 1 .. a
      BY <2>4
    <3> QED
      BY <1>4, <1>5, <2>4, <3>1
  <2> QED
    BY <2>1, <2>2, <2>3, <2>4
<1> QED
  BY <1>1, <1>2, <1>3, <1>5 DEF Different

(* Flattening appends one part after the other.                            *)
LEMMA FlattenJoins ==
  ASSUME NEW A, NEW s \in Seq(Seq(A)), s # << >>
  PROVE  \E f \in [1 .. Len(s) -> Seq(A)] :
           /\ f[1] = s[1]
           /\ \A i \in 1 .. Len(s) : i # 1 => i - 1 \in 1 .. Len(s) /\ f[i] = f[i - 1] \o s[i]
           /\ FlattenSeq(s) = f[Len(s)]
<1>1. Len(s) \in Nat /\ Len(s) # 0 /\ \A i \in 1 .. Len(s) : s[i] \in Seq(A)
  BY LenProperties, ElementOfSeq, EmptySeq
<1>2. PICK len \in Nat \ {0} : len = Len(s)
  BY <1>1
<1> DEFINE Joined(f, m) == f = [i \in 1 .. m |-> IF i = 1 THEN s[i] ELSE f[i - 1] \o s[i]]
           Good(f, m) == Joined(f, m) /\ \A i \in 1 .. m : f[i] \in Seq(A)
           Bad == {m \in 1 .. len : ~\E f : Good(f, m)}
<1>3. Bad = {}
  <2>1. SUFFICES ASSUME Bad # {}
                 PROVE  FALSE
    OBVIOUS
  <2>2. PICK m \in Bad : \A j \in Bad : m <= j
    <3>1. Bad \subseteq 1 .. len /\ 1 .. len \subseteq Nat
      <4> HIDE DEF Good
      <4> QED
        BY <1>2
    <3> QED
      BY <2>1, <3>1, LeastNat
  <2>3. m \in 1 .. len
    BY <2>2
  <2>4. CASE m = 1
    <3> DEFINE f == [i \in 1 .. 1 |-> s[1]]
    <3>1. Joined(f, 1)
      <4> DEFINE u == [i \in 1 .. 1 |-> IF i = 1 THEN s[i] ELSE f[i - 1] \o s[i]]
      <4>1. \A i \in 1 .. 1 : f[i] = u[i]
        OBVIOUS
      <4> QED
        BY <4>1
    <3>2. f[1] \in Seq(A)
      BY <1>1, <1>2, <2>3, <2>4
    <3>3. \A i \in 1 .. 1 : i = 1
      OBVIOUS
    <3> HIDE DEF f, Joined
    <3>4. Good(f, m)
      BY <2>4, <3>1, <3>2, <3>3
    <3> QED
      BY <2>2, <3>4
  <2>5. CASE m # 1
    <3>1. m - 1 \in 1 .. len /\ m - 1 \in Nat /\ m \in Nat /\ ~(m <= m - 1)
      BY <1>2, <2>3, <2>5
    <3>2. m - 1 \notin Bad
      <4> HIDE DEF Bad
      <4> QED
        BY <2>2, <3>1
    <3>3. PICK g : Good(g, m - 1)
      BY <3>1, <3>2
    <3> DEFINE f == [i \in 1 .. m |-> IF i = m THEN g[m - 1] \o s[m] ELSE g[i]]
    <3>4. \A i \in 1 .. m - 1 : i \in 1 .. m /\ f[i] = g[i]
      BY <3>1
    <3>5. f[m] = g[m - 1] \o s[m] /\ f[m - 1] = g[m - 1] /\ m - 1 \in 1 .. m - 1
      <4>1. m \in 1 .. m /\ m - 1 \in 1 .. m - 1
        BY <2>3, <2>5, <3>1
      <4> QED
        BY <3>4, <4>1
    <3>6. Joined(f, m)
      <4> DEFINE u == [i \in 1 .. m |-> IF i = 1 THEN s[i] ELSE f[i - 1] \o s[i]]
      <4>1. ASSUME NEW i \in 1 .. m
            PROVE  f[i] = u[i]
        <5>1. CASE i = m
          BY <2>5, <3>5, <5>1
        <5>2. CASE i = 1
          <6>1. 1 \in 1 .. m - 1 /\ g[1] = s[1]
            BY <2>5, <3>1, <3>3
          <6> QED
            BY <3>4, <5>2, <6>1
        <5>3. CASE i # m /\ i # 1
          <6>1. i \in 1 .. m - 1 /\ i - 1 \in 1 .. m - 1
            BY <3>1, <5>3
          <6>2. g[i] = g[i - 1] \o s[i]
            BY <3>3, <5>3, <6>1
          <6> QED
            BY <3>4, <5>3, <6>1, <6>2
        <5> QED
          BY <5>1, <5>2, <5>3
      <4>2. f = u
        BY <4>1
      <4> QED
        BY <4>2
    <3> HIDE DEF f
    <3>7. g[m - 1] \in Seq(A) /\ s[m] \in Seq(A)
      BY <1>1, <1>2, <2>3, <3>3, <3>5
    <3>8. f[m] \in Seq(A)
      BY <3>5, <3>7, ConcatToSet
    <3>9. \A i \in 1 .. m : f[i] \in Seq(A)
      <4> TAKE i \in 1 .. m
      <4>1. CASE i = m
        BY <3>8, <4>1
      <4>2. CASE i # m
        <5>1. i \in 1 .. m - 1
          BY <3>1, <4>2
        <5> QED
          BY <3>3, <3>4, <5>1
      <4> QED
        BY <4>1, <4>2
    <3>10. Good(f, m)
      BY <3>6, <3>9
    <3> QED
      BY <2>2, <3>10
  <2> QED
    BY <2>4, <2>5
<1>4. len \in 1 .. len
  BY <1>2
<1>5. PICK f : Good(f, len)
  BY <1>3, <1>4
<1>6. PICK h : Joined(h, len) /\ FlattenSeq(s) = h[len]
  BY <1>1, <1>2, <1>5, Zenon DEF FlattenSeq
<1>7. \A i \in 1 .. len : h[i] = f[i]
  <2> DEFINE Off == {i \in 1 .. len : h[i] # f[i]}
  <2>1. SUFFICES ASSUME Off # {}
                 PROVE  FALSE
    OBVIOUS
  <2>2. PICK i \in Off : \A j \in Off : i <= j
    <3>1. Off \subseteq Nat
      BY <1>2
    <3> QED
      BY <2>1, <3>1, LeastNat
  <2>3. i # 1
    BY <1>5, <1>6, <2>2
  <2>4. i \in 1 .. len /\ i - 1 \in 1 .. len /\ i \in Nat /\ ~(i <= i - 1)
    BY <1>2, <2>2, <2>3
  <2>5. i - 1 \notin Off
    <3> HIDE DEF Off
    <3> QED
      BY <2>2, <2>4
  <2>6. h[i - 1] = f[i - 1] /\ h[i] = h[i - 1] \o s[i] /\ f[i] = f[i - 1] \o s[i]
    BY <1>5, <1>6, <2>3, <2>4, <2>5
  <2> QED
    BY <2>2, <2>6
<1>8. f \in [1 .. len -> Seq(A)]
  <2>1. f = [i \in 1 .. len |-> f[i]]
    BY <1>5
  <2> QED
    BY <1>5, <2>1
<1>9. /\ 1 \in 1 .. len /\ f[1] = s[1]
      /\ \A i \in 1 .. len : i # 1 => i - 1 \in 1 .. len /\ f[i] = f[i - 1] \o s[i]
  <2>1. 1 \in 1 .. len /\ \A i \in 1 .. len : i # 1 => i - 1 \in 1 .. len
    BY <1>2
  <2> QED
    BY <1>5, <2>1
<1> QED
  BY <1>2, <1>4, <1>6, <1>7, <1>8, <1>9

LEMMA FlattenIs ==
  ASSUME NEW A, NEW s \in Seq(Seq(A))
  PROVE  /\ FlattenSeq(s) \in Seq(A)
         /\ ToSet(FlattenSeq(s)) = UNION {ToSet(s[i]) : i \in 1 .. Len(s)}
<1>1. Len(s) \in Nat /\ \A i \in 1 .. Len(s) : s[i] \in Seq(A)
  BY LenProperties, ElementOfSeq
<1>2. CASE s = << >>
  <2>1. Len(s) = 0 /\ FlattenSeq(s) = << >>
    BY <1>2, EmptySeq DEF FlattenSeq
  <2> QED
    BY <2>1 DEF ToSet
<1>3. CASE s # << >>
  <2>1. PICK f \in [1 .. Len(s) -> Seq(A)] :
          /\ f[1] = s[1]
          /\ \A i \in 1 .. Len(s) : i # 1 => i - 1 \in 1 .. Len(s) /\ f[i] = f[i - 1] \o s[i]
          /\ FlattenSeq(s) = f[Len(s)]
    BY <1>3, FlattenJoins
  <2>2. PICK len \in Nat \ {0} : len = Len(s)
    BY <1>1, <1>3, EmptySeq
  <2> DEFINE Union(m) == UNION {ToSet(s[i]) : i \in 1 .. m}
             Bad == {m \in 1 .. len : ToSet(f[m]) # Union(m)}
  <2>3. Bad = {}
    <3>1. SUFFICES ASSUME Bad # {}
                   PROVE  FALSE
      OBVIOUS
    <3>2. PICK m \in Bad : \A j \in Bad : m <= j
      <4>1. Bad \subseteq Nat
        BY <2>2
      <4> QED
        BY <3>1, <4>1, LeastNat
    <3>3. m # 1
      <4>1. Union(1) = ToSet(s[1])
        OBVIOUS
      <4> QED
        BY <2>1, <3>2, <4>1
    <3>4. m \in 1 .. len /\ m - 1 \in 1 .. len /\ m \in Nat /\ ~(m <= m - 1)
      BY <2>2, <3>2, <3>3
    <3>5. m - 1 \notin Bad
      <4> HIDE DEF Bad
      <4> QED
        BY <3>2, <3>4
    <3>6. ToSet(f[m - 1]) = Union(m - 1) /\ f[m - 1] \in Seq(A) /\ s[m] \in Seq(A)
      BY <1>1, <2>1, <2>2, <3>4, <3>5
    <3>7. f[m] = f[m - 1] \o s[m]
      BY <2>1, <2>2, <3>3, <3>4
    <3>8. ToSet(f[m]) = Union(m - 1) \cup ToSet(s[m])
      BY <3>6, <3>7, ConcatToSet
    <3>9. Union(m - 1) \cup ToSet(s[m]) = Union(m)
      <4>1. 1 .. m = (1 .. m - 1) \cup {m}
        BY <2>2, <3>4
      <4> QED
        BY <4>1
    <3> QED
      BY <3>2, <3>8, <3>9
  <2>4. len \in 1 .. len
    BY <2>2
  <2>5. ToSet(f[len]) = Union(len) /\ f[len] \in Seq(A)
    BY <2>1, <2>2, <2>3, <2>4
  <2> QED
    BY <2>1, <2>2, <2>5
<1> QED
  BY <1>2, <1>3

LEMMA FlattenDifferent ==
  ASSUME NEW A, NEW s \in Seq(Seq(A)), \A i \in 1 .. Len(s) : Different(s[i]),
         \A i, j \in 1 .. Len(s) : ToSet(s[i]) \cap ToSet(s[j]) # {} => i = j
  PROVE  Different(FlattenSeq(s))
<1>1. Len(s) \in Nat /\ \A i \in 1 .. Len(s) : s[i] \in Seq(A)
  BY LenProperties, ElementOfSeq
<1>2. CASE s = << >>
  <2>1. FlattenSeq(s) = << >> /\ Len(<< >>) = 0
    BY <1>2, EmptySeq DEF FlattenSeq
  <2> QED
    BY <2>1 DEF Different
<1>3. CASE s # << >>
  <2>1. PICK f \in [1 .. Len(s) -> Seq(A)] :
          /\ f[1] = s[1]
          /\ \A i \in 1 .. Len(s) : i # 1 => i - 1 \in 1 .. Len(s) /\ f[i] = f[i - 1] \o s[i]
          /\ FlattenSeq(s) = f[Len(s)]
    BY <1>3, FlattenJoins
  <2>2. PICK len \in Nat \ {0} : len = Len(s)
    BY <1>1, <1>3, EmptySeq
  <2> DEFINE Union(m) == UNION {ToSet(s[i]) : i \in 1 .. m}
             Good(m)  == ToSet(f[m]) = Union(m) /\ Different(f[m])
             Bad == {m \in 1 .. len : ~Good(m)}
  <2>3. Bad = {}
    <3>1. SUFFICES ASSUME Bad # {}
                   PROVE  FALSE
      OBVIOUS
    <3>2. PICK m \in Bad : \A j \in Bad : m <= j
      <4>1. Bad \subseteq Nat
        BY <2>2
      <4> HIDE DEF Bad
      <4> QED
        BY <3>1, <4>1, LeastNat
    <3>3. m # 1
      <4>1. Union(1) = ToSet(s[1]) /\ 1 \in 1 .. Len(s)
        BY <2>2
      <4>2. Good(1)
        BY <2>1, <4>1
      <4> QED
        BY <3>2, <4>2
    <3>4. m \in 1 .. len /\ m - 1 \in 1 .. len /\ m \in Nat /\ ~(m <= m - 1)
      BY <2>2, <3>2, <3>3
    <3>5. m - 1 \notin Bad
      <4> HIDE DEF Bad
      <4> QED
        BY <3>2, <3>4
    <3>6. /\ ToSet(f[m - 1]) = Union(m - 1) /\ Different(f[m - 1])
          /\ f[m - 1] \in Seq(A) /\ s[m] \in Seq(A) /\ Different(s[m])
      BY <1>1, <2>1, <2>2, <3>4, <3>5
    <3>7. f[m] = f[m - 1] \o s[m]
      BY <2>1, <2>2, <3>3, <3>4
    <3>8. ToSet(f[m]) = Union(m - 1) \cup ToSet(s[m])
      BY <3>6, <3>7, ConcatToSet
    <3>9. Union(m - 1) \cup ToSet(s[m]) = Union(m)
      <4>1. 1 .. m = (1 .. m - 1) \cup {m}
        BY <2>2, <3>4
      <4> QED
        BY <4>1
    <3>10. ToSet(f[m - 1]) \cap ToSet(s[m]) = {}
      <4>1. SUFFICES ASSUME NEW x \in Union(m - 1), x \in ToSet(s[m])
                     PROVE  FALSE
        BY <3>6
      <4>2. PICK i \in 1 .. m - 1 : x \in ToSet(s[i])
        BY <4>1
      <4>3. i \in 1 .. Len(s) /\ m \in 1 .. Len(s) /\ i # m
        BY <2>2, <3>4
      <4> QED
        BY <4>1, <4>2, <4>3
    <3>11. Different(f[m - 1] \o s[m])
      BY <3>6, <3>10, ConcatDifferent
    <3>12. Good(m)
      BY <3>7, <3>8, <3>9, <3>11
    <3> QED
      BY <3>2, <3>12
  <2>4. len \in 1 .. len
    BY <2>2
  <2>5. Good(len)
    BY <2>3, <2>4
  <2> QED
    BY <2>1, <2>2, <2>5
<1> QED
  BY <1>2, <1>3

(* The keys of a finite set, when they differ, number its elements.        *)
LEMMA SortByKeyIs ==
  ASSUME NEW S, IsFiniteSet(S), NEW key, \A x \in S : key[x] \in Int,
         \A x, y \in S : key[x] = key[y] => x = y
  PROVE  LET o == SortByKey(S, key)
         IN  /\ o \in Seq(S) /\ Len(o) = Cardinality(S)
             /\ Different(o)
             /\ ToSet(o) = S
             /\ \A i, j \in 1 .. Len(o) : i < j => key[o[i]] < key[o[j]]
<1> DEFINE size == Cardinality(S)
           Below(x) == {y \in S : key[y] < key[x]}
           place == [x \in S |-> Cardinality(Below(x))]
           o == SortByKey(S, key)
<1>1. size \in Nat
  BY FS_CardinalityType
<1>2. \A x \in S : IsFiniteSet(Below(x)) /\ place[x] \in Nat
  <2>1. \A x \in S : Below(x) \in SUBSET S
    OBVIOUS
  <2> QED
    BY <2>1, FS_Subset, FS_CardinalityType
<1>3. ASSUME NEW x \in S, NEW y \in S, key[x] < key[y]
      PROVE  place[x] < place[y]
  <2>1. Below(x) \in SUBSET Below(y)
    BY <1>3
  <2>2. x \in Below(y) /\ x \notin Below(x)
    BY <1>3
  <2> HIDE DEF Below
  <2>3. Cardinality(Below(x)) <= Cardinality(Below(y)) /\ Cardinality(Below(x)) # Cardinality(Below(y))
    BY <1>2, <2>1, <2>2, FS_Subset
  <2> QED
    BY <1>2, <2>3
<1>4. \A x \in S : place[x] \in 0 .. size - 1
  <2> TAKE x \in S
  <2>1. Below(x) \in SUBSET S /\ x \notin Below(x)
    OBVIOUS
  <2> HIDE DEF Below
  <2>2. Cardinality(Below(x)) <= size /\ Cardinality(Below(x)) # size
    BY <2>1, FS_Subset
  <2> QED
    BY <1>1, <1>2, <2>2
<1> HIDE DEF place, Below
<1>0. \A x \in S : place[x] \in Nat
  BY <1>2
<1>5. ASSUME NEW x \in S, NEW y \in S, place[x] = place[y]
      PROVE  x = y
  <2>1. ~(key[x] < key[y]) /\ ~(key[y] < key[x])
    BY <1>0, <1>3, <1>5
  <2>2. key[x] \in Int /\ key[y] \in Int
    OBVIOUS
  <2> QED
    BY <2>1, <2>2
<1>6. \A i \in 0 .. size - 1 : \E x \in S : place[x] = i
  <2>1. place \in [S -> 0 .. size - 1]
    <3>1. place = [x \in S |-> Cardinality(Below(x))]
      BY DEF place
    <3> QED
      BY <1>4, <3>1
  <2>2. place \in Injection(S, 0 .. size - 1)
    BY <1>5, <2>1 DEF Injection, IsInjective
  <2>3. IsFiniteSet(0 .. size - 1) /\ Cardinality(0 .. size - 1) = size
    BY <1>1, FS_Interval
  <2>4. place \in Surjection(S, 0 .. size - 1)
    BY <2>2, <2>3, FS_Injection
  <2> QED
    BY <2>4 DEF Surjection
<1>7. \A i \in 1 .. size : o[i] \in S /\ place[o[i]] = i - 1
  <2> TAKE i \in 1 .. size
  <2>1. i - 1 \in 0 .. size - 1
    BY <1>1
  <2>2. PICK x \in S : place[x] = i - 1
    BY <1>6, <2>1
  <2>3. \A y \in S : place[y] = Cardinality({z \in S : key[z] < key[y]})
    BY DEF place, Below
  <2>4. o[i] = CHOOSE y \in S : Cardinality({z \in S : key[z] < key[y]}) = i - 1
    BY DEF SortByKey
  <2>5. Cardinality({z \in S : key[z] < key[x]}) = i - 1
    BY <2>2, <2>3
  <2>6. o[i] \in S /\ Cardinality({z \in S : key[z] < key[o[i]]}) = i - 1
    BY <2>4, <2>5, Zenon
  <2> QED
    BY <2>3, <2>6
<1>8. o \in Seq(S) /\ Len(o) = size /\ DOMAIN o = 1 .. size
  <2> DEFINE at(i) == CHOOSE x \in S : Cardinality({y \in S : key[y] < key[x]}) = i - 1
  <2>0. o = [i \in 1 .. size |-> at(i)]
    BY Zenon DEF SortByKey
  <2> HIDE DEF at, o
  <2>1. o = [i \in 1 .. size |-> o[i]]
    BY <2>0
  <2>2. o \in [1 .. size -> S]
    BY <1>7, <2>1
  <2>3. o \in Seq(S)
    BY <1>1, <2>2, SeqDef
  <2>4. DOMAIN o = 1 .. size /\ DOMAIN o = 1 .. Len(o) /\ Len(o) \in Nat
    BY <2>2, <2>3, LenProperties
  <2>5. Len(o) = size
    BY <1>1, <2>4
  <2> QED
    BY <2>3, <2>4, <2>5
<1> HIDE DEF o
<1>9. Different(o)
  BY <1>1, <1>7, <1>8 DEF Different
<1>10. ToSet(o) = S
  <2>1. \A x \in S : x \in ToSet(o)
    <3> TAKE x \in S
    <3>1. PICK i \in 1 .. size : i = place[x] + 1 /\ i - 1 = place[x]
      BY <1>1, <1>4
    <3>2. o[i] = x
      BY <1>5, <1>7, <3>1
    <3> QED
      BY <1>8, <3>2 DEF ToSet
  <2> QED
    BY <1>7, <1>8, <2>1 DEF ToSet
<1>11. ASSUME NEW i \in 1 .. Len(o), NEW j \in 1 .. Len(o), i < j
       PROVE  key[o[i]] < key[o[j]]
  <2>1. PICK x \in S, y \in S : x = o[i] /\ y = o[j]
    BY <1>7, <1>8
  <2>2. place[x] < place[y]
    BY <1>1, <1>7, <1>8, <1>11, <2>1
  <2>3. x # y /\ ~(key[y] < key[x])
    BY <1>0, <1>3, <2>2
  <2>4. key[x] # key[y] /\ key[x] \in Int /\ key[y] \in Int
    BY <2>3
  <2> QED
    BY <2>1, <2>3, <2>4
<1> QED
  BY <1>8, <1>9, <1>10, <1>11 DEF o

-----------------------------------------------------------------------------
(* planPrereqs.                                                            *)

(* The prerequisites of the selected issues among themselves, and the      *)
(* issues that cannot ship whatever becomes of the others.                 *)
PreOf(selected, deps) == [n \in selected |-> InSet(selected, deps[n])]

DirectOf(selected, deps, inFlight) ==
  {n \in selected : \/ Blocked(selected, deps[n], inFlight)
                    \/ Unstackable(selected, deps[n], inFlight)}

LEMMA CascadeIs ==
  ASSUME NEW N, IsFiniteSet(N), NEW pre \in [N -> SUBSET N], NEW start \in SUBSET N
  PROVE  /\ start \subseteq Cascade(pre, start)
         /\ Cascade(pre, start) \subseteq N
         /\ \A n \in N : pre[n] \cap Cascade(pre, start) # {} => n \in Cascade(pre, start)
         /\ \A C \in SUBSET N : start \subseteq C /\ (\A n \in N : pre[n] \cap C # {} => n \in C)
              => Cascade(pre, start) \subseteq C
<1> DEFINE next == [n \in N |-> {m \in N : n \in pre[m]}]
<1>1. Cascade(pre, start) = Reached(start, next)
  BY DEF Cascade
<1>2. next \in [N -> SUBSET N]
  OBVIOUS
<1>3. \A n \in N : next[n] = {m \in N : n \in pre[m]}
  OBVIOUS
<1> HIDE DEF next
<1>4. /\ start \subseteq Reached(start, next)
      /\ Reached(start, next) \subseteq N
      /\ \A n \in Reached(start, next) : next[n] \subseteq Reached(start, next)
      /\ \A C \in SUBSET N : start \subseteq C /\ (\A n \in C : next[n] \subseteq C)
           => Reached(start, next) \subseteq C
  BY <1>2, ReachedIs
<1>5. ASSUME NEW n \in N, pre[n] \cap Cascade(pre, start) # {}
      PROVE  n \in Cascade(pre, start)
  <2>1. PICK p \in pre[n] : p \in Cascade(pre, start)
    BY <1>5
  <2>2. p \in N /\ n \in next[p]
    BY <1>3, <2>1
  <2> QED
    BY <1>1, <1>4, <2>1, <2>2
<1>6. ASSUME NEW C \in SUBSET N, start \subseteq C, \A n \in N : pre[n] \cap C # {} => n \in C
      PROVE  Cascade(pre, start) \subseteq C
  <2>1. \A n \in C : next[n] \subseteq C
    BY <1>3, <1>6
  <2> QED
    BY <1>1, <1>4, <1>6, <2>1
<1> QED
  BY <1>1, <1>4, <1>5, <1>6

(* The right plan of a night.  The deferred issues are the least set that  *)
(* holds what cannot ship and what needs one of them; the others come in   *)
(* an order, each after its prerequisites, which all ship; an issue with a *)
(* candidate base is stacked on one.                                       *)
RightPlan(plan, selected, deps, inFlight, rank) ==
  LET pre   == PreOf(selected, deps)
      stuck == DirectOf(selected, deps, inFlight) \cup CycleNodes(pre)
      ships == selected \ plan.deferred
  IN  /\ stuck \subseteq plan.deferred
      /\ plan.deferred \subseteq selected
      /\ \A n \in selected : pre[n] \cap plan.deferred # {} => n \in plan.deferred
      /\ \A C \in SUBSET selected :
           stuck \subseteq C /\ (\A n \in selected : pre[n] \cap C # {} => n \in C)
             => plan.deferred \subseteq C
      /\ Sorted(plan.shippable, ships, pre, rank)
      /\ ToSet(plan.shippable) = ships
      /\ Len(plan.shippable) = Cardinality(ships)
      /\ plan.prereqs = [n \in ships |-> pre[n]]
      /\ \A n \in ships : pre[n] \subseteq ships
      /\ \E order : Ranked(ships, pre, order)
      /\ DOMAIN plan.stackBases = {n \in ships : Bases(selected, deps[n], inFlight) # {}}
      /\ \A n \in DOMAIN plan.stackBases :
           plan.stackBases[n] \in Bases(selected, deps[n], inFlight)

(* planPrereqs is right for any selection, edges, in-flight states and     *)
(* ranks.                                                                  *)
THEOREM PlanPrereqsIs ==
  ASSUME NEW selected, selected \subseteq Nat, IsFiniteSet(selected), NEW deps, NEW inFlight,
         NEW rank, \A n \in selected : rank[n] \in Nat
  PROVE  RightPlan(PlanPrereqs(selected, deps, inFlight, rank), selected, deps, inFlight, rank)
<1> DEFINE plan     == PlanPrereqs(selected, deps, inFlight, rank)
           pre      == PreOf(selected, deps)
           cyclic   == CycleNodes(pre)
           direct   == DirectOf(selected, deps, inFlight)
           deferred == Cascade(pre, direct \cup cyclic)
           ships    == selected \ deferred
           bases(n) == Bases(selected, deps[n], inFlight)
           stacked  == {n \in ships : bases(n) # {}}
<1>1. /\ plan.deferred = deferred
      /\ plan.shippable = TopoOrder(ships, pre, rank)
      /\ plan.prereqs = [n \in ships |-> pre[n] \cap ships]
      /\ plan.stackBases = [n \in stacked |-> CHOOSE p \in bases(n) : TRUE]
  BY Zenon DEF PlanPrereqs, PreOf, DirectOf
<1>2. pre \in [selected -> SUBSET selected]
  BY DEF PreOf, InSet
<1>3. direct \subseteq selected /\ cyclic \subseteq selected
  BY <1>2, SettledIsRanked DEF DirectOf
<1> HIDE DEF plan, pre, cyclic, direct
<1>4. /\ direct \cup cyclic \subseteq deferred
      /\ deferred \subseteq selected
      /\ \A n \in selected : pre[n] \cap deferred # {} => n \in deferred
      /\ \A C \in SUBSET selected :
           direct \cup cyclic \subseteq C /\ (\A n \in selected : pre[n] \cap C # {} => n \in C)
             => deferred \subseteq C
  <2>1. PICK start \in SUBSET selected : start = direct \cup cyclic
    BY <1>3
  <2>2. IsFiniteSet(selected)
    OBVIOUS
  <2>3. /\ start \subseteq Cascade(pre, start)
        /\ Cascade(pre, start) \subseteq selected
        /\ \A n \in selected : pre[n] \cap Cascade(pre, start) # {} => n \in Cascade(pre, start)
        /\ \A C \in SUBSET selected :
             start \subseteq C /\ (\A n \in selected : pre[n] \cap C # {} => n \in C)
               => Cascade(pre, start) \subseteq C
    BY <1>2, <2>2, CascadeIs, Zenon
  <2> QED
    BY <2>1, <2>3, Zenon
<1> HIDE DEF deferred
<1>5. \A n \in ships : pre[n] \subseteq ships
  BY <1>2, <1>4
<1>6. PICK order : Ranked(ships, pre, order)
  <2>1. PICK order : Ranked(selected \ cyclic, pre, order)
    BY <1>2, SettledIsRanked DEF cyclic
  <2>2. ships \subseteq selected \ cyclic
    BY <1>4
  <2>3. Ranked(ships, pre, [n \in ships |-> order[n]])
    BY <2>1, <2>2 DEF Ranked
  <2> QED
    BY <2>3
<1>7. /\ Sorted(plan.shippable, ships, pre, rank)
      /\ ToSet(plan.shippable) = ships
      /\ Len(plan.shippable) = Cardinality(ships)
  <2>1. ships \subseteq Nat /\ IsFiniteSet(ships) /\ \A n \in ships : rank[n] \in Nat
    BY FS_Subset
  <2> HIDE DEF ships
  <2>2. PICK s : s = TopoOrder(ships, pre, rank)
    OBVIOUS
  <2>3. Ranked(ships, pre, order)
    BY <1>6
  <2>4. Sorted(s, ships, pre, rank) /\ ToSet(s) = ships /\ Len(s) = Cardinality(ships)
    BY <2>1, <2>2, <2>3, TopoOrderIs
  <2>5. plan.shippable = s
    BY <1>1, <2>2
  <2> QED
    BY <2>4, <2>5
<1>8. plan.prereqs = [n \in ships |-> pre[n]]
  <2>1. \A n \in ships : pre[n] \cap ships = pre[n]
    BY <1>5
  <2> QED
    BY <1>1, <2>1
<1>9. /\ DOMAIN plan.stackBases = stacked
      /\ \A n \in stacked : plan.stackBases[n] \in bases(n)
  <2>1. \A n \in stacked : plan.stackBases[n] = CHOOSE p \in bases(n) : TRUE
    BY <1>1
  <2>2. \A n \in stacked : bases(n) # {}
    OBVIOUS
  <2> HIDE DEF bases, stacked
  <2> QED
    BY <1>1, <2>1, <2>2
<1> QED
  BY <1>1, <1>4, <1>5, <1>6, <1>7, <1>8, <1>9, Zenon DEF RightPlan, plan, pre, cyclic, direct

-----------------------------------------------------------------------------
(* mergeGraphs.                                                            *)

(* The classifier's chains over nodes: no two share an issue.              *)
Divides(chains, nodes) ==
  /\ chains \in Seq(Seq(nodes))
  /\ UNION {ToSet(chains[i]) : i \in 1 .. Len(chains)} = nodes
  /\ \A i, j \in 1 .. Len(chains) :
       ToSet(chains[i]) \cap ToSet(chains[j]) # {} => chains[i] = chains[j]

(* The place of an issue in the classifier's output.                       *)
Positions(chains) ==
  LET all == FlattenSeq(chains)
  IN  [n \in ToSet(all) |-> CHOOSE i \in DOMAIN all : all[i] = n]

(* A set that no conflict chain and no edge leads out of or into.          *)
Linkless(C, nodes, chains, prereqs) ==
  \A n \in C : /\ \A i \in 1 .. Len(chains) : n \in ToSet(chains[i]) => ToSet(chains[i]) \subseteq C
               /\ \A m \in nodes : m \in prereqs[n] \/ n \in prereqs[m] => m \in C

United(nodes, chains, prereqs) ==
  [n \in nodes |-> ToSet(ChainOf(chains, n)) \cup {m \in nodes : m \in prereqs[n] \/ n \in prereqs[m]}]

LEMMA ChainOfIs ==
  ASSUME NEW N, NEW chains, Divides(chains, N), NEW n \in N
  PROVE  /\ n \in ToSet(ChainOf(chains, n))
         /\ ToSet(ChainOf(chains, n)) \subseteq N
         /\ \A i \in 1 .. Len(chains) : n \in ToSet(chains[i]) => chains[i] = ChainOf(chains, n)
<1>1. Len(chains) \in Nat /\ DOMAIN chains = 1 .. Len(chains)
  BY LenProperties DEF Divides
<1>2. PICK i \in 1 .. Len(chains) : n \in ToSet(chains[i])
  BY DEF Divides
<1>3. chains[i] \in ToSet(chains)
  BY <1>1 DEF ToSet
<1>4. ChainOf(chains, n) \in ToSet(chains) /\ n \in ToSet(ChainOf(chains, n))
  BY <1>2, <1>3, Zenon DEF ChainOf
<1>5. PICK j \in 1 .. Len(chains) : ChainOf(chains, n) = chains[j]
  BY <1>1, <1>4 DEF ToSet
<1>6. ASSUME NEW k \in 1 .. Len(chains), n \in ToSet(chains[k])
      PROVE  chains[k] = chains[j]
  <2>1. ToSet(chains[k]) \cap ToSet(chains[j]) # {}
    BY <1>4, <1>5, <1>6
  <2> QED
    BY <2>1 DEF Divides
<1>7. ToSet(chains[j]) \subseteq N
  BY DEF Divides
<1> QED
  BY <1>4, <1>5, <1>6, <1>7

LEMMA UnitedIs ==
  ASSUME NEW N, NEW chains, Divides(chains, N), NEW prereqs
  PROVE  /\ United(N, chains, prereqs) \in [N -> SUBSET N]
         /\ \A n, m \in N : m \in United(N, chains, prereqs)[n] => n \in United(N, chains, prereqs)[m]
         /\ \A C \in SUBSET N :
              Linkless(C, N, chains, prereqs) <=> \A n \in C : United(N, chains, prereqs)[n] \subseteq C
<1> DEFINE next == United(N, chains, prereqs)
<1>1. \A n \in N : next[n] = ToSet(ChainOf(chains, n))
                               \cup {m \in N : m \in prereqs[n] \/ n \in prereqs[m]}
  BY DEF United
<1>2. next \in [N -> SUBSET N]
  BY ChainOfIs DEF United
<1> HIDE DEF next
<1>3. ASSUME NEW n \in N
      PROVE  /\ \E i \in 1 .. Len(chains) : chains[i] = ChainOf(chains, n)
             /\ n \in ToSet(ChainOf(chains, n))
             /\ \A i \in 1 .. Len(chains) : n \in ToSet(chains[i]) => chains[i] = ChainOf(chains, n)
  <2>1. PICK i \in 1 .. Len(chains) : n \in ToSet(chains[i])
    BY DEF Divides
  <2> QED
    BY <2>1, ChainOfIs
<1>4. ASSUME NEW n \in N, NEW m \in N, m \in next[n]
      PROVE  n \in next[m]
  <2>1. CASE m \in ToSet(ChainOf(chains, n))
    <3>1. PICK i \in 1 .. Len(chains) : chains[i] = ChainOf(chains, n)
      BY <1>3
    <3>2. chains[i] = ChainOf(chains, m)
      BY <1>3, <2>1, <3>1
    <3>3. n \in ToSet(ChainOf(chains, m))
      BY <1>3, <3>1, <3>2
    <3> QED
      BY <1>1, <3>3
  <2>2. CASE m \in prereqs[n] \/ n \in prereqs[m]
    BY <1>1, <2>2
  <2> QED
    BY <1>1, <1>4, <2>1, <2>2
<1>5. ASSUME NEW C \in SUBSET N, Linkless(C, N, chains, prereqs), NEW n \in C
      PROVE  next[n] \subseteq C
  <2>1. PICK i \in 1 .. Len(chains) : chains[i] = ChainOf(chains, n)
    BY <1>3
  <2>2. ToSet(ChainOf(chains, n)) \subseteq C
    BY <1>3, <1>5, <2>1 DEF Linkless
  <2>3. {m \in N : m \in prereqs[n] \/ n \in prereqs[m]} \subseteq C
    BY <1>5 DEF Linkless
  <2> QED
    BY <1>1, <2>2, <2>3
<1>6. ASSUME NEW C \in SUBSET N, \A n \in C : next[n] \subseteq C
      PROVE  Linkless(C, N, chains, prereqs)
  <2> SUFFICES ASSUME NEW n \in C
               PROVE  /\ \A i \in 1 .. Len(chains) : n \in ToSet(chains[i]) => ToSet(chains[i]) \subseteq C
                      /\ \A m \in N : m \in prereqs[n] \/ n \in prereqs[m] => m \in C
    BY DEF Linkless
  <2>1. ToSet(ChainOf(chains, n)) \cup {m \in N : m \in prereqs[n] \/ n \in prereqs[m]} \subseteq C
    BY <1>1, <1>6
  <2>2. \A i \in 1 .. Len(chains) : n \in ToSet(chains[i]) => ToSet(chains[i]) \subseteq C
    BY <1>3, <2>1
  <2> QED
    BY <2>1, <2>2
<1> QED
  BY <1>2, <1>4, <1>5, <1>6 DEF next

(* The components divide the issues, and nothing links two of them.        *)
LEMMA ComponentIs ==
  ASSUME NEW N, IsFiniteSet(N), NEW chains, Divides(chains, N), NEW prereqs
  PROVE  /\ \A n \in N : /\ n \in Component(chains, prereqs, n)
                         /\ Component(chains, prereqs, n) \subseteq N
                         /\ Linkless(Component(chains, prereqs, n), N, chains, prereqs)
                         /\ \A C \in SUBSET N : n \in C /\ Linkless(C, N, chains, prereqs)
                              => Component(chains, prereqs, n) \subseteq C
         /\ \A n, m \in N : m \in Component(chains, prereqs, n)
              => Component(chains, prereqs, m) = Component(chains, prereqs, n)
<1> DEFINE next == United(N, chains, prereqs)
           of(n) == Component(chains, prereqs, n)
<1>1. ToSet(FlattenSeq(chains)) = N
  BY FlattenIs, Zenon DEF Divides
<1>2. \A n \in N : of(n) = Reached({n}, next)
  BY <1>1, Zenon DEF Component, United
<1>3. /\ next \in [N -> SUBSET N]
      /\ \A n, m \in N : m \in next[n] => n \in next[m]
      /\ \A C \in SUBSET N : Linkless(C, N, chains, prereqs) <=> \A n \in C : next[n] \subseteq C
  BY UnitedIs
<1> HIDE DEF next
<1>4. ASSUME NEW n \in N
      PROVE  /\ n \in of(n)
             /\ of(n) \subseteq N
             /\ \A m \in of(n) : next[m] \subseteq of(n)
             /\ \A C \in SUBSET N : n \in C /\ (\A m \in C : next[m] \subseteq C) => of(n) \subseteq C
  <2>1. PICK start \in SUBSET N : start = {n}
    OBVIOUS
  <2>2. /\ start \subseteq Reached(start, next)
        /\ Reached(start, next) \subseteq N
        /\ \A m \in Reached(start, next) : next[m] \subseteq Reached(start, next)
        /\ \A C \in SUBSET N : start \subseteq C /\ (\A m \in C : next[m] \subseteq C)
             => Reached(start, next) \subseteq C
    BY <1>3, ReachedIs
  <2>3. of(n) = Reached(start, next)
    BY <1>2, <2>1
  <2> HIDE DEF of
  <2> QED
    BY <2>1, <2>2, <2>3
<1> HIDE DEF of
<1>5. ASSUME NEW n \in N, NEW m \in N, m \in of(n)
      PROVE  of(m) = of(n)
  <2>1. of(m) \subseteq of(n)
    BY <1>4, <1>5
  <2>2. n \in of(m)
    <3>1. SUFFICES ASSUME n \notin of(m)
                   PROVE  FALSE
      OBVIOUS
    <3> DEFINE C == N \ of(m)
    <3>2. ASSUME NEW k \in C, NEW j \in next[k]
          PROVE  j \in C
      <4>1. j \in N
        BY <1>3
      <4>2. k \in next[j]
        BY <1>3, <4>1
      <4>3. SUFFICES ASSUME j \in of(m)
                     PROVE  FALSE
        BY <4>1
      <4>4. next[j] \subseteq of(m)
        BY <1>4, <4>3
      <4> QED
        BY <4>2, <4>4
    <3>3. of(n) \subseteq C
      <4>1. C \in SUBSET N /\ n \in C /\ \A k \in C : next[k] \subseteq C
        BY <3>1, <3>2
      <4> HIDE DEF C
      <4> QED
        BY <1>4, <4>1
    <3> QED
      BY <1>4, <1>5, <3>3
  <2>3. of(n) \subseteq of(m)
    BY <1>4, <2>2
  <2> QED
    BY <2>1, <2>3
<1>6. \A n \in N : Linkless(of(n), N, chains, prereqs)
  BY <1>3, <1>4
<1>7. \A n \in N : \A C \in SUBSET N : n \in C /\ Linkless(C, N, chains, prereqs) => of(n) \subseteq C
  BY <1>3, <1>4
<1> QED
  BY <1>4, <1>5, <1>6, <1>7 DEF of

LEMMA PositionsIs ==
  ASSUME NEW N, NEW chains, Divides(chains, N)
  PROVE  /\ Positions(chains) \in [N -> Nat]
         /\ \A n, m \in N : Positions(chains)[n] = Positions(chains)[m] => n = m
<1> DEFINE all == FlattenSeq(chains)
           at == Positions(chains)
<1>1. all \in Seq(N) /\ ToSet(all) = N
  BY FlattenIs, Zenon DEF Divides
<1>2. at = [n \in ToSet(all) |-> CHOOSE i \in DOMAIN all : all[i] = n]
  BY DEF Positions
<1> HIDE DEF at, all
<1>3. \A n \in N : at[n] \in DOMAIN all /\ all[at[n]] = n
  <2> TAKE n \in N
  <2>1. at[n] = CHOOSE i \in DOMAIN all : all[i] = n
    BY <1>1, <1>2
  <2>2. \E i \in DOMAIN all : all[i] = n
    BY <1>1 DEF ToSet
  <2> QED
    BY <2>1, <2>2, Zenon
<1>4. DOMAIN all \subseteq Nat
  BY <1>1, LenProperties
<1>5. at \in [N -> Nat]
  <2>1. at = [n \in N |-> at[n]]
    BY <1>1, <1>2
  <2> QED
    BY <1>3, <1>4, <2>1
<1>6. \A n, m \in N : at[n] = at[m] => n = m
  BY <1>3
<1> QED
  BY <1>5, <1>6 DEF at

(* The right chains of a night, for a division of its issues by the        *)
(* classifier.  Two issues share a chain exactly when conflicts and edges  *)
(* link them; in it prerequisites come first, then what the classifier put *)
(* first; and the chains come by their first members.                      *)
RightChains(merged, N, chains, prereqs) ==
  LET at == Positions(chains)
  IN  /\ merged \in Seq(Seq(N))
      /\ \A i \in 1 .. Len(merged) :
           /\ merged[i] # << >>
           /\ Sorted(merged[i], ToSet(merged[i]), prereqs, at)
           /\ Linkless(ToSet(merged[i]), N, chains, prereqs)
           /\ \A C \in SUBSET N :
                Linkless(C, N, chains, prereqs) /\ C \cap ToSet(merged[i]) # {}
                  => ToSet(merged[i]) \subseteq C
      /\ UNION {ToSet(merged[i]) : i \in 1 .. Len(merged)} = N
      /\ \A i, j \in 1 .. Len(merged) :
           ToSet(merged[i]) \cap ToSet(merged[j]) # {} => i = j
      /\ \A i, j \in 1 .. Len(merged) :
           i < j => \E n \in ToSet(merged[i]) : \A m \in ToSet(merged[j]) : at[n] < at[m]

(* mergeGraphs is right for any division and any edges without a cycle.    *)
THEOREM MergeGraphsIs ==
  ASSUME NEW N, N \subseteq Nat, IsFiniteSet(N), NEW chains, Divides(chains, N),
         NEW prereqs, NEW rank, Ranked(N, prereqs, rank)
  PROVE  RightChains(MergeGraphs(chains, prereqs), N, chains, prereqs)
<1> DEFINE merged == MergeGraphs(chains, prereqs)
           at == Positions(chains)
           of(n) == Component(chains, prereqs, n)
           components == {of(n) : n \in N}
           Start(c) == CHOOSE i \in {at[n] : n \in c} : \A n \in c : i <= at[n]
           start == [c \in components |-> Start(c)]
           ordered == SortByKey(components, start)
<1>1. ToSet(FlattenSeq(chains)) = N
  BY FlattenIs, Zenon DEF Divides
<1>2. merged = [i \in DOMAIN ordered |-> TopoOrder(ordered[i], prereqs, at)]
  BY <1>1, Zenon DEF MergeGraphs, Positions
<1>3. /\ at \in [N -> Nat]
      /\ \A n, m \in N : at[n] = at[m] => n = m
  BY PositionsIs
<1>4. \A n \in N : /\ n \in of(n)
                   /\ of(n) \subseteq N
                   /\ Linkless(of(n), N, chains, prereqs)
                   /\ \A C \in SUBSET N : n \in C /\ Linkless(C, N, chains, prereqs) => of(n) \subseteq C
  BY ComponentIs
<1>5. \A n, m \in N : m \in of(n) => of(m) = of(n)
  BY ComponentIs
<1> HIDE DEF of, at, merged
<1>6. IsFiniteSet(components)
  <2>1. components \in SUBSET (SUBSET N) /\ IsFiniteSet(SUBSET N)
    BY <1>4, FS_SUBSET
  <2> HIDE DEF components
  <2> QED
    BY <2>1, FS_Subset
<1>7. \A c \in components : /\ c \subseteq N /\ c # {}
                            /\ \A n \in c : of(n) = c
                            /\ Linkless(c, N, chains, prereqs)
  <2> TAKE c \in components
  <2>1. PICK n \in N : c = of(n)
    OBVIOUS
  <2> HIDE DEF components
  <2> QED
    BY <1>4, <1>5, <2>1
<1>8. \A n \in N : of(n) \in components
  OBVIOUS
<1> HIDE DEF components
<1>9. \A c \in components :
        /\ start[c] \in Nat
        /\ \E n \in c : start[c] = at[n]
        /\ \A n \in c : start[c] <= at[n]
  <2> TAKE c \in components
  <2> DEFINE places == {at[n] : n \in c}
  <2>0. c \subseteq N /\ c # {}
    BY <1>7
  <2>1. places \subseteq Nat /\ places # {}
    <3>1. \A n \in c : at[n] \in Nat
      BY <1>3, <2>0
    <3>2. \E n : n \in c
      BY <2>0
    <3> QED
      BY <3>1, <3>2, Zenon
  <2>2. PICK i \in places : \A k \in places : i <= k
    BY <2>1, LeastNat
  <2>3. \A n \in c : i <= at[n]
    BY <2>2
  <2>4. Start(c) \in places /\ \A n \in c : Start(c) <= at[n]
    BY <2>2, <2>3, Zenon
  <2> HIDE DEF Start
  <2>5. start[c] = Start(c)
    OBVIOUS
  <2> QED
    BY <2>1, <2>4, <2>5
<1> HIDE DEF start
<1>10. ASSUME NEW c \in components, NEW d \in components, start[c] = start[d]
       PROVE  c = d
  <2>1. PICK n \in c : start[c] = at[n]
    BY <1>9
  <2>2. PICK m \in d : start[d] = at[m]
    BY <1>9
  <2>3. n = m
    BY <1>3, <1>7, <1>10, <2>1, <2>2
  <2> QED
    BY <1>7, <2>3
<1>11. /\ ordered \in Seq(components)
       /\ Different(ordered)
       /\ ToSet(ordered) = components
       /\ \A i, j \in 1 .. Len(ordered) : i < j => start[ordered[i]] < start[ordered[j]]
  <2>1. \A c \in components : start[c] \in Int
    BY <1>9
  <2> QED
    BY <1>6, <1>10, <2>1, SortByKeyIs
<1> HIDE DEF ordered
<1>12. Len(ordered) \in Nat /\ DOMAIN ordered = 1 .. Len(ordered)
  BY <1>11, LenProperties
<1>13. \A i \in 1 .. Len(ordered) : ordered[i] \in components
  BY <1>11, <1>12 DEF ToSet
<1>14. ASSUME NEW i \in 1 .. Len(ordered)
       PROVE  /\ Sorted(merged[i], ordered[i], prereqs, at)
              /\ ToSet(merged[i]) = ordered[i]
              /\ merged[i] \in Seq(N)
              /\ merged[i] # << >>
  <2>1. PICK c \in components : c = ordered[i]
    BY <1>13
  <2>2. /\ c \subseteq Nat /\ IsFiniteSet(c) /\ c \subseteq N /\ c # {}
        /\ \A n \in c : at[n] \in Nat
    BY <1>3, <1>7, FS_Subset
  <2>3. Ranked(c, prereqs, [n \in c |-> rank[n]])
    BY <2>2 DEF Ranked
  <2>4. PICK s : s = TopoOrder(c, prereqs, at)
    OBVIOUS
  <2>5. Sorted(s, c, prereqs, at) /\ ToSet(s) = c
    BY <2>2, <2>3, <2>4, TopoOrderIs
  <2>6. merged[i] = s
    BY <1>2, <1>12, <2>1, <2>4
  <2>7. s \in Seq(N) /\ s # << >>
    <3>1. s \in Seq(c) /\ ToSet(<< >>) = {}
      BY <2>5 DEF Sorted, ToSet
    <3>2. \A k \in 1 .. Len(s) : s[k] \in N
      BY <2>2, <3>1, ElementOfSeq
    <3>3. s \in [1 .. Len(s) -> N] /\ Len(s) \in Nat
      BY <3>1, <3>2, LenProperties
    <3> QED
      BY <2>2, <2>5, <3>1, <3>3, SeqDef
  <2> QED
    BY <2>1, <2>5, <2>6, <2>7
<1>15. merged \in Seq(Seq(N)) /\ Len(merged) = Len(ordered)
  <2>1. merged \in [1 .. Len(ordered) -> Seq(N)]
    <3>1. merged = [i \in 1 .. Len(ordered) |-> merged[i]]
      BY <1>2, <1>12
    <3> QED
      BY <1>14, <3>1
  <2>2. merged \in Seq(Seq(N))
    BY <1>12, <2>1, SeqDef
  <2>3. DOMAIN merged = 1 .. Len(ordered) /\ DOMAIN merged = 1 .. Len(merged) /\ Len(merged) \in Nat
    BY <2>1, <2>2, LenProperties
  <2>4. Len(merged) = Len(ordered)
    BY <1>12, <2>3
  <2> QED
    BY <2>2, <2>4
<1>16. ASSUME NEW i \in 1 .. Len(merged)
       PROVE  /\ merged[i] # << >>
              /\ Sorted(merged[i], ToSet(merged[i]), prereqs, at)
              /\ Linkless(ToSet(merged[i]), N, chains, prereqs)
              /\ \A C \in SUBSET N :
                   Linkless(C, N, chains, prereqs) /\ C \cap ToSet(merged[i]) # {}
                     => ToSet(merged[i]) \subseteq C
  <2>1. i \in 1 .. Len(ordered)
    BY <1>15
  <2>2. PICK c \in components : c = ToSet(merged[i]) /\ Sorted(merged[i], c, prereqs, at)
    BY <1>13, <1>14, <2>1
  <2>3. Linkless(c, N, chains, prereqs)
    BY <1>7
  <2>4. ASSUME NEW C \in SUBSET N, Linkless(C, N, chains, prereqs), NEW n \in C, n \in c
        PROVE  c \subseteq C
    BY <1>4, <1>7, <2>4
  <2> QED
    BY <1>14, <2>1, <2>2, <2>3, <2>4
<1>17. UNION {ToSet(merged[i]) : i \in 1 .. Len(merged)} = N
  <2>1. ASSUME NEW n \in N
        PROVE  \E i \in 1 .. Len(merged) : n \in ToSet(merged[i])
    <3>1. of(n) \in ToSet(ordered)
      BY <1>8, <1>11
    <3>2. PICK i \in 1 .. Len(ordered) : ordered[i] = of(n)
      BY <1>12, <3>1 DEF ToSet
    <3> QED
      BY <1>4, <1>14, <1>15, <3>2
  <2>2. ASSUME NEW i \in 1 .. Len(merged), NEW n \in ToSet(merged[i])
        PROVE  n \in N
    <3>1. i \in 1 .. Len(ordered)
      BY <1>15
    <3>2. PICK c \in components : c = ToSet(merged[i])
      BY <1>13, <1>14, <3>1
    <3> QED
      BY <1>7, <2>2, <3>2
  <2> QED
    BY <2>1, <2>2
<1>18. ASSUME NEW i \in 1 .. Len(merged), NEW j \in 1 .. Len(merged),
              ToSet(merged[i]) \cap ToSet(merged[j]) # {}
       PROVE  i = j
  <2>1. i \in 1 .. Len(ordered) /\ j \in 1 .. Len(ordered)
    BY <1>15
  <2>2. PICK n : n \in ordered[i] /\ n \in ordered[j]
    BY <1>14, <1>18, <2>1
  <2>3. ordered[i] = ordered[j]
    BY <1>7, <1>13, <2>1, <2>2
  <2> QED
    BY <1>11, <2>1, <2>3 DEF Different
<1>19. ASSUME NEW i \in 1 .. Len(merged), NEW j \in 1 .. Len(merged), i < j
       PROVE  \E n \in ToSet(merged[i]) : \A m \in ToSet(merged[j]) : at[n] < at[m]
  <2>1. i \in 1 .. Len(ordered) /\ j \in 1 .. Len(ordered)
    BY <1>15
  <2>2. PICK c \in components, d \in components : c = ToSet(merged[i]) /\ d = ToSet(merged[j])
                                                /\ start[c] < start[d]
    BY <1>11, <1>13, <1>14, <1>19, <2>1
  <2>3. PICK n \in c : start[c] = at[n]
    BY <1>9
  <2>4. ASSUME NEW m \in d
        PROVE  at[n] < at[m]
    <3>1. start[d] <= at[m] /\ start[c] \in Nat /\ start[d] \in Nat /\ at[m] \in Nat
      BY <1>3, <1>7, <1>9
    <3> QED
      BY <2>2, <2>3, <3>1
  <2> QED
    BY <2>2, <2>4
<1> QED
  BY <1>15, <1>16, <1>17, <1>18, <1>19, Zenon DEF RightChains, merged, at

-----------------------------------------------------------------------------
(* The classifier's divisions.                                             *)

(* An order, cut after some of its positions.                              *)
Cut(order, cut) ==
  [i \in DOMAIN cut |-> SubSeq(order, IF i = 1 THEN 1 ELSE cut[i - 1] + 1, cut[i])]

Ends(len, ends) == SortByKey(ends \cup {len}, [e \in Nat |-> e])

LEMMA EndsIs ==
  ASSUME NEW N, NEW order \in Seq(N), order # << >>, NEW ends \in SUBSET (1 .. Len(order) - 1)
  PROVE  LET cut == Ends(Len(order), ends)
         IN  /\ cut \in Seq(1 .. Len(order)) /\ cut # << >>
             /\ cut[Len(cut)] = Len(order)
             /\ \A i, j \in 1 .. Len(cut) : i < j => cut[i] < cut[j]
<1> DEFINE L   == Len(order)
           S   == ends \cup {L}
           key == [e \in Nat |-> e]
           cut == Ends(Len(order), ends)
<1>1. L \in Nat \ {0} /\ S \in SUBSET (1 .. L)
  <2>1. Len(order) \in Nat /\ Len(order) # 0
    BY LenProperties, EmptySeq
  <2>2. PICK l \in Nat \ {0} : l = L
    BY <2>1
  <2>3. ends \in SUBSET (1 .. l - 1)
    BY <2>2
  <2>4. ends \cup {l} \in SUBSET (1 .. l)
    BY <2>3
  <2> QED
    BY <2>2, <2>4
<1>2. IsFiniteSet(S)
  <2>1. IsFiniteSet(1 .. L)
    BY <1>1, FS_Interval
  <2> HIDE DEF S
  <2> QED
    BY <1>1, <2>1, FS_Subset
<1>3. \A x \in S : key[x] = x /\ x \in Nat
  BY <1>1
<1>4. L \in S
  OBVIOUS
<1> HIDE DEF S, key
<1>5. /\ cut \in Seq(S)
      /\ ToSet(cut) = S
      /\ \A i, j \in 1 .. Len(cut) : i < j => key[cut[i]] < key[cut[j]]
  <2>1. cut = SortByKey(S, key)
    BY DEF Ends, S, key
  <2>2. /\ \A x \in S : key[x] \in Int
        /\ \A x, y \in S : key[x] = key[y] => x = y
    BY <1>3
  <2>3. PICK o : o = SortByKey(S, key)
    OBVIOUS
  <2>4. /\ o \in Seq(S) /\ ToSet(o) = S
        /\ \A i, j \in 1 .. Len(o) : i < j => key[o[i]] < key[o[j]]
    BY <1>2, <2>2, <2>3, SortByKeyIs
  <2>5. cut = o
    BY <2>1, <2>3
  <2> HIDE DEF cut
  <2> QED
    BY <2>4, <2>5
<1> HIDE DEF cut
<1>6. /\ Len(cut) \in Nat /\ DOMAIN cut = 1 .. Len(cut)
      /\ \A i \in 1 .. Len(cut) : cut[i] \in S
  BY <1>5, LenProperties, ElementOfSeq
<1>7. PICK k \in 1 .. Len(cut) : cut[k] = L
  BY <1>4, <1>5, <1>6 DEF ToSet
<1>8. \A i, j \in 1 .. Len(cut) : i < j => cut[i] < cut[j]
  BY <1>3, <1>5, <1>6
<1>9. k = Len(cut)
  <2>1. SUFFICES ASSUME k # Len(cut)
                 PROVE  FALSE
    OBVIOUS
  <2>0. PICK len \in Nat : len = Len(cut)
    BY <1>6
  <2>2. k < Len(cut) /\ Len(cut) \in 1 .. Len(cut)
    BY <1>7, <2>0, <2>1
  <2>3. PICK x \in 1 .. L : x = cut[Len(cut)]
    BY <1>1, <1>6, <2>2
  <2>4. L < x
    BY <1>7, <1>8, <2>2, <2>3
  <2> QED
    BY <1>1, <2>4
<1>10. cut \in Seq(1 .. L)
  <2>1. cut \in [1 .. Len(cut) -> S]
    BY <1>5, LenProperties
  <2>2. cut \in [1 .. Len(cut) -> 1 .. L]
    BY <1>1, <2>1
  <2> QED
    BY <1>6, <2>2, SeqDef
<1>11. cut # << >>
  BY <1>6, <1>7, EmptySeq
<1> QED
  BY <1>7, <1>8, <1>9, <1>10, <1>11 DEF cut

(* Where the parts of a cut begin.                                         *)
PartsFrom(chains, order, cut, from) ==
  /\ from[1] = 1
  /\ \A i \in 1 .. Len(cut) :
       /\ from[i] <= cut[i]
       /\ i # 1 => i - 1 \in 1 .. Len(cut) /\ from[i] = cut[i - 1] + 1
       /\ chains[i] = SubSeq(order, from[i], cut[i])
       /\ Len(chains[i]) = cut[i] - from[i] + 1
       /\ \A k \in 1 .. Len(chains[i]) : chains[i][k] = order[from[i] + k - 1]

LEMMA CutParts ==
  ASSUME NEW N, NEW order \in Seq(N),
         NEW cut \in Seq(1 .. Len(order)), cut # << >>, cut[Len(cut)] = Len(order),
         \A i, j \in 1 .. Len(cut) : i < j => cut[i] < cut[j]
  PROVE  /\ Cut(order, cut) \in Seq(Seq(N)) /\ Len(Cut(order, cut)) = Len(cut)
         /\ \E from \in [1 .. Len(cut) -> 1 .. Len(order)] : PartsFrom(Cut(order, cut), order, cut, from)
<1> DEFINE chains == Cut(order, cut)
           L == Len(order)
           from(i) == IF i = 1 THEN 1 ELSE cut[i - 1] + 1
<1>1. /\ L \in Nat /\ DOMAIN order = 1 .. L /\ \A k \in 1 .. L : order[k] \in N
      /\ Len(cut) \in Nat \ {0} /\ DOMAIN cut = 1 .. Len(cut)
      /\ \A i \in 1 .. Len(cut) : cut[i] \in 1 .. L
  BY LenProperties, ElementOfSeq, EmptySeq
<1>2. ASSUME NEW i \in 1 .. Len(cut)
      PROVE  /\ from(i) \in 1 .. L /\ cut[i] \in 1 .. L /\ from(i) <= cut[i]
             /\ i # 1 => i - 1 \in 1 .. Len(cut) /\ from(i) = cut[i - 1] + 1
  <2>1. CASE i = 1
    BY <1>1, <2>1
  <2>2. CASE i # 1
    <3>1. i - 1 \in 1 .. Len(cut) /\ i - 1 < i
      BY <1>1, <2>2
    <3>2. PICK a \in 1 .. L, b \in 1 .. L : a = cut[i - 1] /\ b = cut[i] /\ a < b
      BY <1>1, <3>1
    <3>3. from(i) = a + 1
      BY <2>2, <3>2
    <3> QED
      BY <1>1, <3>1, <3>2, <3>3
  <2> QED
    BY <2>1, <2>2
<1>3. chains = [i \in 1 .. Len(cut) |-> SubSeq(order, from(i), cut[i])]
  BY <1>1 DEF Cut
<1> HIDE DEF chains, from
<1>4. ASSUME NEW i \in 1 .. Len(cut)
      PROVE  /\ chains[i] \in Seq(N)
             /\ Len(chains[i]) = cut[i] - from(i) + 1
             /\ \A k \in 1 .. Len(chains[i]) :
                  chains[i][k] = order[from(i) + k - 1] /\ from(i) + k - 1 \in from(i) .. cut[i]
  <2>1. PICK a \in 1 .. L, b \in 1 .. L : a = from(i) /\ b = cut[i] /\ a <= b
    BY <1>2
  <2>2. \A k \in a .. b : order[k] \in N
    BY <1>1
  <2>3. /\ SubSeq(order, a, b) \in Seq(N)
        /\ Len(SubSeq(order, a, b)) = b - a + 1
        /\ \A k \in 1 .. b - a + 1 : SubSeq(order, a, b)[k] = order[a + k - 1]
    BY <2>1, <2>2, SubSeqProperties
  <2>4. chains[i] = SubSeq(order, a, b)
    BY <1>3, <2>1
  <2>5. \A k \in 1 .. b - a + 1 : a + k - 1 \in a .. b
    OBVIOUS
  <2> QED
    BY <2>1, <2>3, <2>4, <2>5
<1>5. chains \in Seq(Seq(N)) /\ Len(chains) = Len(cut)
  <2>1. chains \in [1 .. Len(cut) -> Seq(N)]
    <3>1. chains = [i \in 1 .. Len(cut) |-> chains[i]]
      BY <1>3
    <3> QED
      BY <1>4, <3>1
  <2>2. chains \in Seq(Seq(N))
    <3>1. PICK len \in Nat : len = Len(cut)
      BY <1>1
    <3>2. chains \in [1 .. len -> Seq(N)]
      BY <2>1, <3>1
    <3> QED
      BY <3>2, SeqDef
  <2>3. DOMAIN chains = 1 .. Len(cut) /\ DOMAIN chains = 1 .. Len(chains) /\ Len(chains) \in Nat
    BY <2>1, <2>2, LenProperties
  <2> QED
    BY <1>1, <2>2, <2>3
<1>6. 1 \in 1 .. Len(cut) /\ from(1) = 1
  BY <1>1 DEF from
<1> DEFINE begin == [i \in 1 .. Len(cut) |-> from(i)]
<1>7. begin \in [1 .. Len(cut) -> 1 .. L]
  BY <1>2
<1>8. \A i \in 1 .. Len(cut) : begin[i] = from(i)
  OBVIOUS
<1> HIDE DEF begin
<1>9. PartsFrom(chains, order, cut, begin)
  BY <1>2, <1>3, <1>4, <1>6, <1>8 DEF PartsFrom
<1> QED
  BY <1>5, <1>7, <1>9, Zenon DEF chains

(* Chains that divide the nodes, each once, placed one after the other.    *)
Tidy(chains, nodes, at) ==
  /\ Divides(chains, nodes)
  /\ \A i \in 1 .. Len(chains) : chains[i] # << >> /\ Different(chains[i])
  /\ \A i, j \in 1 .. Len(chains) : ToSet(chains[i]) \cap ToSet(chains[j]) # {} => i = j
  /\ \A i \in 1 .. Len(chains) : \A k, l \in 1 .. Len(chains[i]) :
       k < l => at[chains[i][k]] < at[chains[i][l]]
  /\ \A i, j \in 1 .. Len(chains) :
       i < j => \A n \in ToSet(chains[i]), m \in ToSet(chains[j]) : at[n] < at[m]

LEMMA CutIs ==
  ASSUME NEW N, NEW order \in Seq(N), Different(order), ToSet(order) = N,
         NEW cut \in Seq(1 .. Len(order)), cut # << >>, cut[Len(cut)] = Len(order),
         \A i, j \in 1 .. Len(cut) : i < j => cut[i] < cut[j]
  PROVE  /\ Divides(Cut(order, cut), N)
         /\ \A at : (\A p \in 1 .. Len(order) : at[order[p]] = p) => Tidy(Cut(order, cut), N, at)
<1> DEFINE chains == Cut(order, cut)
           L == Len(order)
<1>1. /\ L \in Nat /\ DOMAIN order = 1 .. L /\ \A k \in 1 .. L : order[k] \in N
      /\ Len(cut) \in Nat \ {0} /\ DOMAIN cut = 1 .. Len(cut)
      /\ \A i \in 1 .. Len(cut) : cut[i] \in 1 .. L
  BY LenProperties, ElementOfSeq, EmptySeq
<1>2. chains \in Seq(Seq(N)) /\ Len(chains) = Len(cut)
  BY CutParts
<1>3. PICK from \in [1 .. Len(cut) -> 1 .. L] :
        /\ from[1] = 1
        /\ \A i \in 1 .. Len(cut) :
             /\ from[i] <= cut[i]
             /\ i # 1 => i - 1 \in 1 .. Len(cut) /\ from[i] = cut[i - 1] + 1
             /\ Len(chains[i]) = cut[i] - from[i] + 1
             /\ \A k \in 1 .. Len(chains[i]) : chains[i][k] = order[from[i] + k - 1]
  <2>1. PICK from \in [1 .. Len(cut) -> 1 .. L] : PartsFrom(chains, order, cut, from)
    BY CutParts, Zenon
  <2> QED
    BY <2>1 DEF PartsFrom
<1> HIDE DEF chains
<1>4. ASSUME NEW i \in 1 .. Len(cut)
      PROVE  /\ chains[i] \in Seq(N)
             /\ \A k \in 1 .. Len(chains[i]) :
                  chains[i][k] = order[from[i] + k - 1] /\ from[i] + k - 1 \in from[i] .. cut[i]
  <2>1. PICK a \in 1 .. L, b \in 1 .. L : a = from[i] /\ b = cut[i] /\ a <= b
    BY <1>1, <1>3
  <2>2. \A k \in 1 .. b - a + 1 : a + k - 1 \in a .. b
    OBVIOUS
  <2>3. chains[i] \in Seq(N)
    BY <1>2, ElementOfSeq
  <2> QED
    BY <1>3, <2>1, <2>2, <2>3
<1>6. ASSUME NEW i \in 1 .. Len(cut)
      PROVE  chains[i] # << >> /\ Different(chains[i])
  <2>1. PICK a \in 1 .. L, b \in 1 .. L : a = from[i] /\ b = cut[i] /\ a <= b
    BY <1>1, <1>3
  <2>2. /\ Len(chains[i]) = b - a + 1
        /\ \A k \in 1 .. b - a + 1 : chains[i][k] = order[a + k - 1] /\ a + k - 1 \in 1 .. L
    <3>1. \A k \in 1 .. b - a + 1 : a + k - 1 \in 1 .. L
      BY <1>1
    <3>2. Len(chains[i]) = b - a + 1
      BY <1>3, <2>1
    <3> QED
      BY <1>4, <2>1, <3>1, <3>2
  <2>3. chains[i] # << >>
    BY <2>1, <2>2, EmptySeq
  <2>4. ASSUME NEW k \in 1 .. Len(chains[i]), NEW l \in 1 .. Len(chains[i]), chains[i][k] = chains[i][l]
        PROVE  k = l
    <3>1. order[a + k - 1] = order[a + l - 1] /\ a + k - 1 \in 1 .. L /\ a + l - 1 \in 1 .. L
      BY <2>2, <2>4
    <3>2. a + k - 1 = a + l - 1
      BY <3>1 DEF Different
    <3> QED
      BY <3>2
  <2> QED
    BY <2>3, <2>4 DEF Different
<1>7. ASSUME NEW i \in 1 .. Len(cut), NEW n \in ToSet(chains[i])
      PROVE  \E p \in from[i] .. cut[i] : order[p] = n
  <2>1. DOMAIN chains[i] = 1 .. Len(chains[i])
    BY <1>4, LenProperties
  <2>2. PICK k \in 1 .. Len(chains[i]) : chains[i][k] = n
    BY <2>1 DEF ToSet
  <2>3. chains[i][k] = order[from[i] + k - 1] /\ from[i] + k - 1 \in from[i] .. cut[i]
    BY <1>4
  <2> QED
    BY <2>2, <2>3
<1>8. ASSUME NEW i \in 1 .. Len(cut), NEW p \in from[i] .. cut[i]
      PROVE  order[p] \in ToSet(chains[i])
  <2>1. PICK a \in 1 .. L, b \in 1 .. L : a = from[i] /\ b = cut[i] /\ a <= b
    BY <1>1, <1>3
  <2>2. PICK k \in 1 .. b - a + 1 : k = p - a + 1 /\ a + k - 1 = p
    <3>1. p \in a .. b
      BY <2>1
    <3>2. p - a + 1 \in 1 .. b - a + 1 /\ a + (p - a + 1) - 1 = p
      BY <3>1
    <3> QED
      BY <3>2
  <2>3. DOMAIN chains[i] = 1 .. b - a + 1 /\ chains[i][k] = order[p]
    <3>1. Len(chains[i]) = b - a + 1 /\ DOMAIN chains[i] = 1 .. Len(chains[i])
      BY <1>3, <1>4, <2>1, LenProperties
    <3> QED
      BY <1>4, <2>1, <2>2, <3>1
  <2> QED
    BY <2>3 DEF ToSet
<1>9. UNION {ToSet(chains[i]) : i \in 1 .. Len(chains)} = N
  <2>1. ASSUME NEW i \in 1 .. Len(chains), NEW n \in ToSet(chains[i])
        PROVE  n \in N
    <3>1. i \in 1 .. Len(cut)
      BY <1>2
    <3>2. PICK a \in 1 .. L, b \in 1 .. L : a = from[i] /\ b = cut[i] /\ a <= b
      BY <1>1, <1>3, <3>1
    <3>3. PICK p \in a .. b : order[p] = n
      BY <1>7, <3>1, <3>2
    <3> QED
      BY <1>1, <3>3
  <2>2. ASSUME NEW n \in N
        PROVE  \E i \in 1 .. Len(chains) : n \in ToSet(chains[i])
    <3>1. PICK p \in 1 .. L : order[p] = n
      BY <1>1 DEF ToSet
    <3> DEFINE far == {i \in 1 .. Len(cut) : p <= cut[i]}
    <3>2. Len(cut) \in far /\ far \subseteq Nat
      BY <1>1
    <3>3. PICK i \in far : \A j \in far : i <= j
      BY <3>2, LeastNat
    <3>4. from[i] <= p
      <4>1. CASE i = 1
        BY <1>3, <4>1
      <4>2. CASE i # 1
        <5>1. i - 1 \in 1 .. Len(cut) /\ from[i] = cut[i - 1] + 1 /\ ~(i <= i - 1)
          <6>1. i \in 1 .. Len(cut) /\ ~(i <= i - 1)
            BY <3>3
          <6> QED
            BY <1>3, <4>2, <6>1
        <5>2. i - 1 \notin far
          <6> HIDE DEF far
          <6> QED
            BY <3>3, <5>1
        <5>3. cut[i - 1] \in 1 .. L /\ ~(p <= cut[i - 1])
          BY <1>1, <5>1, <5>2
        <5> QED
          BY <5>1, <5>3
      <4> QED
        BY <4>1, <4>2
    <3>5. p \in from[i] .. cut[i]
      <4>1. PICK a \in 1 .. L, b \in 1 .. L : a = from[i] /\ b = cut[i]
        BY <1>1, <1>3, <3>3
      <4> QED
        BY <3>3, <3>4, <4>1
    <3> QED
      BY <1>2, <1>8, <3>1, <3>3, <3>5
  <2> QED
    BY <2>1, <2>2
<1>10. ASSUME NEW i \in 1 .. Len(cut), NEW j \in 1 .. Len(cut), i < j
       PROVE  cut[i] < from[j]
  <2>1. PICK b \in 1 .. L, c \in 1 .. L : b = cut[i] /\ c = from[j]
    BY <1>1, <1>3
  <2>2. j # 1 /\ j - 1 \in 1 .. Len(cut) /\ c = cut[j - 1] + 1
    <3>1. j # 1
      BY <1>1, <1>10
    <3> QED
      BY <1>3, <2>1, <3>1
  <2>3. PICK e \in 1 .. L : e = cut[j - 1] /\ c = e + 1
    BY <1>1, <2>2
  <2>4. b <= e
    <3>1. CASE i = j - 1
      BY <2>1, <2>3, <3>1
    <3>2. CASE i # j - 1
      <4>1. PICK k \in 1 .. Len(cut) : k = j - 1 /\ i < k
        BY <1>10, <2>2, <3>2
      <4>2. cut[i] < cut[k]
        BY <4>1
      <4> QED
        BY <2>1, <2>3, <4>1, <4>2
    <3> QED
      BY <3>1, <3>2
  <2> QED
    BY <2>1, <2>3, <2>4
<1> DEFINE Earlier(n, m) == \E p \in 1 .. L : \E q \in 1 .. L : p < q /\ order[p] = n /\ order[q] = m
<1>11. ASSUME NEW i \in 1 .. Len(cut), NEW j \in 1 .. Len(cut), i < j,
              NEW n \in ToSet(chains[i]), NEW m \in ToSet(chains[j])
       PROVE  Earlier(n, m)
  <2>1. PICK a \in 1 .. L, b \in 1 .. L : a = from[i] /\ b = cut[i]
    BY <1>1, <1>3
  <2>2. PICK c \in 1 .. L, d \in 1 .. L : c = from[j] /\ d = cut[j]
    BY <1>1, <1>3
  <2>3. PICK p \in a .. b : order[p] = n
    BY <1>7, <2>1
  <2>4. PICK q \in c .. d : order[q] = m
    BY <1>7, <2>2
  <2>5. b < c
    BY <1>10, <1>11, <2>1, <2>2
  <2>6. p \in 1 .. L /\ q \in 1 .. L /\ p < q
    BY <1>1, <2>5
  <2> QED
    BY <2>3, <2>4, <2>6
<1>12. ASSUME NEW i \in 1 .. Len(cut), NEW j \in 1 .. Len(cut), i < j,
              ToSet(chains[i]) \cap ToSet(chains[j]) # {}
       PROVE  FALSE
  <2>1. PICK n : n \in ToSet(chains[i]) /\ n \in ToSet(chains[j])
    BY <1>12
  <2>2. PICK p \in 1 .. L, q \in 1 .. L : p < q /\ order[p] = n /\ order[q] = n
    <3>1. Earlier(n, n)
      <4> HIDE DEF Earlier
      <4> QED
        BY <1>11, <1>12, <2>1
    <3> QED
      BY <3>1
  <2>3. p = q
    BY <2>2 DEF Different
  <2> QED
    BY <1>1, <2>2, <2>3
<1>13. ASSUME NEW i \in 1 .. Len(chains), NEW j \in 1 .. Len(chains),
              ToSet(chains[i]) \cap ToSet(chains[j]) # {}
       PROVE  i = j
  <2>1. i \in 1 .. Len(cut) /\ j \in 1 .. Len(cut)
    BY <1>2
  <2>2. ~(i < j) /\ ~(j < i)
    BY <1>12, <1>13, <2>1
  <2> QED
    BY <2>1, <2>2
<1>14. ASSUME NEW at, \A p \in 1 .. L : at[order[p]] = p
       PROVE  /\ \A i \in 1 .. Len(chains) : \A k, l \in 1 .. Len(chains[i]) :
                   k < l => at[chains[i][k]] < at[chains[i][l]]
              /\ \A i, j \in 1 .. Len(chains) :
                   i < j => \A n \in ToSet(chains[i]), m \in ToSet(chains[j]) : at[n] < at[m]
  <2>1. ASSUME NEW i \in 1 .. Len(chains), NEW k \in 1 .. Len(chains[i]),
               NEW l \in 1 .. Len(chains[i]), k < l
        PROVE  at[chains[i][k]] < at[chains[i][l]]
    <3>1. PICK a \in 1 .. L, b \in 1 .. L : a = from[i] /\ b = cut[i] /\ a <= b
      BY <1>1, <1>2, <1>3
    <3>2. /\ chains[i][k] = order[a + k - 1] /\ a + k - 1 \in 1 .. L
          /\ chains[i][l] = order[a + l - 1] /\ a + l - 1 \in 1 .. L
      <4>1. /\ chains[i][k] = order[a + k - 1] /\ a + k - 1 \in a .. b
            /\ chains[i][l] = order[a + l - 1] /\ a + l - 1 \in a .. b
        BY <1>2, <1>4, <3>1
      <4>2. \A p \in a .. b : p \in 1 .. L
        BY <1>1
      <4> QED
        BY <4>1, <4>2
    <3>3. at[chains[i][k]] = a + k - 1 /\ at[chains[i][l]] = a + l - 1
      BY <1>14, <3>2
    <3>4. k \in Int /\ l \in Int /\ a \in Int
      BY <1>1
    <3> QED
      BY <2>1, <3>3, <3>4
  <2>2. ASSUME NEW i \in 1 .. Len(chains), NEW j \in 1 .. Len(chains), i < j,
               NEW n \in ToSet(chains[i]), NEW m \in ToSet(chains[j])
        PROVE  at[n] < at[m]
    <3>1. i \in 1 .. Len(cut) /\ j \in 1 .. Len(cut)
      BY <1>2
    <3>2. PICK p \in 1 .. L, q \in 1 .. L : p < q /\ order[p] = n /\ order[q] = m
      <4>1. Earlier(n, m)
        <5> HIDE DEF Earlier
        <5> QED
          BY <1>11, <2>2, <3>1
      <4> QED
        BY <4>1
    <3> QED
      BY <1>14, <3>2
  <2> QED
    BY <2>1, <2>2
<1>15. Divides(chains, N)
  BY <1>2, <1>9, <1>13 DEF Divides
<1>16. \A i \in 1 .. Len(chains) : chains[i] # << >> /\ Different(chains[i])
  BY <1>2, <1>6
<1> QED
  BY <1>13, <1>14, <1>15, <1>16 DEF Tidy, chains

(* What was cut and is put together again is what it was.                  *)
LEMMA FlattenCut ==
  ASSUME NEW N, NEW order \in Seq(N),
         NEW cut \in Seq(1 .. Len(order)), cut # << >>, cut[Len(cut)] = Len(order),
         \A i, j \in 1 .. Len(cut) : i < j => cut[i] < cut[j]
  PROVE  FlattenSeq(Cut(order, cut)) = order
<1> DEFINE L == Len(order)
<1>1. /\ L \in Nat /\ \A k \in 1 .. L : order[k] \in N
      /\ \A i \in 1 .. Len(cut) : cut[i] \in 1 .. L
  BY LenProperties, ElementOfSeq
<1>2. PICK len \in Nat \ {0} : len = Len(cut)
  BY LenProperties, EmptySeq
<1>3. PICK chains : chains = Cut(order, cut)
  OBVIOUS
<1>4. chains \in Seq(Seq(N)) /\ Len(chains) = len
  BY <1>2, <1>3, CutParts
<1>5. PICK from \in [1 .. len -> 1 .. L] :
        /\ from[1] = 1
        /\ \A i \in 1 .. len :
             /\ from[i] <= cut[i]
             /\ i # 1 => i - 1 \in 1 .. len /\ from[i] = cut[i - 1] + 1
             /\ chains[i] = SubSeq(order, from[i], cut[i])
  <2>1. PICK from \in [1 .. Len(cut) -> 1 .. L] : PartsFrom(Cut(order, cut), order, cut, from)
    BY CutParts, Zenon
  <2> QED
    BY <1>2, <1>3, <2>1 DEF PartsFrom
<1>6. chains # << >>
  BY <1>2, <1>4, EmptySeq
<1>7. PICK f \in [1 .. len -> Seq(N)] :
        /\ f[1] = chains[1]
        /\ \A i \in 1 .. len : i # 1 => i - 1 \in 1 .. len /\ f[i] = f[i - 1] \o chains[i]
        /\ FlattenSeq(chains) = f[len]
  BY <1>4, <1>6, FlattenJoins
<1> DEFINE Bad == {i \in 1 .. len : f[i] # SubSeq(order, 1, cut[i])}
<1>8. Bad = {}
  <2>1. SUFFICES ASSUME Bad # {}
                 PROVE  FALSE
    OBVIOUS
  <2>2. PICK m \in Bad : \A j \in Bad : m <= j
    <3>1. Bad \subseteq Nat
      BY <1>2
    <3> QED
      BY <2>1, <3>1, LeastNat
  <2>3. m # 1
    BY <1>5, <1>7, <2>2
  <2>4. m \in 1 .. len /\ m - 1 \in 1 .. len /\ m \in Nat /\ ~(m <= m - 1)
    BY <1>2, <2>2, <2>3
  <2>5. m - 1 \notin Bad
    <3> HIDE DEF Bad
    <3> QED
      BY <2>2, <2>4
  <2>6. PICK a \in 1 .. L, b \in 1 .. L : a = cut[m - 1] /\ b = cut[m] /\ a < b
    <3>1. m - 1 < m
      BY <2>4
    <3> QED
      BY <1>1, <1>2, <2>4, <3>1
  <2>7. f[m - 1] = SubSeq(order, 1, a) /\ chains[m] = SubSeq(order, a + 1, b)
    BY <1>5, <2>3, <2>4, <2>5, <2>6
  <2>8. SubSeq(order, 1, a) \o SubSeq(order, a + 1, b) = SubSeq(order, 1, b)
    <3>1. /\ 1 \in 1 .. Len(order) + 1
          /\ a \in 1 - 1 .. Len(order)
          /\ b \in a .. Len(order)
      <4>1. PICK l \in Nat : l = L
        BY <1>1
      <4> QED
        <5>1. a \in 1 .. l /\ b \in 1 .. l /\ a < b /\ Len(order) = l
          BY <2>6, <4>1
        <5> HIDE DEF L
        <5> QED
          BY <5>1
    <3> HIDE DEF L
    <3> QED
      BY <3>1, ConcatAdjacentSubSeq, Zenon
  <2>9. f[m] = SubSeq(order, 1, b)
    BY <1>7, <2>3, <2>4, <2>7, <2>8
  <2> QED
    BY <2>2, <2>6, <2>9
<1>9. len \in 1 .. len
  BY <1>2
<1>10. f[len] = SubSeq(order, 1, L)
  BY <1>2, <1>8, <1>9
<1>11. SubSeq(order, 1, L) = order
  BY SubSeqFull
<1> QED
  BY <1>3, <1>7, <1>10, <1>11

=============================================================================
