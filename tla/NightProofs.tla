----------------------------- MODULE NightProofs -----------------------------
(***************************************************************************)
(* What holds of every night of every repository: for any set of issues,   *)
(* any edges among them, any budget and any classification.                *)
(***************************************************************************)
EXTENDS NightRun, PlanProofs

-----------------------------------------------------------------------------
(* The inductive invariant.                                                *)

Running == pc \in {"next", "working", "opened"}

(* The members of the chains, what is left of them.                        *)
Members(c) == UNION {ToSet(c[i]) : i \in 1 .. Len(c)}

Ahead == Members(chains)

(* Chains of different issues, none in two of them.                        *)
Disjoint(c) ==
  /\ c \in Seq(Seq(Issues))
  /\ \A i \in 1 .. Len(c) : c[i] # << >> /\ Different(c[i])
  /\ \A i, j \in 1 .. Len(c) : ToSet(c[i]) \cap ToSet(c[j]) # {} => i = j

(* A branch holds the work of its own issue.                               *)
BranchesOwn == \A n \in Issues : branch[n] # {} => n \in branch[n]

(* Before the plan, and after the last chain, nothing is in the making.    *)
Unplanned ==
  /\ plan = NoPlan
  /\ chains = << >>
  /\ base = Default
  /\ current = NoIssue
  /\ shipped = {}
  /\ results = << >>
  /\ deferred = {}
  /\ notStarted = {}
  /\ stopped = FALSE

Phases ==
  /\ pc \in {"idle", "selected"} => Unplanned
  /\ pc = "idle" => FreshNight
  /\ pc = "over" => chains = << >>
  /\ pc \in {"working", "opened"} => chains # << >> /\ current.number = Upcoming /\ ~stopped

(* Every selected issue is ahead, or has been accounted for once.          *)
Accounted ==
  pc \in {"next", "working", "opened", "over"} =>
    /\ selected = Ahead \cup DOMAIN results \cup deferred \cup notStarted
    /\ Ahead \cap (DOMAIN results \cup deferred \cup notStarted) = {}
    /\ DOMAIN results \cap (deferred \cup notStarted) = {}
    /\ deferred \cap notStarted = {}

(* What the night has yet to start has no branch.                          *)
Untouched ==
  /\ pc = "selected" => \A n \in selected : branch[n] = {}
  /\ pc \in {"next", "working"} => \A n \in Ahead : branch[n] = {}
  /\ pc = "opened" => \A n \in Ahead \ {current.number} : branch[n] = {}

(* The plan is about the issues ahead; no edge leads out of a chain that   *)
(* has not begun.                                                          *)
Planned ==
  Running =>
    /\ \A n \in DOMAIN plan.stackBases : plan.stackBases[n] \in blockedBy[n] \cap skipped
    /\ \A i \in 2 .. Len(chains) : \A n \in ToSet(chains[i]) : plan.prereqs[n] \subseteq ToSet(chains[i])

(* The running base ended in a ready pull request, and the clone's ref of  *)
(* it holds its work.                                                      *)
BaseIsGreen ==
  /\ shipped \subseteq DOMAIN results
  /\ base # Default => base \in shipped /\ results[base] = "ready" /\ base \in tracking[base]

(* Nights that stack nothing on what is in flight: what the issues of the  *)
(* running chain wait for is in its base once it has shipped.              *)
BaseGathers ==
  Running /\ plan.stackBases = << >> /\ chains # << >> =>
    \A n \in ToSet(chains[1]) : plan.prereqs[n] \cap shipped \subseteq tracking[base]

(* The issue in the making is on the base it needs.                        *)
OnItsBase ==
  pc \in {"working", "opened"} =>
    /\ current.onto # Default => current.onto \in current.work
    /\ plan.stackBases = << >> => current.onto = base /\ current.work = tracking[base]

InItsBranch ==
  pc = "opened" => tracking[current.number] = current.work \cup {current.number}

RepoTyped ==
  /\ blockedBy \in Graphs
  /\ open \subseteq Issues
  /\ triaged \subseteq Issues
  /\ main \subseteq Issues
  /\ branch \in [Issues -> SUBSET Issues]
  /\ pull \in [Issues -> {"none", "draft", "ready", "merged", "closed"}]
  /\ target \in [Issues -> Targets]
  /\ interrupts \in 0 .. MaxInterrupts

NightTyped ==
  /\ pc \in {"idle", "selected", "next", "working", "opened", "over"}
  /\ selected \subseteq Issues
  /\ skipped \subseteq Issues
  /\ shipped \subseteq Issues
  /\ deferred \subseteq Issues
  /\ notStarted \subseteq Issues
  /\ DOMAIN results \subseteq Issues
  /\ base \in Targets
  /\ current \in [number : Targets, onto : Targets, work : SUBSET Issues]
  /\ tracking \in [Targets -> SUBSET Issues]
  /\ stopped \in BOOLEAN

(* What holds of the repository, of the night's memory, and of both.       *)
RepoInd == RepoTyped /\ BranchesOwn

MemoryInd ==
  /\ NightTyped
  /\ Disjoint(chains)
  /\ Phases
  /\ Accounted
  /\ Planned
  /\ BaseIsGreen
  /\ BaseGathers
  /\ OnItsBase
  /\ InItsBranch
  /\ StackedOnGreenOrNative
  /\ BuildsOnPrereqs

NightInd == RepoInd /\ MemoryInd /\ Untouched

-----------------------------------------------------------------------------
(* Chains.                                                                 *)

(* Whatever the classifier says divides the shippable issues.              *)
LEMMA ClassifiedDivides ==
  ASSUME NEW N, IsFiniteSet(N), NEW shippable \in Seq(N), Different(shippable),
         ToSet(shippable) = N, shippable # << >>, NEW conflicts \in Classifications(shippable)
  PROVE  Divides(conflicts, N)
<1>1. /\ Len(shippable) \in Nat /\ DOMAIN shippable = 1 .. Len(shippable)
      /\ Cardinality(N) = Len(shippable) /\ Len(shippable) # 0
  BY LenProperties, DifferentLen, EmptySeq
<1>2. CASE conflicts = AllIndependent(shippable)
  <2>1. PICK len \in Nat : len = Len(shippable)
    BY <1>1
  <2>2. conflicts = [i \in 1 .. len |-> <<shippable[i]>>]
    BY <1>1, <1>2, <2>1 DEF AllIndependent
  <2>3. ASSUME NEW i \in 1 .. len
        PROVE  conflicts[i] = <<shippable[i]>> /\ shippable[i] \in N
    BY <1>1, <2>1, <2>2, ElementOfSeq
  <2>4. \A x : ToSet(<<x>>) = {x}
    BY DEF ToSet
  <2>5. conflicts \in Seq(Seq(N)) /\ Len(conflicts) = len
    <3>0. \A x \in N : <<x>> \in Seq(N)
      OBVIOUS
    <3>1. \A i \in 1 .. len : conflicts[i] \in Seq(N)
      BY <2>3, <3>0, Zenon
    <3>2. conflicts \in [1 .. len -> Seq(N)]
      BY <2>2, <3>1
    <3>3. conflicts \in Seq(Seq(N))
      BY <3>2, SeqDef
    <3>4. DOMAIN conflicts = 1 .. len /\ DOMAIN conflicts = 1 .. Len(conflicts) /\ Len(conflicts) \in Nat
      BY <3>2, <3>3, LenProperties
    <3> QED
      BY <3>3, <3>4
  <2>6. \A i \in 1 .. len : ToSet(conflicts[i]) = {shippable[i]}
    BY <2>3, <2>4
  <2>7. UNION {ToSet(conflicts[i]) : i \in 1 .. len} = N
    <3>1. \A n \in N : \E i \in 1 .. len : shippable[i] = n
      BY <1>1, <2>1 DEF ToSet
    <3>2. \A n \in N : \E i \in 1 .. len : n \in ToSet(conflicts[i])
      BY <2>6, <3>1
    <3>3. \A i \in 1 .. len : ToSet(conflicts[i]) \subseteq N
      BY <2>3, <2>6
    <3> QED
      BY <3>2, <3>3
  <2>8. ASSUME NEW i \in 1 .. len, NEW j \in 1 .. len, ToSet(conflicts[i]) \cap ToSet(conflicts[j]) # {}
        PROVE  conflicts[i] = conflicts[j]
    BY <2>3, <2>6, <2>8
  <2> QED
    BY <2>5, <2>7, <2>8 DEF Divides
<1>3. CASE conflicts # AllIndependent(shippable)
  <2>1. PICK order \in SetToSeqs(ToSet(shippable)), ends \in SUBSET (1 .. Len(shippable) - 1) :
          conflicts = Cut(order, Ends(Len(shippable), ends))
    <3> DEFINE divisions == {Cut(order, Ends(Len(shippable), ends)) :
                               order \in SetToSeqs(ToSet(shippable)),
                               ends \in SUBSET (1 .. Len(shippable) - 1)}
    <3>1. Classifications(shippable) = {AllIndependent(shippable)} \cup (IF Heuristic THEN divisions ELSE {})
      BY DEF Classifications, Cut, Ends
    <3> HIDE DEF divisions
    <3>2. conflicts \in divisions
      BY <1>3, <3>1
    <3> QED
      BY <3>2 DEF divisions
  <2>2. /\ order \in [1 .. Len(shippable) -> N]
        /\ \A i, j \in 1 .. Len(shippable) : i # j => order[i] # order[j]
    BY <1>1, <2>1 DEF SetToSeqs
  <2>3. order \in Seq(N) /\ Len(order) = Len(shippable)
    <3>1. order \in Seq(N)
      BY <1>1, <2>2, SeqDef
    <3>2. DOMAIN order = 1 .. Len(order) /\ DOMAIN order = 1 .. Len(shippable) /\ Len(order) \in Nat
      BY <2>2, <3>1, LenProperties
    <3>3. PICK a \in Nat, b \in Nat : a = Len(order) /\ b = Len(shippable)
      BY <1>1, <3>2
    <3>4. 1 .. a = 1 .. b
      BY <3>2, <3>3
    <3>5. a = b
      BY <3>4
    <3> QED
      BY <3>1, <3>3, <3>5
  <2>4. Different(order)
    BY <2>2, <2>3 DEF Different
  <2>5. ToSet(order) = N
    <3>1. ToSet(order) \in SUBSET N
      BY <2>2 DEF ToSet
    <3>2. Cardinality(ToSet(order)) = Cardinality(N)
      BY <1>1, <2>3, <2>4, DifferentLen
    <3> QED
      BY <3>1, <3>2, FS_Subset
  <2>6. PICK cut : cut = Ends(Len(order), ends)
    OBVIOUS
  <2>7. conflicts = Cut(order, cut)
    BY <2>1, <2>3, <2>6
  <2>8. order # << >> /\ ends \in SUBSET (1 .. Len(order) - 1)
    BY <1>1, <2>3
  <2>9. /\ cut \in Seq(1 .. Len(order)) /\ cut # << >> /\ cut[Len(cut)] = Len(order)
        /\ \A i, j \in 1 .. Len(cut) : i < j => cut[i] < cut[j]
    BY <2>3, <2>6, <2>8, EndsIs
  <2>10. Divides(Cut(order, cut), N)
    BY <2>3, <2>4, <2>5, <2>9, CutIs
  <2> QED
    BY <2>7, <2>10
<1> QED
  BY <1>2, <1>3

LEMMA MembersIs ==
  ASSUME NEW c
  PROVE  \A n : n \in Members(c) <=> \E i \in 1 .. Len(c) : n \in ToSet(c[i])
BY DEF Members

(* A chain's next member is done with.                                     *)
Advanced(c) == IF Len(c[1]) > 1 THEN <<Tail(c[1])>> \o Tail(c) ELSE Tail(c)

LEMMA AdvancedIs ==
  ASSUME NEW c, Disjoint(c), c # << >>
  PROVE  LET d == Advanced(c)
         IN  /\ Disjoint(d)
             /\ c[1][1] \in ToSet(c[1])
             /\ Members(d) = Members(c) \ {c[1][1]}
             /\ IF Len(c[1]) > 1
                  THEN /\ Len(d) = Len(c)
                       /\ ToSet(d[1]) = ToSet(c[1]) \ {c[1][1]}
                       /\ \A i \in 2 .. Len(d) : d[i] = c[i]
                  ELSE /\ Len(d) = Len(c) - 1
                       /\ \A i \in 1 .. Len(d) : d[i] = c[i + 1] /\ i + 1 \in 2 .. Len(c)
<1> DEFINE h == c[1]
           u == c[1][1]
           d == Advanced(c)
<1>1. c \in Seq(Seq(Issues)) /\ Len(c) \in Nat \ {0} /\ 1 \in 1 .. Len(c)
  <2>1. c \in Seq(Seq(Issues)) /\ Len(c) \in Nat /\ Len(c) # 0
    BY LenProperties, EmptySeq DEF Disjoint
  <2> QED
    BY <2>1
<1>2. \A i \in 1 .. Len(c) : c[i] \in Seq(Issues) /\ c[i] # << >> /\ Different(c[i])
  BY <1>1, ElementOfSeq DEF Disjoint
<1>3. h \in Seq(Issues) /\ Len(h) \in Nat \ {0} /\ Different(h) /\ DOMAIN h = 1 .. Len(h)
  <2>1. h \in Seq(Issues) /\ h # << >> /\ Different(h)
    BY <1>1, <1>2
  <2>2. Len(h) \in Nat /\ Len(h) # 0 /\ DOMAIN h = 1 .. Len(h)
    BY <2>1, LenProperties, EmptySeq
  <2> QED
    BY <2>1, <2>2
<1>4. u \in ToSet(h)
  BY <1>3 DEF ToSet
<1>5. /\ Tail(c) \in Seq(Seq(Issues)) /\ Len(Tail(c)) = Len(c) - 1
      /\ \A i \in 1 .. Len(c) - 1 : Tail(c)[i] = c[i + 1]
  BY <1>1, HeadTailProperties
<1>6. /\ Tail(h) \in Seq(Issues) /\ Len(Tail(h)) = Len(h) - 1
      /\ \A i \in 1 .. Len(h) - 1 : Tail(h)[i] = h[i + 1]
  BY <1>3, HeadTailProperties, EmptySeq
<1> HIDE DEF h, u
<1>7. Different(Tail(h)) /\ ToSet(Tail(h)) = ToSet(h) \ {u}
  <2>1. PICK len \in Nat \ {0} : len = Len(h)
    BY <1>3
  <2>2. DOMAIN Tail(h) = 1 .. len - 1
    BY <1>6, <2>1, LenProperties
  <2>3. Different(Tail(h))
    <3> SUFFICES ASSUME NEW i \in 1 .. len - 1, NEW j \in 1 .. len - 1, Tail(h)[i] = Tail(h)[j]
                 PROVE  i = j
      BY <1>6, <2>1 DEF Different
    <3>1. h[i + 1] = h[j + 1] /\ i + 1 \in 1 .. len /\ j + 1 \in 1 .. len
      BY <1>6, <2>1
    <3>2. i + 1 = j + 1
      BY <1>3, <2>1, <3>1 DEF Different
    <3> QED
      BY <3>2
  <2>4. \A x \in ToSet(Tail(h)) : x \in ToSet(h) /\ x # u
    <3> TAKE x \in ToSet(Tail(h))
    <3>1. PICK i \in 1 .. len - 1 : x = Tail(h)[i]
      BY <2>2 DEF ToSet
    <3>2. x = h[i + 1] /\ i + 1 \in 1 .. len /\ i + 1 # 1 /\ 1 \in 1 .. len
      BY <1>6, <2>1, <3>1
    <3>3. u = h[1]
      BY DEF u, h
    <3>4. x # u
      BY <1>3, <2>1, <3>2, <3>3 DEF Different
    <3> QED
      BY <1>3, <2>1, <3>2, <3>4 DEF ToSet
  <2>5. \A x \in ToSet(h) : x # u => x \in ToSet(Tail(h))
    <3> TAKE x \in ToSet(h)
    <3> HAVE x # u
    <3>1. PICK i \in 1 .. len : x = h[i]
      BY <1>3, <2>1 DEF ToSet
    <3>2. u = h[1]
      BY DEF u, h
    <3>3. PICK k \in 1 .. len - 1 : i = k + 1
      <4>1. i # 1
        BY <3>1, <3>2
      <4>2. i - 1 \in 1 .. len - 1 /\ i = (i - 1) + 1
        BY <4>1
      <4> QED
        BY <4>2
    <3>4. Tail(h)[k] = x
      BY <1>6, <2>1, <3>1, <3>3
    <3> QED
      BY <2>2, <3>4 DEF ToSet
  <2> QED
    BY <2>3, <2>4, <2>5
<1>8. \A i, j \in 1 .. Len(c) : ToSet(c[i]) \cap ToSet(c[j]) # {} => i = j
  BY DEF Disjoint
<1>9. PICK m \in Nat \ {0} : m = Len(c)
  BY <1>1
<1>10. CASE Len(h) > 1
  <2>1. /\ d \in Seq(Seq(Issues)) /\ Len(d) = m
        /\ d[1] = Tail(h)
        /\ \A i \in 2 .. m : d[i] = c[i]
    <3>1. d = <<Tail(h)>> \o Tail(c)
      BY <1>10 DEF Advanced, h
    <3>2. <<Tail(h)>> \in Seq(Seq(Issues)) /\ Len(<<Tail(h)>>) = 1 /\ <<Tail(h)>>[1] = Tail(h)
      BY <1>6
    <3>3. /\ d \in Seq(Seq(Issues)) /\ Len(d) = 1 + (m - 1)
          /\ \A i \in 1 .. 1 + (m - 1) : d[i] = IF i <= 1 THEN <<Tail(h)>>[i] ELSE Tail(c)[i - 1]
      BY <1>5, <1>9, <3>1, <3>2, ConcatProperties
    <3>4. d[1] = Tail(h) /\ Len(d) = m
      BY <1>9, <3>2, <3>3
    <3>5. ASSUME NEW i \in 2 .. m
          PROVE  d[i] = c[i]
      <4>1. PICK j \in 1 .. m - 1 : j = i - 1 /\ i = j + 1
        OBVIOUS
      <4>2. Tail(c)[j] = c[i]
        BY <1>5, <1>9, <4>1
      <4>3. i \in 1 .. 1 + (m - 1) /\ ~(i <= 1)
        OBVIOUS
      <4> QED
        BY <3>3, <4>1, <4>2, <4>3
    <3> QED
      BY <3>3, <3>4, <3>5
  <2> HIDE DEF d
  <2>2. Tail(h) # << >>
    <3>1. PICK l \in Nat : l = Len(h) /\ l > 1
      BY <1>3, <1>10
    <3>2. Len(Tail(h)) = l - 1
      BY <1>6, <3>1
    <3>3. l - 1 # 0
      BY <3>1
    <3> QED
      BY <1>6, <3>2, <3>3, EmptySeq
  <2>0. \A i \in 1 .. m : i = 1 \/ i \in 2 .. m
    OBVIOUS
  <2>3. \A i \in 1 .. m : ToSet(d[i]) = IF i = 1 THEN ToSet(h) \ {u} ELSE ToSet(c[i])
    BY <1>7, <2>0, <2>1
  <2>4. \A i \in 1 .. m : ToSet(d[i]) \subseteq ToSet(c[i])
    BY <2>3 DEF h
  <2>5. \A i \in 1 .. m : d[i] # << >> /\ Different(d[i])
    BY <1>2, <1>7, <1>9, <2>0, <2>1, <2>2
  <2>6. \A i, j \in 1 .. m : ToSet(d[i]) \cap ToSet(d[j]) # {} => i = j
    BY <1>8, <1>9, <2>4
  <2>7. ASSUME NEW i \in 2 .. m, u \in ToSet(c[i])
        PROVE  FALSE
    <3>1. i \in 1 .. m /\ 1 \in 1 .. m /\ i # 1
      OBVIOUS
    <3>2. u \in ToSet(c[1])
      BY <1>4 DEF h
    <3> QED
      BY <1>8, <1>9, <2>7, <3>1, <3>2
  <2>8. Members(d) = Members(c) \ {u}
    <3>1. \A i \in 1 .. m : ToSet(d[i]) = ToSet(c[i]) \ {u}
      BY <2>0, <2>3, <2>7 DEF h
    <3>2. \A n : (\E i \in 1 .. m : n \in ToSet(d[i])) <=> (\E i \in 1 .. m : n \in ToSet(c[i])) /\ n # u
      BY <3>1
    <3> QED
      BY <1>9, <2>1, <3>2, MembersIs
  <2>9. Disjoint(d)
    BY <2>1, <2>5, <2>6 DEF Disjoint
  <2> QED
    BY <1>4, <1>7, <1>9, <1>10, <2>1, <2>8, <2>9, Zenon DEF d, h, u
<1>11. CASE ~(Len(h) > 1)
  <2>1. d = Tail(c)
    BY <1>11 DEF Advanced, h
  <2>2. /\ d \in Seq(Seq(Issues)) /\ Len(d) = m - 1
        /\ \A i \in 1 .. m - 1 : d[i] = c[i + 1] /\ i + 1 \in 1 .. m
    BY <1>5, <1>9, <2>1
  <2> HIDE DEF d
  <2>3. \A i \in 1 .. m - 1 : d[i] # << >> /\ Different(d[i])
    BY <1>2, <1>9, <2>2
  <2>4. ASSUME NEW i \in 1 .. m - 1, NEW j \in 1 .. m - 1, ToSet(d[i]) \cap ToSet(d[j]) # {}
        PROVE  i = j
    <3>1. i + 1 = j + 1
      BY <1>8, <1>9, <2>2, <2>4
    <3> QED
      BY <3>1
  <2>5. ToSet(h) = {u}
    <3>1. Len(h) = 1
      BY <1>3, <1>11
    <3>2. 1 .. 1 = {1}
      OBVIOUS
    <3> QED
      BY <1>3, <3>1, <3>2 DEF ToSet, h, u
  <2>6. Members(d) = Members(c) \ {u}
    <3>1. ASSUME NEW i \in 1 .. m - 1, NEW n \in ToSet(d[i])
          PROVE  n # u /\ n \in ToSet(c[i + 1])
      <4>1. n \in ToSet(c[i + 1]) /\ i + 1 \in 1 .. m /\ i + 1 # 1
        BY <2>2
      <4> QED
        BY <1>1, <1>4, <1>8, <1>9, <4>1 DEF h
    <3>2. ASSUME NEW i \in 1 .. m, NEW n \in ToSet(c[i]), n # u
          PROVE  \E j \in 1 .. m - 1 : n \in ToSet(d[j])
      <4>1. i # 1
        BY <2>5, <3>2 DEF h
      <4>2. PICK j \in 1 .. m - 1 : j = i - 1 /\ j + 1 = i
        BY <4>1
      <4> QED
        BY <2>2, <4>2
    <3>3. \A n : (\E i \in 1 .. m - 1 : n \in ToSet(d[i])) <=> (\E i \in 1 .. m : n \in ToSet(c[i])) /\ n # u
      BY <2>2, <3>1, <3>2
    <3> QED
      BY <1>9, <2>2, <3>3, MembersIs
  <2>7. Disjoint(d)
    BY <2>2, <2>3, <2>4 DEF Disjoint
  <2>8. \A i \in 1 .. m - 1 : d[i] = c[i + 1] /\ i + 1 \in 2 .. m
    BY <2>2
  <2>9. Len(d) = m - 1
    BY <2>2
  <2> QED
    BY <1>4, <1>9, <1>11, <2>6, <2>7, <2>8, <2>9, Zenon DEF d, h, u
<1> QED
  BY <1>3, <1>10, <1>11

-----------------------------------------------------------------------------
(* The invariant implies the properties that runs check.                   *)

LEMMA NoneAhead ==
  ASSUME chains = << >>
  PROVE  Ahead = {} /\ Disjoint(chains)
BY DEF Ahead, Members, Disjoint

LEMMA AheadSelected ==
  ASSUME MemoryInd
  PROVE  Ahead \subseteq selected
<1>1. CASE pc \in {"next", "working", "opened", "over"}
  BY <1>1 DEF MemoryInd, Accounted
<1>2. CASE pc \in {"idle", "selected"}
  <2>1. chains = << >>
    BY <1>2 DEF MemoryInd, Phases, Unplanned
  <2> QED
    BY <2>1, NoneAhead
<1> QED
  BY <1>1, <1>2 DEF MemoryInd, NightTyped

LEMMA TypesFollow ==
  ASSUME NightInd
  PROVE  TypeOK
<1>1. RepoTyped /\ NightTyped /\ Disjoint(chains)
  BY DEF NightInd, RepoInd, MemoryInd
<1>2. UNION {open, triaged, main, selected, skipped, shipped, deferred, notStarted} \subseteq Issues
  BY <1>1 DEF RepoTyped, NightTyped
<1>3. \A i \in DOMAIN chains : chains[i] # << >> /\ ToSet(chains[i]) \subseteq selected
  <2>1. DOMAIN chains = 1 .. Len(chains)
    BY <1>1, LenProperties DEF Disjoint
  <2>2. \A i \in 1 .. Len(chains) : ToSet(chains[i]) \subseteq Ahead
    BY DEF Ahead, Members
  <2>3. Ahead \subseteq selected
    BY AheadSelected DEF NightInd
  <2> QED
    BY <1>1, <2>1, <2>2, <2>3 DEF Disjoint
<1> QED
  BY <1>1, <1>2, <1>3, Zenon DEF RepoTyped, NightTyped, TypeOK

LEMMA AccountsFollow ==
  ASSUME NightInd
  PROVE  EveryIssueAccounted
<1>1. SUFFICES ASSUME pc = "over"
               PROVE  /\ selected = DOMAIN results \cup deferred \cup notStarted
                      /\ DOMAIN results \cap deferred = {}
                      /\ DOMAIN results \cap notStarted = {}
                      /\ deferred \cap notStarted = {}
  BY DEF EveryIssueAccounted
<1>2. Ahead = {}
  BY <1>1, NoneAhead DEF NightInd, MemoryInd, Phases
<1> QED
  BY <1>1, <1>2 DEF NightInd, MemoryInd, Accounted

-----------------------------------------------------------------------------
(* Nights that have not begun.                                             *)

LEMMA DefaultIsNoIssue ==
  /\ Default \notin Issues
  /\ Issues \subseteq Nat
  /\ IsFiniteSet(Issues)
  /\ Targets = Issues \cup {Default}
BY IssuesAssumption DEF Targets, Default

LEMMA InitHolds ==
  ASSUME Init
  PROVE  NightInd
<1>1. RepoInd
  BY GraphsAssumption, InterruptsAssumption DEF Init, RepoInd, RepoTyped, BranchesOwn, Targets
<1>2. pc = "idle" /\ FreshNight
  BY DEF Init
<1>3. NightTyped
  <2>1. DOMAIN results = {}
    BY <1>2 DEF FreshNight
  <2>2. stopped \in BOOLEAN
    BY <1>2, Zenon DEF FreshNight
  <2>3. current \in [number : Targets, onto : Targets, work : SUBSET Issues]
    BY <1>2 DEF FreshNight, NoIssue, Targets
  <2> QED
    BY <1>2, <2>1, <2>2, <2>3 DEF FreshNight, NightTyped, Targets
<1>4. Disjoint(chains)
  BY <1>2, NoneAhead DEF FreshNight
<1>5. Phases
  BY <1>2, Zenon DEF Phases, FreshNight, Unplanned
<1>6. BaseIsGreen
  BY <1>2 DEF BaseIsGreen, FreshNight
<1>7. Accounted /\ Planned /\ BaseGathers /\ OnItsBase /\ InItsBranch /\ Untouched
      /\ StackedOnGreenOrNative /\ BuildsOnPrereqs
  BY <1>2 DEF Accounted, Planned, BaseGathers, OnItsBase, InItsBranch, Untouched,
     StackedOnGreenOrNative, BuildsOnPrereqs, Running
<1> QED
  BY <1>1, <1>3, <1>4, <1>5, <1>6, <1>7 DEF NightInd, MemoryInd

LEMMA ForgottenHolds ==
  ASSUME ForgetNight, pc' = "idle"
  PROVE  MemoryInd' /\ Untouched'
<1>1. NightTyped'
  <2>1. DOMAIN results' = {}
    BY DEF ForgetNight
  <2>2. stopped' \in BOOLEAN
    BY Zenon DEF ForgetNight
  <2>3. current' \in [number : Targets, onto : Targets, work : SUBSET Issues]
    BY DEF ForgetNight, NoIssue, Targets
  <2> QED
    BY <2>1, <2>2, <2>3 DEF ForgetNight, NightTyped, Targets
<1>2. Disjoint(chains')
  BY DEF ForgetNight, Disjoint
<1>3. Phases'
  BY Zenon DEF Phases, FreshNight, Unplanned, ForgetNight
<1>4. BaseIsGreen'
  BY DEF BaseIsGreen, ForgetNight
<1>5. /\ Accounted' /\ Planned' /\ BaseGathers' /\ OnItsBase' /\ InItsBranch' /\ Untouched'
      /\ StackedOnGreenOrNative' /\ BuildsOnPrereqs'
  BY DEF Accounted, Planned, BaseGathers, OnItsBase, InItsBranch, Untouched,
     StackedOnGreenOrNative, BuildsOnPrereqs, Running
<1> QED
  BY <1>1, <1>2, <1>3, <1>4, <1>5 DEF MemoryInd, Disjoint

-----------------------------------------------------------------------------
(* Steps outside the night, and its ends.                                  *)

LEMMA MemoryKept ==
  ASSUME MemoryInd, UNCHANGED <<blockedBy, pc, night>>
  PROVE  MemoryInd' /\ Ahead' = Ahead
<1>1. /\ UNCHANGED <<blockedBy, pc>>
      /\ UNCHANGED <<selected, skipped, plan, chains, base, current>>
      /\ UNCHANGED <<tracking, shipped, results, deferred, notStarted, stopped>>
  BY DEF night
<1>2. NightTyped'
  BY <1>1 DEF MemoryInd, NightTyped
<1>3. Disjoint(chains)' /\ Ahead' = Ahead
  BY <1>1 DEF MemoryInd, Disjoint, Ahead, Members
<1>4. Phases' /\ Accounted'
  BY <1>1, <1>3 DEF MemoryInd, Phases, FreshNight, Unplanned, Accounted, Upcoming
<1>5. Planned' /\ BaseIsGreen' /\ BaseGathers'
  BY <1>1 DEF MemoryInd, Planned, BaseIsGreen, BaseGathers, Running
<1>6. OnItsBase' /\ InItsBranch' /\ StackedOnGreenOrNative' /\ BuildsOnPrereqs'
  BY <1>1 DEF MemoryInd, OnItsBase, InItsBranch, StackedOnGreenOrNative, BuildsOnPrereqs
<1> QED
  BY <1>2, <1>3, <1>4, <1>5, <1>6 DEF MemoryInd

LEMMA UntouchedKept ==
  ASSUME MemoryInd, Untouched, UNCHANGED <<blockedBy, pc, night>>,
         \A n \in Issues : branch[n] = {} => branch'[n] = {}
  PROVE  Untouched'
<1>1. Ahead' = Ahead /\ Ahead \subseteq Issues
  BY MemoryKept, AheadSelected DEF MemoryInd, NightTyped
<1>2. UNCHANGED <<pc, selected, current>>
  BY DEF night
<1>3. selected \subseteq Issues
  BY DEF MemoryInd, NightTyped
<1> QED
  BY <1>1, <1>2, <1>3 DEF Untouched

(* People add work only to branches that are there.                        *)
LEMMA MergeKeeps ==
  ASSUME NightInd, NEW n \in Issues, MergePull(n)
  PROVE  NightInd'
<1>1. /\ UNCHANGED <<blockedBy, pc, night>>
      /\ UNCHANGED <<triaged, interrupts>>
      /\ pull' = [pull EXCEPT ![n] = "merged"]
      /\ main' \subseteq Issues /\ open' \subseteq Issues
  BY DEF MergePull, NightInd, RepoInd, RepoTyped
<1> DEFINE merged == [m \in Issues |-> IF m = target[n] THEN branch[m] \cup branch[n] ELSE branch[m]]
<1>2. /\ merged \in [Issues -> SUBSET Issues]
      /\ \A m \in Issues : branch[m] \subseteq merged[m]
      /\ \A m \in Issues : branch[m] = {} => merged[m] = {}
  BY DefaultIsNoIssue DEF MergePull, NightInd, RepoInd, RepoTyped
<1>3. \/ branch' = merged /\ UNCHANGED target
      \/ /\ branch' = [merged EXCEPT ![n] = {}]
         /\ target' = [m \in Issues |-> IF target[m] = n /\ pull[m] \in {"draft", "ready"}
                                          THEN target[n] ELSE target[m]]
  BY DEF MergePull
<1> HIDE DEF merged
<1>4. branch' \in [Issues -> SUBSET Issues] /\ target' \in [Issues -> Targets]
  BY <1>2, <1>3 DEF NightInd, RepoInd, RepoTyped
<1>5. \A m \in Issues : /\ branch[m] = {} => branch'[m] = {}
                        /\ branch'[m] # {} => branch[m] \subseteq branch'[m]
  BY <1>2, <1>3
<1>6. RepoTyped'
  BY <1>1, <1>4 DEF NightInd, RepoInd, RepoTyped
<1>7. BranchesOwn'
  BY <1>5 DEF NightInd, RepoInd, BranchesOwn
<1> QED
  BY <1>1, <1>5, <1>6, <1>7, MemoryKept, UntouchedKept DEF NightInd, RepoInd

LEMMA CloseKeeps ==
  ASSUME NightInd, NEW n \in Issues, ClosePull(n)
  PROVE  NightInd'
<1>1. RepoInd'
  BY DEF NightInd, RepoInd, RepoTyped, BranchesOwn, ClosePull
<1> QED
  BY <1>1, MemoryKept, UntouchedKept DEF NightInd, ClosePull

LEMMA StutterKeeps ==
  ASSUME NightInd, UNCHANGED vars
  PROVE  NightInd'
<1>1. RepoInd'
  BY DEF NightInd, RepoInd, RepoTyped, BranchesOwn, vars, repo
<1> QED
  BY <1>1, MemoryKept, UntouchedKept DEF NightInd, vars, repo

LEMMA NightOverKeeps ==
  ASSUME NightInd, NightAborts \/ Rest
  PROVE  NightInd'
<1>1. RepoInd'
  BY DEF NightInd, RepoInd, RepoTyped, BranchesOwn, NightAborts, Rest, repo
<1> QED
  BY <1>1, ForgottenHolds DEF NightInd, NightAborts, Rest

LEMMA InterruptedKeeps ==
  ASSUME NightInd, Interrupted
  PROVE  NightInd'
<1>1. ForgetNight /\ pc' = "idle" /\ UNCHANGED <<blockedBy, open, triaged, pull, target, main>>
      /\ interrupts' \in 0 .. MaxInterrupts
  BY InterruptsAssumption DEF Interrupted, NightInd, RepoInd, RepoTyped
<1>2. branch' \in [Issues -> SUBSET Issues] /\ BranchesOwn'
  <2>1. CASE UNCHANGED branch
    BY <2>1 DEF NightInd, RepoInd, RepoTyped, BranchesOwn
  <2>2. CASE /\ pc = "working"
             /\ branch' = [branch EXCEPT ![current.number] = current.work \cup {current.number}]
    <3>1. PICK c, w : c = current.number /\ w = current.work \cup {c}
      OBVIOUS
    <3>2. c \in Issues /\ w \subseteq Issues
      <4>1. chains # << >> /\ c = Upcoming /\ Upcoming \in Ahead
        BY <2>2, <3>1, AdvancedIs, MembersIs DEF NightInd, MemoryInd, Phases, Upcoming, Ahead
      <4>2. c \in Issues
        BY <4>1, AheadSelected DEF NightInd, MemoryInd, NightTyped
      <4> QED
        BY <3>1, <4>2 DEF NightInd, MemoryInd, NightTyped
    <3>3. branch' = [branch EXCEPT ![c] = w] /\ c \in w
      BY <2>2, <3>1
    <3> QED
      BY <3>2, <3>3 DEF NightInd, RepoInd, RepoTyped, BranchesOwn
  <2> QED
    BY <2>1, <2>2 DEF Interrupted
<1>3. RepoInd'
  BY <1>1, <1>2 DEF NightInd, RepoInd, RepoTyped
<1> QED
  BY <1>1, <1>3, ForgottenHolds DEF NightInd

-----------------------------------------------------------------------------
(* The loop goes on.                                                       *)

LEMMA UpcomingIs ==
  ASSUME MemoryInd, chains # << >>
  PROVE  /\ Upcoming \in ToSet(chains[1])
         /\ Upcoming \in Ahead
         /\ 1 \in 1 .. Len(chains)
<1>1. Len(chains) \in Nat /\ Len(chains) # 0
  BY LenProperties, EmptySeq DEF MemoryInd, Disjoint
<1>2. Upcoming \in ToSet(chains[1])
  BY AdvancedIs DEF MemoryInd, Upcoming
<1> QED
  BY <1>1, <1>2, MembersIs DEF Ahead

LEMMA AdvanceIs ==
  ASSUME MemoryInd, chains # << >>, NEW onto, Advance(onto)
  PROVE  /\ Disjoint(chains')
         /\ Ahead' = Ahead \ {Upcoming}
         /\ \A i \in 2 .. Len(chains') : \E j \in 2 .. Len(chains) : chains'[i] = chains[j]
         /\ chains' # << >> =>
              \/ base' = onto /\ ToSet(chains'[1]) \subseteq ToSet(chains[1])
              \/ base' = Default /\ 2 \in 2 .. Len(chains) /\ chains'[1] = chains[2]
         /\ base' \in {onto, Default}
<1> DEFINE u == Upcoming
<1>1. chains' = Advanced(chains) /\ base' \in {onto, Default}
  BY DEF Advance, Advanced
<1>2. /\ Len(chains[1]) > 1 => base' = onto
      /\ ~(Len(chains[1]) > 1) => base' = Default
  BY DEF Advance
<1>3. Disjoint(chains)
  BY DEF MemoryInd
<1>4. PICK d : d = Advanced(chains)
  OBVIOUS
<1>5. /\ Disjoint(d)
      /\ Members(d) = Members(chains) \ {chains[1][1]}
      /\ IF Len(chains[1]) > 1
           THEN /\ Len(d) = Len(chains)
                /\ ToSet(d[1]) = ToSet(chains[1]) \ {chains[1][1]}
                /\ \A i \in 2 .. Len(d) : d[i] = chains[i]
           ELSE /\ Len(d) = Len(chains) - 1
                /\ \A i \in 1 .. Len(d) : d[i] = chains[i + 1] /\ i + 1 \in 2 .. Len(chains)
  BY <1>3, <1>4, AdvancedIs, Zenon
<1>6. Ahead' = Ahead \ {Upcoming}
  BY <1>1, <1>4, <1>5 DEF Ahead, Upcoming
<1>7. PICK m \in Nat : m = Len(d)
  BY <1>5, LenProperties DEF Disjoint
<1>8. CASE Len(chains[1]) > 1
  <2>1. \A i \in 2 .. m : d[i] = chains[i] /\ i \in 2 .. Len(chains)
    BY <1>5, <1>7, <1>8
  <2>2. ToSet(d[1]) \subseteq ToSet(chains[1])
    BY <1>5, <1>8
  <2> QED
    BY <1>1, <1>2, <1>4, <1>5, <1>6, <1>7, <1>8, <2>1, <2>2, Zenon
<1>9. CASE ~(Len(chains[1]) > 1)
  <2>1. \A i \in 1 .. m : d[i] = chains[i + 1] /\ i + 1 \in 2 .. Len(chains)
    BY <1>5, <1>7, <1>9
  <2>2. \A i \in 2 .. m : \E j \in 2 .. Len(chains) : d[i] = chains[j]
    <3>1. \A i \in 2 .. m : i \in 1 .. m
      OBVIOUS
    <3> QED
      BY <2>1, <3>1
  <2>3. d # << >> => 2 \in 2 .. Len(chains) /\ d[1] = chains[2]
    <3>1. d # << >> => 1 \in 1 .. m
      BY <1>5, <1>7, EmptySeq DEF Disjoint
    <3>2. 1 + 1 = 2
      OBVIOUS
    <3> QED
      BY <2>1, <3>1, <3>2
  <2> QED
    BY <1>1, <1>2, <1>4, <1>5, <1>6, <1>7, <1>9, <2>2, <2>3, Zenon
<1> QED
  BY <1>8, <1>9

(* One way to account for the next issue: a result, deferred, not started. *)
Filed(n) ==
  \/ /\ \E outcome : results' = Recorded(n, outcome)
     /\ UNCHANGED <<deferred, notStarted>>
  \/ deferred' = deferred \cup {n} /\ UNCHANGED <<results, notStarted>>
  \/ notStarted' = notStarted \cup {n} /\ UNCHANGED <<results, deferred>>

LEMMA RecordedIs ==
  ASSUME NEW n, NEW outcome, results' = Recorded(n, outcome)
  PROVE  /\ DOMAIN results' = DOMAIN results \cup {n}
         /\ results'[n] = outcome
         /\ \A m \in DOMAIN results : m # n => results'[m] = results[m]
BY DEF Recorded

LEMMA FiledIs ==
  ASSUME MemoryInd, Running, chains # << >>, NEW onto, Advance(onto), UNCHANGED selected,
         Filed(Upcoming), pc' = "next"
  PROVE  /\ Accounted'
         /\ DOMAIN results \subseteq DOMAIN results'
         /\ \A m \in DOMAIN results : results'[m] = results[m]
         /\ DOMAIN results' \subseteq Issues /\ deferred' \subseteq Issues /\ notStarted' \subseteq Issues
<1>1. PICK u : u = Upcoming
  OBVIOUS
<1>2. Ahead' = Ahead \ {u} /\ u \in Ahead /\ u \in Issues
  BY <1>1, AdvanceIs, UpcomingIs, AheadSelected DEF MemoryInd, NightTyped
<1>3. /\ selected = Ahead \cup DOMAIN results \cup deferred \cup notStarted
      /\ Ahead \cap (DOMAIN results \cup deferred \cup notStarted) = {}
      /\ DOMAIN results \cap (deferred \cup notStarted) = {}
      /\ deferred \cap notStarted = {}
  BY DEF MemoryInd, Accounted, Running
<1>4. /\ DOMAIN results \subseteq DOMAIN results'
      /\ \A m \in DOMAIN results : results'[m] = results[m]
  <2>1. ASSUME NEW outcome, results' = Recorded(u, outcome)
        PROVE  /\ DOMAIN results \subseteq DOMAIN results'
               /\ \A m \in DOMAIN results : results'[m] = results[m]
    <3>1. /\ DOMAIN results' = DOMAIN results \cup {u}
          /\ \A m \in DOMAIN results : m # u => results'[m] = results[m]
      BY <2>1, RecordedIs
    <3>2. u \notin DOMAIN results
      BY <1>2, <1>3
    <3> QED
      BY <3>1, <3>2
  <2> QED
    BY <1>1, <2>1 DEF Filed
<1>5. \/ /\ DOMAIN results' = DOMAIN results \cup {u}
         /\ UNCHANGED <<deferred, notStarted>>
      \/ deferred' = deferred \cup {u} /\ UNCHANGED <<results, notStarted>>
      \/ notStarted' = notStarted \cup {u} /\ UNCHANGED <<results, deferred>>
  <2>1. \A outcome : results' = Recorded(u, outcome) => DOMAIN results' = DOMAIN results \cup {u}
    BY RecordedIs
  <2> QED
    BY <1>1, <2>1 DEF Filed
<1>6. Accounted'
  <2>1. /\ selected' = Ahead' \cup DOMAIN results' \cup deferred' \cup notStarted'
        /\ Ahead' \cap (DOMAIN results' \cup deferred' \cup notStarted') = {}
        /\ DOMAIN results' \cap (deferred' \cup notStarted') = {}
        /\ deferred' \cap notStarted' = {}
    BY <1>2, <1>3, <1>5
  <2> QED
    BY <2>1 DEF Accounted
<1>7. DOMAIN results' \subseteq Issues /\ deferred' \subseteq Issues /\ notStarted' \subseteq Issues
  BY <1>2, <1>5 DEF MemoryInd, NightTyped
<1> QED
  BY <1>4, <1>6, <1>7

(* The loop goes on: on the same base, or on one that just turned green.   *)
LEMMA LoopKeeps ==
  ASSUME MemoryInd, Running, chains # << >>, NEW onto, Advance(onto), pc' = "next",
         UNCHANGED <<blockedBy, selected, skipped, plan, tracking>>,
         Filed(Upcoming), current' \in {current, NoIssue}, stopped' \in BOOLEAN,
         \/ onto = base /\ UNCHANGED shipped
         \/ /\ onto = Upcoming /\ shipped' = shipped \cup {onto}
            /\ results' = Recorded(Upcoming, "ready")
            /\ onto \in tracking[onto]
            /\ plan.stackBases = << >> => tracking[base] \subseteq tracking[onto]
  PROVE  MemoryInd'
<1>1. PICK u : u = Upcoming
  OBVIOUS
<1>2. /\ u \in Ahead /\ u \in ToSet(chains[1]) /\ u \in Issues /\ u # Default
  BY <1>1, UpcomingIs, AheadSelected, DefaultIsNoIssue DEF MemoryInd, NightTyped
<1>3. /\ Disjoint(chains') /\ Ahead' = Ahead \ {u}
      /\ \A i \in 2 .. Len(chains') : \E j \in 2 .. Len(chains) : chains'[i] = chains[j]
      /\ chains' # << >> =>
           \/ base' = onto /\ ToSet(chains'[1]) \subseteq ToSet(chains[1])
           \/ base' = Default /\ 2 \in 2 .. Len(chains) /\ chains'[1] = chains[2]
      /\ base' \in {onto, Default}
  BY <1>1, AdvanceIs
<1>4. /\ Accounted'
      /\ DOMAIN results \subseteq DOMAIN results'
      /\ \A m \in DOMAIN results : results'[m] = results[m]
      /\ DOMAIN results' \subseteq Issues /\ deferred' \subseteq Issues /\ notStarted' \subseteq Issues
  BY FiledIs
<1>5. /\ NightTyped /\ Planned /\ BaseIsGreen /\ BaseGathers /\ Accounted
  BY DEF MemoryInd
<1>6. \/ onto = base /\ shipped' = shipped
      \/ /\ onto = u /\ shipped' = shipped \cup {u} /\ u \in DOMAIN results' /\ results'[u] = "ready"
         /\ u \in tracking[u]
         /\ plan.stackBases = << >> => tracking[base] \subseteq tracking[u]
  BY <1>1, RecordedIs
<1>7. NightTyped'
  <2>1. base' \in Targets /\ shipped' \subseteq Issues
    BY <1>2, <1>3, <1>5, <1>6, DefaultIsNoIssue DEF NightTyped
  <2>2. current' \in [number : Targets, onto : Targets, work : SUBSET Issues]
    BY <1>5, DefaultIsNoIssue DEF NightTyped, NoIssue
  <2> QED
    BY <1>4, <1>5, <2>1, <2>2 DEF NightTyped
<1>8. Phases'
  BY DEF Phases
<1>9. Planned'
  <2>1. \A n \in DOMAIN plan'.stackBases : plan'.stackBases[n] \in blockedBy'[n] \cap skipped'
    BY <1>5 DEF Planned
  <2>2. \A i \in 2 .. Len(chains') : \A n \in ToSet(chains'[i]) : plan'.prereqs[n] \subseteq ToSet(chains'[i])
    BY <1>3, <1>5 DEF Planned
  <2> QED
    BY <2>1, <2>2 DEF Planned
<1>10. BaseIsGreen'
  <2>1. shipped' \subseteq DOMAIN results'
    BY <1>4, <1>5, <1>6 DEF BaseIsGreen
  <2>2. base' # Default => base' \in shipped' /\ results'[base'] = "ready" /\ base' \in tracking'[base']
    BY <1>3, <1>4, <1>5, <1>6 DEF BaseIsGreen
  <2> QED
    BY <2>1, <2>2 DEF BaseIsGreen
<1>11. BaseGathers'
  <2> SUFFICES ASSUME plan'.stackBases = << >>, chains' # << >>, NEW n \in ToSet(chains'[1]),
                      NEW p \in plan'.prereqs[n] \cap shipped'
               PROVE  p \in tracking'[base']
    BY DEF BaseGathers
  <2>1. CASE base' = onto /\ ToSet(chains'[1]) \subseteq ToSet(chains[1])
    <3>1. n \in ToSet(chains[1]) /\ p \in plan.prereqs[n] /\ plan.stackBases = << >>
      BY <2>1
    <3>2. p \in shipped => p \in tracking[base]
      BY <1>5, <3>1 DEF BaseGathers
    <3> QED
      BY <1>6, <2>1, <3>2
  <2>2. CASE 2 \in 2 .. Len(chains) /\ chains'[1] = chains[2]
    <3>1. p \in ToSet(chains[2])
      BY <1>5, <2>2 DEF Planned
    <3>2. 2 \in 1 .. Len(chains) /\ 1 \in 1 .. Len(chains)
      BY <2>2, UpcomingIs DEF MemoryInd, Disjoint
    <3>3. p \in Ahead
      BY <3>1, <3>2, MembersIs DEF Ahead
    <3>4. p \notin shipped
      BY <1>5, <3>3 DEF BaseIsGreen, Accounted, Running
    <3>5. p = u
      BY <1>6, <3>4
    <3>6. ToSet(chains[1]) \cap ToSet(chains[2]) # {}
      BY <1>2, <3>1, <3>5
    <3>7. 1 = 2
      BY <3>2, <3>6 DEF MemoryInd, Disjoint
    <3> QED
      BY <3>7
  <2> QED
    BY <1>3, <2>1, <2>2
<1>12. OnItsBase' /\ InItsBranch' /\ StackedOnGreenOrNative' /\ BuildsOnPrereqs'
  BY DEF OnItsBase, InItsBranch, StackedOnGreenOrNative, BuildsOnPrereqs
<1> QED
  BY <1>3, <1>4, <1>7, <1>8, <1>9, <1>10, <1>11, <1>12 DEF MemoryInd, Disjoint

-----------------------------------------------------------------------------
(* The steps of the loop.                                                  *)

LEMMA AtIssueKeeps ==
  ASSUME NightInd, BudgetStops \/ DeferUnshipped \/ DeferUnfetched \/ ModelConflict
  PROVE  NightInd'
<1>1. /\ pc = "next" /\ pc' = "next" /\ chains # << >>
      /\ UNCHANGED <<blockedBy, open, triaged, branch, pull, target, main, interrupts>>
      /\ UNCHANGED <<selected, skipped, plan, tracking, shipped, current>>
      /\ Advance(base)
  BY DEF BudgetStops, DeferUnshipped, DeferUnfetched, ModelConflict, Startable, AtIssue, Defer, repo
<1>2. Filed(Upcoming)
  BY DEF BudgetStops, DeferUnshipped, DeferUnfetched, ModelConflict, Defer, Filed
<1>3. stopped' \in BOOLEAN
  <2>1. stopped \in BOOLEAN
    BY DEF NightInd, MemoryInd, NightTyped
  <2>2. stopped' = TRUE \/ UNCHANGED stopped
    BY Zenon DEF BudgetStops, DeferUnshipped, DeferUnfetched, ModelConflict, Defer
  <2> QED
    BY <2>1, <2>2, Zenon
<1>4. MemoryInd'
  BY <1>1, <1>2, <1>3, LoopKeeps DEF NightInd, Running
<1>5. RepoInd'
  BY <1>1 DEF NightInd, RepoInd, RepoTyped, BranchesOwn
<1>6. Untouched'
  BY <1>1, AdvanceIs DEF NightInd, Untouched
<1> QED
  BY <1>4, <1>5, <1>6 DEF NightInd

(* Where the issue in the making stands.                                   *)
LEMMA CurrentIs ==
  ASSUME NightInd, pc \in {"working", "opened"}
  PROVE  /\ chains # << >>
         /\ current.number = Upcoming
         /\ current.number \in Ahead
         /\ current.number \in Issues
         /\ current.number # Default
         /\ current.work \subseteq Issues
         /\ current.onto \in Targets
         /\ current.number \notin DOMAIN results
<1>1. MemoryInd /\ chains # << >> /\ current.number = Upcoming
  BY DEF NightInd, MemoryInd, Phases
<1>2. Upcoming \in Ahead
  BY <1>1, UpcomingIs
<1>3. Upcoming \in Issues
  BY <1>1, <1>2, AheadSelected DEF MemoryInd, NightTyped
<1>4. Upcoming \notin DOMAIN results
  BY <1>1, <1>2 DEF MemoryInd, Accounted
<1> QED
  BY <1>1, <1>2, <1>3, <1>4, DefaultIsNoIssue DEF MemoryInd, NightTyped

LEMMA FinishKeeps ==
  ASSUME NightInd, NEW outcome, Finish(outcome), pc \in {"working", "opened"},
         outcome = "ready" => pc = "opened", RepoInd',
         \A n \in Issues : n # current.number => branch'[n] = branch[n]
  PROVE  NightInd'
<1>1. PICK c, w : c = current.number /\ w = current.work
  OBVIOUS
<1>2. chains # << >> /\ c = Upcoming /\ c \in Issues /\ MemoryInd /\ Running
  BY <1>1, CurrentIs DEF NightInd, Running
<1>3. /\ results' = Recorded(c, outcome)
      /\ shipped' = IF outcome = "ready" THEN shipped \cup {c} ELSE shipped
      /\ Advance(IF outcome = "ready" THEN c ELSE base)
      /\ current' = NoIssue
      /\ pc' = "next"
      /\ UNCHANGED <<blockedBy, selected, skipped, plan, tracking, deferred, notStarted, stopped>>
  BY <1>1 DEF Finish, Ships
<1>4. Filed(Upcoming)
  BY <1>2, <1>3 DEF Filed
<1>5. stopped' \in BOOLEAN
  <2>1. stopped \in BOOLEAN
    BY DEF NightInd, MemoryInd, NightTyped
  <2> QED
    BY <1>3, <2>1, Zenon
<1>6. PICK onto : onto = IF outcome = "ready" THEN c ELSE base
  OBVIOUS
<1>7. Advance(onto)
  BY <1>3, <1>6
<1>8. \/ onto = base /\ UNCHANGED shipped
      \/ /\ onto = Upcoming /\ shipped' = shipped \cup {onto}
         /\ results' = Recorded(Upcoming, "ready")
         /\ onto \in tracking[onto]
         /\ plan.stackBases = << >> => tracking[base] \subseteq tracking[onto]
  <2>1. CASE outcome = "ready"
    <3>1. tracking[c] = w \cup {c}
      BY <1>1, <2>1 DEF NightInd, MemoryInd, InItsBranch
    <3>2. plan.stackBases = << >> => w = tracking[base]
      BY <1>1 DEF NightInd, MemoryInd, OnItsBase
    <3> QED
      BY <1>2, <1>3, <1>6, <2>1, <3>1, <3>2
  <2>2. CASE outcome # "ready"
    BY <1>3, <1>6, <2>2
  <2> QED
    BY <2>1, <2>2
<1>9. MemoryInd'
  BY <1>2, <1>3, <1>4, <1>5, <1>7, <1>8, LoopKeeps
<1>10. Untouched'
  <2>1. Ahead' = Ahead \ {c} /\ Ahead \subseteq Issues
    BY <1>2, <1>7, AdvanceIs, AheadSelected DEF MemoryInd, NightTyped
  <2>2. \A n \in Ahead \ {c} : branch[n] = {}
    BY <1>1 DEF NightInd, Untouched
  <2>3. \A n \in Ahead' : branch'[n] = {}
    BY <1>1, <2>1, <2>2
  <2> QED
    BY <1>3, <2>3 DEF Untouched
<1> QED
  BY <1>9, <1>10 DEF NightInd

LEMMA FinishWithoutPrKeeps ==
  ASSUME NightInd, NEW outcome, FinishWithoutPr(outcome)
  PROVE  NightInd'
<1>1. PICK c, w : c = current.number /\ w = current.work \cup {c}
  OBVIOUS
<1>2. pc = "working" /\ outcome # "ready" /\ Finish(outcome) /\ UNCHANGED pull
  BY DEF FinishWithoutPr
<1>3. c \in Issues /\ w \subseteq Issues /\ c \in w
  BY <1>1, <1>2, CurrentIs
<1>4. /\ branch' = [branch EXCEPT ![c] = w] \/ branch' = branch
      /\ triaged' \subseteq Issues
  BY <1>1, <1>3 DEF FinishWithoutPr, NightInd, RepoInd, RepoTyped
<1>5. UNCHANGED <<blockedBy, open, target, main, interrupts>>
  BY <1>2 DEF Finish
<1>6. RepoInd'
  <2>1. branch \in [Issues -> SUBSET Issues] /\ BranchesOwn
    BY DEF NightInd, RepoInd, RepoTyped
  <2>2. branch' \in [Issues -> SUBSET Issues] /\ BranchesOwn'
    BY <1>3, <1>4, <2>1 DEF BranchesOwn
  <2> QED
    BY <1>2, <1>4, <1>5, <2>2 DEF NightInd, RepoInd, RepoTyped
<1>7. \A n \in Issues : n # c => branch'[n] = branch[n]
  BY <1>4 DEF NightInd, RepoInd, RepoTyped
<1> QED
  BY <1>1, <1>2, <1>6, <1>7, FinishKeeps

LEMMA FinishWithPrKeeps ==
  ASSUME NightInd, NEW outcome, FinishWithPr(outcome)
  PROVE  NightInd'
<1>1. /\ pc = "opened" /\ Finish(outcome) /\ UNCHANGED <<branch, triaged>>
      /\ pull' = [pull EXCEPT ![current.number] = "ready"] \/ pull' = pull
  BY DEF FinishWithPr
<1>2. UNCHANGED <<blockedBy, open, target, main, interrupts>>
  BY <1>1 DEF Finish
<1>3. RepoInd'
  BY <1>1, <1>2 DEF NightInd, RepoInd, RepoTyped, BranchesOwn
<1> QED
  BY <1>1, <1>3, FinishKeeps

LEMMA StartIssueKeeps ==
  ASSUME NightInd, StartIssue
  PROVE  NightInd'
<1>1. /\ pc = "next" /\ pc' = "working" /\ chains # << >> /\ Running
      /\ Unshipped(Upcoming) = {}
      /\ Upcoming \in DOMAIN plan.stackBases => branch[plan.stackBases[Upcoming]] # {}
      /\ UNCHANGED <<blockedBy, open, triaged, branch, pull, target, main, interrupts>>
      /\ UNCHANGED <<selected, skipped, plan, chains, base, shipped, results, deferred, notStarted>>
  BY DEF StartIssue, Startable, AtIssue, Running, repo
<1>2. ~stopped' /\ stopped' \in BOOLEAN
  <2>1. stopped \in BOOLEAN
    BY DEF NightInd, MemoryInd, NightTyped
  <2>2. ~stopped /\ stopped' = stopped
    BY Zenon DEF StartIssue, Startable, BudgetHolds
  <2> QED
    BY <2>1, <2>2, Zenon
<1>3. PICK u, onto : u = Upcoming /\ onto = BaseOf(Upcoming)
  OBVIOUS
<1>4. /\ current' = [number |-> u, onto |-> onto, work |-> tracking'[onto]]
      /\ \/ /\ u \notin DOMAIN plan.stackBases /\ onto = base /\ tracking' = tracking
         \/ /\ u \in DOMAIN plan.stackBases /\ onto = plan.stackBases[u]
            /\ tracking' = [tracking EXCEPT ![onto] = branch[onto]]
            /\ branch[onto] # {}
  BY <1>1, <1>3 DEF StartIssue, BaseOf
<1>5. MemoryInd /\ RepoInd
  BY DEF NightInd
<1>6. u \in Ahead /\ u \in ToSet(chains[1]) /\ u \in Issues
  BY <1>1, <1>3, <1>5, UpcomingIs, AheadSelected DEF MemoryInd, NightTyped
<1>7. /\ tracking \in [Targets -> SUBSET Issues] /\ base \in Targets
      /\ branch \in [Issues -> SUBSET Issues] /\ skipped \subseteq Issues
  BY <1>5 DEF MemoryInd, NightTyped, RepoInd, RepoTyped
<1>8. u \in DOMAIN plan.stackBases =>
        onto \in blockedBy[u] \cap skipped /\ onto \in Issues /\ onto \in branch[onto]
  BY <1>1, <1>4, <1>5, <1>7 DEF MemoryInd, Planned, RepoInd, BranchesOwn
<1>9. /\ onto \in Targets /\ tracking' \in [Targets -> SUBSET Issues]
      /\ tracking'[onto] \subseteq Issues
  <2>1. CASE u \in DOMAIN plan.stackBases
    BY <1>4, <1>7, <1>8, <2>1, DefaultIsNoIssue
  <2>2. CASE u \notin DOMAIN plan.stackBases
    BY <1>4, <1>7, <2>2
  <2> QED
    BY <2>1, <2>2
<1>10. NightTyped'
  <2>1. current' \in [number : Targets, onto : Targets, work : SUBSET Issues]
    BY <1>4, <1>6, <1>9, DefaultIsNoIssue
  <2> QED
    BY <1>1, <1>2, <1>5, <1>9, <2>1 DEF MemoryInd, NightTyped
<1>11. Disjoint(chains)' /\ Ahead' = Ahead
  BY <1>1, <1>5 DEF MemoryInd, Disjoint, Ahead, Members
<1>12. Phases'
  <2>1. current'.number = Upcoming'
    BY <1>1, <1>3, <1>4 DEF Upcoming
  <2> QED
    BY <1>1, <1>2, <2>1 DEF Phases
<1>13. Accounted'
  BY <1>1, <1>5, <1>11 DEF MemoryInd, Accounted
<1>14. Planned'
  BY <1>1, <1>5 DEF MemoryInd, Planned
<1>15. BaseIsGreen'
  <2>1. base # Default => base \in tracking'[base]
    <3>1. base # Default => base \in tracking[base]
      BY <1>5 DEF MemoryInd, BaseIsGreen
    <3> QED
      BY <1>4, <1>7, <1>8, <3>1
  <2> QED
    BY <1>1, <1>5, <2>1 DEF MemoryInd, BaseIsGreen
<1>16. plan.stackBases = << >> => u \notin DOMAIN plan.stackBases
  OBVIOUS
<1>17. BaseGathers'
  BY <1>1, <1>4, <1>5, <1>16 DEF MemoryInd, BaseGathers
<1>18. current'.onto = onto /\ current'.work = tracking'[onto] /\ current'.number = u
  BY <1>4
<1>19. OnItsBase'
  <2>1. onto # Default => onto \in tracking'[onto]
    <3>1. CASE u \in DOMAIN plan.stackBases
      BY <1>4, <1>7, <1>8, <3>1, DefaultIsNoIssue
    <3>2. CASE u \notin DOMAIN plan.stackBases
      <4>1. onto = base' /\ (base' # Default => base' \in tracking'[base'])
        BY <1>1, <1>4, <1>15, <3>2 DEF BaseIsGreen
      <4> QED
        BY <4>1
    <3> QED
      BY <3>1, <3>2
  <2>2. plan'.stackBases = << >> => onto = base' /\ tracking'[onto] = tracking'[base']
    BY <1>1, <1>4, <1>16
  <2> QED
    BY <1>18, <2>1, <2>2 DEF OnItsBase
<1>20. InItsBranch'
  BY <1>1 DEF InItsBranch
<1>21. StackedOnGreenOrNative'
  <2>1. onto # Default => \/ onto \in DOMAIN results' /\ results'[onto] = "ready"
                          \/ onto \in blockedBy'[u] \cap skipped'
    BY <1>1, <1>4, <1>5, <1>8 DEF MemoryInd, BaseIsGreen
  <2> QED
    BY <1>18, <2>1 DEF StackedOnGreenOrNative
<1>22. BuildsOnPrereqs'
  <2>1. u \in DOMAIN plan'.stackBases => plan'.stackBases[u] \in tracking'[onto]
    BY <1>1, <1>4, <1>7, <1>8, DefaultIsNoIssue
  <2>2. plan'.stackBases = << >> => plan'.prereqs[u] \subseteq tracking'[onto]
    <3>1. plan.prereqs[u] \subseteq shipped
      BY <1>1, <1>3 DEF Unshipped
    <3>2. plan.stackBases = << >> => plan.prereqs[u] \cap shipped \subseteq tracking[base]
      BY <1>1, <1>5, <1>6 DEF MemoryInd, BaseGathers
    <3> QED
      BY <1>1, <1>4, <1>16, <3>1, <3>2
  <2> QED
    BY <1>18, <2>1, <2>2 DEF BuildsOnPrereqs
<1>23. Untouched'
  BY <1>1, <1>11 DEF NightInd, Untouched
<1>24. RepoInd'
  BY <1>1, <1>5 DEF RepoInd, RepoTyped, BranchesOwn
<1> QED
  BY <1>10, <1>11, <1>12, <1>13, <1>14, <1>15, <1>17, <1>19, <1>20, <1>21, <1>22, <1>23, <1>24
     DEF NightInd, MemoryInd

LEMMA OpenDraftKeeps ==
  ASSUME NightInd, OpenDraft
  PROVE  NightInd'
<1>1. PICK c, w : c = current.number /\ w = current.work \cup {c}
  OBVIOUS
<1>2. /\ pc = "working" /\ pc' = "opened"
      /\ branch' = [branch EXCEPT ![c] = w]
      /\ tracking' = [tracking EXCEPT ![c] = branch'[c]]
      /\ pull' = [pull EXCEPT ![c] = "draft"]
      /\ target' = [target EXCEPT ![c] = current.onto]
      /\ UNCHANGED <<blockedBy, open, triaged, main, interrupts>>
      /\ UNCHANGED <<selected, skipped, plan, chains, base, current>>
      /\ UNCHANGED <<shipped, results, deferred, notStarted, stopped>>
  BY <1>1 DEF OpenDraft
<1>3. /\ chains # << >> /\ c = Upcoming /\ c \in Ahead /\ c \in Issues /\ c # Default
      /\ w \subseteq Issues /\ current.onto \in Targets /\ c \notin DOMAIN results /\ c \in w
  BY <1>1, <1>2, CurrentIs
<1>4. /\ branch \in [Issues -> SUBSET Issues] /\ tracking \in [Targets -> SUBSET Issues]
      /\ pull \in [Issues -> {"none", "draft", "ready", "merged", "closed"}]
      /\ target \in [Issues -> Targets]
      /\ base \in Targets
  BY DEF NightInd, RepoInd, RepoTyped, MemoryInd, NightTyped
<1>5. branch'[c] = w /\ tracking' = [tracking EXCEPT ![c] = w]
  BY <1>2, <1>3, <1>4
<1>6. /\ branch' \in [Issues -> SUBSET Issues]
      /\ pull' \in [Issues -> {"none", "draft", "ready", "merged", "closed"}]
      /\ target' \in [Issues -> Targets]
      /\ tracking' \in [Targets -> SUBSET Issues]
  BY <1>2, <1>3, <1>4, <1>5, DefaultIsNoIssue
<1>7. RepoInd'
  <2>1. BranchesOwn'
    BY <1>2, <1>3, <1>4 DEF NightInd, RepoInd, BranchesOwn
  <2> QED
    BY <1>2, <1>6, <2>1 DEF NightInd, RepoInd, RepoTyped
<1>8. base # c /\ tracking'[base] = tracking[base]
  <2>1. base # c
    BY <1>3 DEF NightInd, MemoryInd, BaseIsGreen
  <2> QED
    BY <1>3, <1>4, <1>5, <2>1
<1>9. tracking'[c] = w
  BY <1>3, <1>4, <1>5, DefaultIsNoIssue
<1>10. NightTyped'
  BY <1>2, <1>6 DEF NightInd, MemoryInd, NightTyped
<1>11. Disjoint(chains)' /\ Ahead' = Ahead
  BY <1>2 DEF NightInd, MemoryInd, Disjoint, Ahead, Members
<1>12. Phases' /\ Accounted'
  BY <1>2, <1>11 DEF NightInd, MemoryInd, Phases, Accounted, Upcoming
<1>13. Planned'
  BY <1>2 DEF NightInd, MemoryInd, Planned, Running
<1>14. BaseIsGreen'
  BY <1>2, <1>8 DEF NightInd, MemoryInd, BaseIsGreen
<1>15. BaseGathers'
  BY <1>2, <1>8 DEF NightInd, MemoryInd, BaseGathers, Running
<1>16. OnItsBase'
  BY <1>2, <1>8 DEF NightInd, MemoryInd, OnItsBase
<1>17. InItsBranch'
  BY <1>1, <1>2, <1>9 DEF InItsBranch
<1>18. StackedOnGreenOrNative' /\ BuildsOnPrereqs'
  BY <1>2 DEF StackedOnGreenOrNative, BuildsOnPrereqs
<1>19. Untouched'
  <2>1. \A n \in Ahead : branch[n] = {} /\ n \in Issues
    BY <1>2, AheadSelected DEF NightInd, Untouched, MemoryInd, NightTyped
  <2>2. \A n \in Ahead \ {c} : branch'[n] = {}
    BY <1>2, <1>4, <2>1
  <2> QED
    BY <1>1, <1>2, <1>11, <2>2 DEF Untouched
<1> QED
  BY <1>7, <1>10, <1>11, <1>12, <1>13, <1>14, <1>15, <1>16, <1>17, <1>18, <1>19 DEF NightInd, MemoryInd

LEMMA NightEndsKeeps ==
  ASSUME NightInd, NightEnds
  PROVE  NightInd'
<1>1. /\ pc = "next" /\ pc' = "over" /\ chains = << >>
      /\ UNCHANGED <<blockedBy, open, triaged, branch, pull, target, main, interrupts>>
      /\ UNCHANGED <<selected, skipped, plan, chains, base, current>>
      /\ UNCHANGED <<tracking, shipped, results, deferred, notStarted, stopped>>
  BY DEF NightEnds, repo, night
<1>2. RepoInd'
  BY <1>1 DEF NightInd, RepoInd, RepoTyped, BranchesOwn
<1>3. NightTyped'
  BY <1>1 DEF NightInd, MemoryInd, NightTyped
<1>4. Disjoint(chains)' /\ Ahead' = Ahead
  BY <1>1 DEF NightInd, MemoryInd, Disjoint, Ahead, Members
<1>5. Phases' /\ Accounted' /\ BaseIsGreen'
  BY <1>1, <1>4 DEF NightInd, MemoryInd, Phases, Accounted, BaseIsGreen
<1>6. /\ Planned' /\ BaseGathers' /\ OnItsBase' /\ InItsBranch' /\ Untouched'
      /\ StackedOnGreenOrNative' /\ BuildsOnPrereqs'
  BY <1>1 DEF Planned, BaseGathers, OnItsBase, InItsBranch, Untouched,
     StackedOnGreenOrNative, BuildsOnPrereqs, Running
<1> QED
  BY <1>2, <1>3, <1>4, <1>5, <1>6 DEF NightInd, MemoryInd

-----------------------------------------------------------------------------
(* Selection and planning.                                                 *)

LEMMA StandDownKeeps ==
  ASSUME NightInd, StandDown
  PROVE  NightInd'
<1>1. /\ pc = "selected" /\ pc' = "over" /\ notStarted' = selected
      /\ UNCHANGED <<blockedBy, open, triaged, branch, pull, target, main, interrupts>>
      /\ UNCHANGED <<selected, skipped, plan, chains, base, current>>
      /\ UNCHANGED <<tracking, shipped, results, deferred>>
  BY DEF StandDown, repo
<1>2. stopped' \in BOOLEAN
  BY Zenon DEF StandDown
<1>3. /\ chains = << >> /\ base = Default /\ shipped = {} /\ results = << >> /\ deferred = {}
      /\ NightTyped
  BY <1>1 DEF NightInd, MemoryInd, Phases, Unplanned
<1>4. DOMAIN results = {} /\ Ahead' = {} /\ Disjoint(chains')
  <2>1. chains' = << >>
    BY <1>1, <1>3
  <2> QED
    BY <1>3, <2>1 DEF Ahead, Members, Disjoint
<1>5. RepoInd'
  BY <1>1 DEF NightInd, RepoInd, RepoTyped, BranchesOwn
<1>6. NightTyped'
  BY <1>1, <1>2, <1>3 DEF NightTyped
<1>7. Phases' /\ BaseIsGreen'
  BY <1>1, <1>3 DEF Phases, BaseIsGreen
<1>8. Accounted'
  BY <1>1, <1>3, <1>4 DEF Accounted
<1>9. /\ Planned' /\ BaseGathers' /\ OnItsBase' /\ InItsBranch' /\ Untouched'
      /\ StackedOnGreenOrNative' /\ BuildsOnPrereqs'
  BY <1>1 DEF Planned, BaseGathers, OnItsBase, InItsBranch, Untouched,
     StackedOnGreenOrNative, BuildsOnPrereqs, Running
<1> QED
  BY <1>4, <1>5, <1>6, <1>7, <1>8, <1>9 DEF NightInd, MemoryInd, Disjoint

LEMMA SelectWorkKeeps ==
  ASSUME NightInd, SelectWork
  PROVE  NightInd'
<1> DEFINE matching == open \ triaged
           touched  == {n \in matching : branch[n] # {}}
           orphaned == touched \ Attempted(touched)
<1>1. /\ pc = "idle" /\ pc' \in {"over", "selected"} /\ (pc' = "over" => selected' = {})
      /\ branch' = [n \in Issues |-> IF n \in orphaned THEN {} ELSE branch[n]]
      /\ skipped' = Attempted(touched)
      /\ selected' = Oldest(matching \ Attempted(touched), MaxIssues)
      /\ tracking' = [tracking EXCEPT ![Default] = main]
      /\ UNCHANGED <<blockedBy, open, triaged, pull, target, main, interrupts>>
      /\ UNCHANGED <<plan, chains, base, current>>
      /\ UNCHANGED <<shipped, results, deferred, notStarted>>
  BY DEF SelectWork
<1>2. stopped' = stopped
  BY Zenon DEF SelectWork
<1>3. RepoInd /\ NightTyped /\ Unplanned
  BY <1>1 DEF NightInd, MemoryInd, Phases
<1>4. Unplanned'
  BY <1>1, <1>2, <1>3, Zenon DEF Unplanned
<1>5. /\ matching \subseteq Issues
      /\ Attempted(touched) \subseteq touched
      /\ selected' \subseteq matching \ Attempted(touched)
  BY <1>1, <1>3 DEF RepoInd, RepoTyped, Attempted, Oldest
<1>6. RepoInd'
  <2>1. branch' \in [Issues -> SUBSET Issues] /\ BranchesOwn'
    BY <1>1, <1>3 DEF RepoInd, RepoTyped, BranchesOwn
  <2> QED
    BY <1>1, <1>3, <2>1 DEF RepoInd, RepoTyped
<1>7. NightTyped'
  <2>1. tracking' \in [Targets -> SUBSET Issues] /\ skipped' \subseteq Issues /\ selected' \subseteq Issues
    BY <1>1, <1>3, <1>5 DEF NightTyped, RepoInd, RepoTyped
  <2>2. stopped' \in BOOLEAN
    BY <1>2, <1>3, Zenon DEF NightTyped
  <2>3. pc' \in {"idle", "selected", "next", "working", "opened", "over"}
    BY <1>1
  <2> QED
    BY <1>1, <1>3, <2>1, <2>2, <2>3 DEF NightTyped
<1>8. chains' = << >> /\ Ahead' = {} /\ Disjoint(chains') /\ DOMAIN results' = {}
  BY <1>4 DEF Unplanned, Ahead, Members, Disjoint
<1>9. Phases'
  BY <1>1, <1>4, <1>8 DEF Phases
<1>10. Accounted'
  BY <1>1, <1>4, <1>8 DEF Accounted, Unplanned
<1>11. BaseIsGreen'
  BY <1>4, <1>8 DEF BaseIsGreen, Unplanned
<1>12. Untouched'
  <2>1. ASSUME NEW n \in selected'
        PROVE  branch'[n] = {}
    <3>1. n \in Issues /\ n \in matching /\ n \notin Attempted(touched)
      BY <1>5
    <3>2. branch[n] # {} => n \in orphaned
      BY <3>1
    <3> QED
      BY <1>1, <3>1, <3>2
  <2> QED
    BY <1>1, <2>1 DEF Untouched
<1>13. /\ Planned' /\ BaseGathers' /\ OnItsBase' /\ InItsBranch'
       /\ StackedOnGreenOrNative' /\ BuildsOnPrereqs'
  BY <1>1 DEF Planned, BaseGathers, OnItsBase, InItsBranch,
     StackedOnGreenOrNative, BuildsOnPrereqs, Running
<1> QED
  BY <1>6, <1>7, <1>8, <1>9, <1>10, <1>11, <1>12, <1>13 DEF NightInd, MemoryInd, Disjoint

(* A plan of the selected issues, and its chains.                          *)
LEMMA PlannedChains ==
  ASSUME NightTyped, NEW p, p = PlanPrereqs(selected, Dependencies, InFlightPrereqs, [n \in Issues |-> 0])
  PROVE  /\ p.deferred \subseteq selected
         /\ ToSet(p.shippable) = selected \ p.deferred
         /\ \A n \in DOMAIN p.stackBases : p.stackBases[n] \in blockedBy[n] \cap skipped
         /\ p.shippable # << >> => \A conflicts \in Classifications(p.shippable) :
              /\ Disjoint(MergeGraphs(conflicts, p.prereqs))
              /\ Members(MergeGraphs(conflicts, p.prereqs)) = selected \ p.deferred
              /\ \A i \in 1 .. Len(MergeGraphs(conflicts, p.prereqs)) :
                   \A n \in ToSet(MergeGraphs(conflicts, p.prereqs)[i]) :
                     p.prereqs[n] \subseteq ToSet(MergeGraphs(conflicts, p.prereqs)[i])
<1> DEFINE rank  == [n \in Issues |-> 0]
           pre   == PreOf(selected, Dependencies)
           ships == selected \ p.deferred
<1>1. selected \subseteq Issues /\ selected \subseteq Nat /\ IsFiniteSet(selected)
      /\ \A n \in selected : rank[n] \in Nat
  BY DefaultIsNoIssue, FS_Subset DEF NightTyped
<1> HIDE DEF rank
<1>2. p = PlanPrereqs(selected, Dependencies, InFlightPrereqs, rank)
  BY DEF rank
<1>3. /\ p.deferred \subseteq selected
      /\ Sorted(p.shippable, ships, pre, rank)
      /\ ToSet(p.shippable) = ships
      /\ p.prereqs = [n \in ships |-> pre[n]]
      /\ \A n \in ships : pre[n] \subseteq ships
      /\ \E order : Ranked(ships, pre, order)
      /\ DOMAIN p.stackBases \subseteq selected
      /\ \A n \in DOMAIN p.stackBases :
           p.stackBases[n] \in Bases(selected, Dependencies[n], InFlightPrereqs)
  <2>1. PICK deps, inFlight : deps = Dependencies /\ inFlight = InFlightPrereqs
    OBVIOUS
  <2> DEFINE q == PlanPrereqs(selected, deps, inFlight, rank)
             qs == selected \ q.deferred
             qp == PreOf(selected, deps)
  <2>2. /\ q.deferred \subseteq selected
        /\ Sorted(q.shippable, qs, qp, rank)
        /\ ToSet(q.shippable) = qs
        /\ q.prereqs = [n \in qs |-> qp[n]]
        /\ \A n \in qs : qp[n] \subseteq qs
        /\ \E order : Ranked(qs, qp, order)
        /\ DOMAIN q.stackBases = {n \in qs : Bases(selected, deps[n], inFlight) # {}}
        /\ \A n \in DOMAIN q.stackBases : q.stackBases[n] \in Bases(selected, deps[n], inFlight)
    <3>1. RightPlan(q, selected, deps, inFlight, rank)
      BY <1>1, PlanPrereqsIs
    <3> QED
      BY <3>1, Zenon DEF RightPlan
  <2>3. p = q /\ pre = qp /\ ships = qs
    BY <1>2, <2>1
  <2>4. DOMAIN q.stackBases \subseteq selected
    BY <2>2
  <2> QED
    BY <2>1, <2>2, <2>3, <2>4, Zenon
<1>4. ASSUME NEW n \in DOMAIN p.stackBases
      PROVE  p.stackBases[n] \in blockedBy[n] \cap skipped
  <2>1. PICK q : q = p.stackBases[n]
    OBVIOUS
  <2>2. n \in selected /\ q \in Blockers(Dependencies[n]) /\ q \in DOMAIN InFlightPrereqs
    BY <1>3, <2>1 DEF Bases
  <2>3. q \in skipped
    BY <2>2 DEF InFlightPrereqs
  <2>4. q \in blockedBy[n]
    BY <2>2 DEF Blockers, Dependencies
  <2> QED
    BY <2>1, <2>3, <2>4
<1> HIDE DEF pre
<1>5. ASSUME p.shippable # << >>, NEW conflicts \in Classifications(p.shippable)
      PROVE  /\ Disjoint(MergeGraphs(conflicts, p.prereqs))
             /\ Members(MergeGraphs(conflicts, p.prereqs)) = ships
             /\ \A i \in 1 .. Len(MergeGraphs(conflicts, p.prereqs)) :
                  \A n \in ToSet(MergeGraphs(conflicts, p.prereqs)[i]) :
                    p.prereqs[n] \subseteq ToSet(MergeGraphs(conflicts, p.prereqs)[i])
  <2>1. PICK N, s, pr : N = ships /\ s = p.shippable /\ pr = p.prereqs
    OBVIOUS
  <2>2. /\ N \subseteq Nat /\ N \subseteq Issues /\ IsFiniteSet(N)
        /\ s \in Seq(N) /\ Different(s) /\ ToSet(s) = N /\ s # << >>
        /\ \A n \in N : pr[n] = pre[n] /\ pr[n] \subseteq N
    BY <1>1, <1>3, <1>5, <2>1, FS_Subset DEF Sorted
  <2>3. Divides(conflicts, N)
    BY <1>5, <2>1, <2>2, ClassifiedDivides
  <2>4. PICK order : Ranked(N, pr, order)
    <3>1. PICK order : Ranked(N, pre, order)
      BY <1>3, <2>1
    <3>2. Ranked(N, pr, order)
      BY <2>2, <3>1 DEF Ranked
    <3> QED
      BY <3>2
  <2>5. PICK m, at : m = MergeGraphs(conflicts, pr) /\ at = Positions(conflicts)
    OBVIOUS
  <2>6. /\ m \in Seq(Seq(N))
        /\ \A i \in 1 .. Len(m) :
             /\ m[i] # << >>
             /\ Sorted(m[i], ToSet(m[i]), pr, at)
             /\ Linkless(ToSet(m[i]), N, conflicts, pr)
        /\ UNION {ToSet(m[i]) : i \in 1 .. Len(m)} = N
        /\ \A i, j \in 1 .. Len(m) : ToSet(m[i]) \cap ToSet(m[j]) # {} => i = j
    <3>1. RightChains(m, N, conflicts, pr)
      BY <2>2, <2>3, <2>4, <2>5, MergeGraphsIs
    <3> QED
      BY <2>5, <3>1, Zenon DEF RightChains
  <2>7. m \in Seq(Seq(Issues))
    <3>1. Len(m) \in Nat /\ m \in [1 .. Len(m) -> Seq(N)]
      BY <2>6, LenProperties
    <3>2. Seq(N) \subseteq Seq(Issues)
      <4>1. N \subseteq Issues
        BY <2>2
      <4> QED
        BY <4>1
    <3>3. PICK len \in Nat : len = Len(m)
      BY <3>1
    <3>4. m \in [1 .. len -> Seq(Issues)]
      BY <3>1, <3>2, <3>3
    <3> QED
      BY <3>4, SeqDef
  <2>8. Disjoint(m)
    BY <2>6, <2>7 DEF Disjoint, Sorted
  <2>9. Members(m) = N
    BY <2>6 DEF Members
  <2>10. ASSUME NEW i \in 1 .. Len(m), NEW n \in ToSet(m[i])
         PROVE  pr[n] \subseteq ToSet(m[i])
    <3>1. n \in N
      BY <2>9, MembersIs
    <3> QED
      BY <2>2, <2>6, <3>1 DEF Linkless
  <2> QED
    BY <2>1, <2>5, <2>8, <2>9, <2>10
<1> QED
  BY <1>3, <1>4, <1>5

LEMMA PlanNightKeeps ==
  ASSUME NightInd, PlanNight
  PROVE  NightInd'
<1>1. /\ pc = "selected"
      /\ plan' = PlanPrereqs(selected, Dependencies, InFlightPrereqs, [n \in Issues |-> 0])
      /\ deferred' = plan'.deferred
      /\ UNCHANGED <<blockedBy, open, triaged, branch, pull, target, main, interrupts>>
      /\ UNCHANGED <<selected, skipped, base, current, shipped, results, notStarted>>
  BY DEF PlanNight, repo
<1>2. stopped' = stopped
  BY Zenon DEF PlanNight
<1>3. \/ /\ plan'.shippable = << >> /\ pc' = "over" /\ UNCHANGED <<chains, tracking>>
      \/ /\ plan'.shippable # << >> /\ pc' = "next"
         /\ \E conflicts \in Classifications(plan'.shippable) :
              chains' = MergeGraphs(conflicts, plan'.prereqs)
         /\ tracking' = [tracking EXCEPT ![Default] = main] \/ UNCHANGED tracking
  BY Zenon DEF PlanNight
<1>4. RepoInd /\ NightTyped /\ RepoTyped
  BY DEF NightInd, MemoryInd, RepoInd
<1>5. /\ chains = << >> /\ base = Default /\ current = NoIssue /\ shipped = {} /\ results = << >>
      /\ notStarted = {}
  BY <1>1 DEF NightInd, MemoryInd, Phases, Unplanned
<1>6. \A n \in selected : branch[n] = {}
  BY <1>1 DEF NightInd, Untouched
<1>7. DOMAIN results = {}
  BY <1>5
<1>8. stopped' \in BOOLEAN
  BY <1>2, <1>4, Zenon DEF NightTyped
<1>9. /\ plan'.deferred \subseteq selected
      /\ ToSet(plan'.shippable) = selected \ plan'.deferred
      /\ \A n \in DOMAIN plan'.stackBases : plan'.stackBases[n] \in blockedBy[n] \cap skipped
      /\ plan'.shippable # << >> => \A conflicts \in Classifications(plan'.shippable) :
           /\ Disjoint(MergeGraphs(conflicts, plan'.prereqs))
           /\ Members(MergeGraphs(conflicts, plan'.prereqs)) = selected \ plan'.deferred
           /\ \A i \in 1 .. Len(MergeGraphs(conflicts, plan'.prereqs)) :
                \A n \in ToSet(MergeGraphs(conflicts, plan'.prereqs)[i]) :
                  plan'.prereqs[n] \subseteq ToSet(MergeGraphs(conflicts, plan'.prereqs)[i])
  <2>1. PICK p : p = plan'
    OBVIOUS
  <2>2. p = PlanPrereqs(selected, Dependencies, InFlightPrereqs, [n \in Issues |-> 0])
    BY <1>1, <2>1
  <2> QED
    BY <1>4, <2>1, <2>2, PlannedChains, Zenon
<1>10. RepoInd'
  BY <1>1, <1>4 DEF RepoInd, RepoTyped, BranchesOwn
<1>11. /\ Disjoint(chains') /\ Ahead' = selected \ deferred'
       /\ \A i \in 1 .. Len(chains') : \A n \in ToSet(chains'[i]) :
            plan'.prereqs[n] \subseteq ToSet(chains'[i])
       /\ pc' = "over" => chains' = << >>
  <2>1. CASE pc' = "over"
    <3>1. plan'.shippable = << >> /\ chains' = << >>
      BY <1>3, <1>5, <2>1
    <3>2. ToSet(plan'.shippable) = {} /\ Members(chains') = {} /\ Disjoint(chains') /\ Len(chains') = 0
      BY <3>1 DEF ToSet, Members, Disjoint
    <3> QED
      BY <1>1, <1>9, <3>1, <3>2 DEF Ahead
  <2>2. CASE pc' # "over"
    <3>1. PICK conflicts \in Classifications(plan'.shippable) :
            chains' = MergeGraphs(conflicts, plan'.prereqs)
      BY <1>3, <2>2, Zenon
    <3>2. plan'.shippable # << >>
      BY <1>3, <2>2, Zenon
    <3>3. /\ Disjoint(chains') /\ Members(chains') = selected \ plan'.deferred
          /\ \A i \in 1 .. Len(chains') : \A n \in ToSet(chains'[i]) :
               plan'.prereqs[n] \subseteq ToSet(chains'[i])
      BY <1>9, <3>1, <3>2, Zenon
    <3> QED
      BY <1>1, <2>2, <3>3 DEF Ahead
  <2> QED
    BY <2>1, <2>2
<1>12. NightTyped'
  <2>1. tracking' \in [Targets -> SUBSET Issues]
    BY <1>3, <1>4 DEF NightTyped, RepoTyped
  <2>2. deferred' \subseteq Issues
    BY <1>1, <1>4, <1>9 DEF NightTyped
  <2>3. pc' \in {"idle", "selected", "next", "working", "opened", "over"}
    BY <1>3
  <2> QED
    BY <1>1, <1>4, <1>8, <2>1, <2>2, <2>3 DEF NightTyped
<1>13. pc' \in {"over", "next"}
  BY <1>3
<1>14. Phases'
  BY <1>11, <1>13 DEF Phases
<1>15. Accounted'
  BY <1>1, <1>5, <1>7, <1>9, <1>11 DEF Accounted
<1>16. Planned'
  <2>1. \A n \in DOMAIN plan'.stackBases : plan'.stackBases[n] \in blockedBy'[n] \cap skipped'
    BY <1>1, <1>9
  <2>2. \A i \in 2 .. Len(chains') : i \in 1 .. Len(chains')
    <3>1. PICK len \in Nat : len = Len(chains')
      BY <1>11, LenProperties DEF Disjoint
    <3> QED
      BY <3>1
  <2> QED
    BY <1>11, <2>1, <2>2 DEF Planned
<1>17. BaseIsGreen' /\ BaseGathers'
  BY <1>1, <1>5, <1>7 DEF BaseIsGreen, BaseGathers
<1>18. Untouched'
  <2>1. \A n \in Ahead' : branch'[n] = {}
    BY <1>1, <1>6, <1>11
  <2> QED
    BY <1>13, <2>1 DEF Untouched
<1>19. OnItsBase' /\ InItsBranch' /\ StackedOnGreenOrNative' /\ BuildsOnPrereqs'
  BY <1>13 DEF OnItsBase, InItsBranch, StackedOnGreenOrNative, BuildsOnPrereqs
<1> QED
  BY <1>10, <1>11, <1>12, <1>14, <1>15, <1>16, <1>17, <1>18, <1>19 DEF NightInd, MemoryInd, Disjoint

-----------------------------------------------------------------------------
(* Every step, and what follows.                                           *)

LEMMA NextKeeps ==
  ASSUME NightInd, [Next]_vars
  PROVE  NightInd'
<1>1. CASE UNCHANGED vars
  BY <1>1, StutterKeeps
<1>2. CASE SelectWork \/ StandDown \/ PlanNight
  BY <1>2, SelectWorkKeeps, StandDownKeeps, PlanNightKeeps
<1>3. CASE NightAborts \/ Rest
  BY <1>3, NightOverKeeps
<1>4. CASE BudgetStops \/ DeferUnshipped \/ DeferUnfetched \/ ModelConflict
  BY <1>4, AtIssueKeeps
<1>5. CASE StartIssue \/ OpenDraft \/ NightEnds
  BY <1>5, StartIssueKeeps, OpenDraftKeeps, NightEndsKeeps
<1>6. CASE \E outcome \in Outcomes : FinishWithoutPr(outcome) \/ FinishWithPr(outcome)
  BY <1>6, FinishWithoutPrKeeps, FinishWithPrKeeps
<1>7. CASE Interrupted
  BY <1>7, InterruptedKeeps
<1>8. CASE People
  BY <1>8, MergeKeeps, CloseKeeps DEF People
<1> QED
  BY <1>1, <1>2, <1>3, <1>4, <1>5, <1>6, <1>7, <1>8, Zenon DEF Next, Program, Chains

(* Every reachable state of every night satisfies the inductive            *)
(* invariant.                                                              *)
THEOREM NightInvariant == Spec => []NightInd
<1>1. Init => NightInd
  BY InitHolds
<1>2. NightInd /\ [Next]_vars => NightInd'
  BY NextKeeps
<1> QED
  BY <1>1, <1>2, PTL DEF Spec

(* The variables of the repository and of the night keep their types, and  *)
(* the chains hold selected issues only.                                   *)
THEOREM NightTypes == Spec => []TypeOK
<1>1. NightInd => TypeOK
  BY TypesFollow
<1> QED
  BY <1>1, NightInvariant, PTL

(* No selected issue is lost between the plan, the chains and the results, *)
(* or told two stories: runNightWithGit's summary has each one once.       *)
THEOREM IssuesAccounted == Spec => []EveryIssueAccounted
<1>1. NightInd => EveryIssueAccounted
  BY AccountsFollow
<1> QED
  BY <1>1, NightInvariant, PTL

(* Only a fresh or orphaned branch is written: the night's own issue has   *)
(* none when its work is pushed.                                           *)
LEMMA WorkingUntouched ==
  ASSUME NightInd, pc = "working"
  PROVE  current.number \in Issues /\ branch[current.number] = {}
<1>1. current.number \in Ahead /\ current.number \in Issues
  BY CurrentIs
<1> QED
  BY <1>1 DEF NightInd, Untouched

(* No step of a night touches the branch of an issue that has a pull       *)
(* request (resolveAttemptedBranches, and the idempotency it feeds).       *)
THEOREM ReviewedKept == Spec => ReviewedWorkIsKept
<1>1. ASSUME NightInd, [Next]_vars, pc # pc', NEW n \in Issues, branch[n] # {}, pull[n] # "none"
      PROVE  branch'[n] = branch[n]
  <2>0. branch \in [Issues -> SUBSET Issues]
    BY <1>1 DEF NightInd, RepoInd, RepoTyped
  <2>1. CASE UNCHANGED vars
    BY <1>1, <2>1 DEF vars
  <2>2. CASE People
    BY <1>1, <2>2 DEF People, MergePull, ClosePull
  <2>3. CASE SelectWork
    <3> DEFINE matching == open \ triaged
               touched  == {m \in matching : branch[m] # {}}
               orphaned == touched \ Attempted(touched)
    <3>1. branch' = [m \in Issues |-> IF m \in orphaned THEN {} ELSE branch[m]]
      BY <2>3 DEF SelectWork
    <3>2. n \notin orphaned
      BY <1>1 DEF Attempted
    <3> QED
      BY <3>1, <3>2
  <2>4. CASE OpenDraft
    <3>1. n # current.number
      BY <1>1, <2>4, WorkingUntouched DEF OpenDraft
    <3> QED
      BY <2>0, <2>4, <3>1 DEF OpenDraft
  <2>5. CASE \E outcome \in Outcomes : FinishWithoutPr(outcome)
    <3>1. PICK outcome \in Outcomes : FinishWithoutPr(outcome)
      BY <2>5
    <3>2. n # current.number
      BY <1>1, <3>1, WorkingUntouched DEF FinishWithoutPr
    <3> QED
      BY <2>0, <3>1, <3>2 DEF FinishWithoutPr
  <2>6. CASE Interrupted
    <3>1. CASE pc = "working"
      <4>1. n # current.number
        BY <1>1, <3>1, WorkingUntouched
      <4> QED
        BY <2>0, <2>6, <4>1 DEF Interrupted
    <3>2. CASE pc # "working"
      BY <2>6, <3>2 DEF Interrupted
    <3> QED
      BY <3>1, <3>2
  <2>7. CASE \E outcome \in Outcomes : FinishWithPr(outcome)
    BY <2>7 DEF FinishWithPr
  <2>8. CASE \/ StandDown \/ PlanNight \/ NightAborts \/ Rest \/ NightEnds \/ StartIssue
             \/ BudgetStops \/ DeferUnshipped \/ DeferUnfetched \/ ModelConflict
    BY <2>8 DEF StandDown, PlanNight, NightAborts, Rest, NightEnds, StartIssue,
       BudgetStops, DeferUnshipped, DeferUnfetched, ModelConflict, Defer, repo
  <2> QED
    BY <1>1, <2>1, <2>2, <2>3, <2>4, <2>5, <2>6, <2>7, <2>8, Zenon DEF Next, Program, Chains
<1>2. NightInd /\ [Next]_vars =>
        [pc # pc' => \A n \in Issues : branch[n] # {} /\ pull[n] # "none" => branch'[n] = branch[n]]_vars
  BY <1>1
<1> QED
  BY <1>2, NightInvariant, PTL DEF Spec, ReviewedWorkIsKept

(* A stacked issue is cut from, and proposed onto, work that is green or   *)
(* in flight for a native prerequisite, with what it waited for under it.  *)
THEOREM StacksSound == Spec => StacksAreSound
<1>1. ASSUME NightInd, [Next]_vars, NEW n \in Issues, pull[n] = "none", pull'[n] # "none",
             target'[n] # Default
      PROVE  target'[n] \in branch'[n]
  <2>0. /\ pull \in [Issues -> {"none", "draft", "ready", "merged", "closed"}]
        /\ branch \in [Issues -> SUBSET Issues] /\ target \in [Issues -> Targets]
    BY <1>1 DEF NightInd, RepoInd, RepoTyped
  <2>1. CASE UNCHANGED vars
    BY <1>1, <2>1 DEF vars, repo
  <2>2. CASE People
    <3>1. PICK m \in Issues : MergePull(m) \/ ClosePull(m)
      BY <2>2 DEF People
    <3>2. pull[m] # "none" /\ pull' \in {[pull EXCEPT ![m] = "merged"], [pull EXCEPT ![m] = "closed"]}
      BY <3>1 DEF MergePull, ClosePull
    <3> QED
      BY <1>1, <2>0, <3>2
  <2>3. CASE OpenDraft
    <3>1. PICK c, o : c = current.number /\ o = current.onto
      OBVIOUS
    <3>2. pc = "working" /\ c \in Issues
      BY <1>1, <2>3, <3>1, WorkingUntouched DEF OpenDraft
    <3>3. /\ branch' = [branch EXCEPT ![c] = current.work \cup {c}]
          /\ pull' = [pull EXCEPT ![c] = "draft"]
          /\ target' = [target EXCEPT ![c] = o]
      BY <2>3, <3>1 DEF OpenDraft
    <3>4. n = c
      BY <1>1, <2>0, <3>3
    <3>5. o # Default => o \in current.work
      BY <1>1, <3>1, <3>2 DEF NightInd, MemoryInd, OnItsBase
    <3> QED
      BY <1>1, <2>0, <3>2, <3>3, <3>4, <3>5
  <2>4. CASE \E outcome \in Outcomes : FinishWithPr(outcome)
    <3>1. PICK outcome \in Outcomes : FinishWithPr(outcome)
      BY <2>4
    <3>2. PICK c : c = current.number
      OBVIOUS
    <3>3. pull' = IF outcome = "ready" /\ pull[c] = "draft" THEN [pull EXCEPT ![c] = "ready"] ELSE pull
      BY <3>1, <3>2, Zenon DEF FinishWithPr
    <3>4. n = c => pull[c] # "draft"
      BY <1>1
    <3> QED
      BY <1>1, <2>0, <3>3, <3>4
  <2>5. CASE \/ SelectWork \/ StandDown \/ PlanNight \/ NightAborts \/ Rest \/ NightEnds \/ StartIssue
             \/ BudgetStops \/ DeferUnshipped \/ DeferUnfetched \/ ModelConflict \/ Interrupted
             \/ \E outcome \in Outcomes : FinishWithoutPr(outcome)
    BY <1>1, <2>5 DEF SelectWork, StandDown, PlanNight, NightAborts, Rest, NightEnds, StartIssue,
       BudgetStops, DeferUnshipped, DeferUnfetched, ModelConflict, Defer, Interrupted, FinishWithoutPr,
       repo
  <2> QED
    BY <1>1, <2>1, <2>2, <2>3, <2>4, <2>5, Zenon DEF Next, Program, Chains
<1>2. NightInd /\ [Next]_vars =>
        [\A n \in Issues : pull[n] = "none" /\ pull'[n] # "none" /\ target'[n] # Default =>
           target'[n] \in branch'[n]]_vars
  BY <1>1
<1>3. NightInd => StackedOnGreenOrNative /\ BuildsOnPrereqs
  BY DEF NightInd, MemoryInd
<1> QED
  BY <1>2, <1>3, NightInvariant, PTL DEF Spec, StacksAreSound, StacksShowOwnDiff

=============================================================================
