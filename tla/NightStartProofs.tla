--------------------------- MODULE NightStartProofs ---------------------------
(***************************************************************************)
(* How a night starts: proofs about ScheduledSlot, which of the runs may   *)
(* work tonight, for days of every length, every midnight, any set of      *)
(* triggers and faults, any number of runs and of fires; and about         *)
(* Selection, on which issues it works, for every set of issues and pull   *)
(* requests, label rule, priority labels, cap and number of nights.        *)
(***************************************************************************)
EXTENDS ScheduledSlot, Selection, PlanProofs

-----------------------------------------------------------------------------
(* Occurrences.                                                            *)

LEMMA AnchorIs ==
  ASSUME NEW t \in Nat
  PROVE  /\ Anchor(t) \in Nat /\ Anchor(t) <= t
         /\ \E q \in Nat : Anchor(t) = Day * q /\ t < Day * q + Day
<1>1. Day \in Nat /\ Day > 0
  BY TimeAssumption
<1>2. PICK r \in Nat : r = t % Day /\ r < Day
  BY <1>1
<1>3. PICK q \in Nat : q = t \div Day
  BY <1>1
<1>4. t = Day * q + r
  BY <1>1, <1>2, <1>3
<1>5. Anchor(t) = Day * q
  BY <1>1, <1>2, <1>4 DEF Anchor
<1> QED
  BY <1>1, <1>2, <1>4, <1>5

LEMMA AnchorMonotonic ==
  ASSUME NEW s \in Nat, NEW t \in Nat, s <= t
  PROVE  Anchor(s) <= Anchor(t)
<1>1. Day \in Nat /\ Day > 0
  BY TimeAssumption
<1>2. PICK p \in Nat : Anchor(s) = Day * p /\ s < Day * p + Day
  BY AnchorIs
<1>3. PICK q \in Nat : Anchor(t) = Day * q /\ t < Day * q + Day
  BY AnchorIs
<1>4. Day * p <= s
  BY <1>2, AnchorIs
<1>5. Day * p < Day * (q + 1)
  BY <1>1, <1>3, <1>4
<1>6. p <= q
  BY <1>1, <1>5
<1> QED
  BY <1>1, <1>2, <1>3, <1>6

LEMMA AnchorIdempotent ==
  ASSUME NEW t \in Nat
  PROVE  Anchor(Anchor(t)) = Anchor(t)
<1>1. Day \in Nat /\ Day > 0
  BY TimeAssumption
<1>2. PICK q \in Nat : Anchor(t) = Day * q
  BY AnchorIs
<1>3. (Day * q) % Day = 0
  BY <1>1
<1> QED
  BY <1>1, <1>2, <1>3 DEF Anchor

(* Times since the occurrence of t began, up to t, are of t's occurrence.  *)
LEMMA AnchorSince ==
  ASSUME NEW c \in Nat, NEW t \in Nat, c <= t
  PROVE  c >= Anchor(t) <=> Anchor(c) = Anchor(t)
<1>1. Anchor(t) \in Nat /\ Anchor(c) \in Nat /\ Anchor(c) <= c /\ Anchor(c) <= Anchor(t)
  BY AnchorIs, AnchorMonotonic
<1>2. CASE c >= Anchor(t)
  <2>1. Anchor(Anchor(t)) <= Anchor(c)
    BY <1>1, <1>2, AnchorMonotonic
  <2> QED
    BY <1>1, <1>2, <2>1, AnchorIdempotent
<1> QED
  BY <1>1, <1>2

(* The clock leaves an occurrence only by reaching the next one.           *)
LEMMA AnchorNext ==
  ASSUME NEW t \in Nat, t + 1 # Anchor(t + 1)
  PROVE  Anchor(t + 1) = Anchor(t)
<1>1. Anchor(t + 1) \in Nat /\ Anchor(t + 1) <= t
  BY AnchorIs
<1>2. Anchor(t) \in Nat /\ Anchor(t) <= Anchor(t + 1)
  BY <1>1, AnchorIs, AnchorMonotonic
<1>3. Anchor(Anchor(t + 1)) <= Anchor(t)
  BY <1>1, AnchorMonotonic
<1> QED
  BY <1>1, <1>2, <1>3, AnchorIdempotent

-----------------------------------------------------------------------------
(* How the list of runs changes.                                           *)

RunRecords == [by : {"cron", "host", "manual"}, created : 0 .. Horizon,
               night : {"none", "guarded", "unguarded"},
               status : Statuses, conclusion : Conclusions]

(* A list of records, whatever builds it entry by entry.                   *)
LEMMA ListIs ==
  ASSUME NEW list, NEW n \in Nat, NEW S, list \in [1 .. n -> S]
  PROVE  list \in Seq(S) /\ Len(list) = n /\ DOMAIN list = 1 .. n
<1>1. list \in Seq(S)
  BY SeqDef
<1>2. DOMAIN list = 1 .. n
  OBVIOUS
<1>3. Len(list) = n
  BY <1>1, <1>2, LenProperties
<1> QED
  BY <1>1, <1>2, <1>3

(* A new run comes last; the one that waited is cancelled.                 *)
LEMMA CreateIs ==
  ASSUME runs \in Seq(RunRecords), now \in 0 .. Horizon,
         NEW by \in {"cron", "host", "manual"}, Create(by)
  PROVE  /\ runs' \in Seq(RunRecords) /\ Len(runs') = Len(runs) + 1
         /\ \A i \in 1 .. Len(runs) :
              /\ runs'[i].by = runs[i].by /\ runs'[i].created = runs[i].created
              /\ runs'[i].night = runs[i].night
              /\ runs[i].status = "pending" =>
                   runs'[i].status = "completed" /\ runs'[i].conclusion = "cancelled"
              /\ runs[i].status # "pending" =>
                   runs'[i].status = runs[i].status /\ runs'[i].conclusion = runs[i].conclusion
         /\ LET run == runs'[Len(runs) + 1]
            IN  /\ run.by = by /\ run.created = now
                /\ run.night = "none" /\ run.conclusion = "none"
                /\ run.status = IF Holding = {} THEN "queued" ELSE "pending"
<1> DEFINE older == [i \in DOMAIN runs |->
                       IF i \in Waiting THEN Finished(runs[i], "cancelled") ELSE runs[i]]
           newest == [by |-> by, created |-> now, night |-> "none",
                      status |-> IF Holding = {} THEN "queued" ELSE "pending",
                      conclusion |-> "none"]
<1>1. Len(runs) \in Nat /\ DOMAIN runs = 1 .. Len(runs)
      /\ \A i \in 1 .. Len(runs) : runs[i] \in RunRecords
  BY LenProperties, ElementOfSeq
<1>2. newest \in RunRecords
  BY DEF RunRecords, Statuses, Conclusions
<1>3. \A i \in 1 .. Len(runs) : older[i] \in RunRecords
  BY <1>1 DEF Finished, RunRecords, Statuses, Conclusions
<1>4. older \in Seq(RunRecords) /\ Len(older) = Len(runs)
  BY <1>1, <1>3, ListIs
<1>5. \A i \in 1 .. Len(runs) :
        /\ older[i].by = runs[i].by /\ older[i].created = runs[i].created
        /\ older[i].night = runs[i].night
        /\ runs[i].status = "pending" =>
             older[i].status = "completed" /\ older[i].conclusion = "cancelled"
        /\ runs[i].status # "pending" =>
             older[i].status = runs[i].status /\ older[i].conclusion = runs[i].conclusion
  BY <1>1 DEF Waiting, Finished, RunRecords
<1>6. runs' = Append(older, newest)
  BY DEF Create, Arrival
<1>7. /\ newest.by = by /\ newest.created = now
      /\ newest.night = "none" /\ newest.conclusion = "none"
      /\ newest.status = IF Holding = {} THEN "queued" ELSE "pending"
  OBVIOUS
<1> HIDE DEF older, newest
<1>8. /\ runs' \in Seq(RunRecords) /\ Len(runs') = Len(runs) + 1
      /\ \A i \in 1 .. Len(runs) : runs'[i] = older[i]
      /\ runs'[Len(runs) + 1] = newest
  BY <1>2, <1>4, <1>6, AppendProperties
<1> QED
  BY <1>5, <1>7, <1>8

(* A run that is over gives the group to the one that waits.               *)
LEMMA ReleaseIs ==
  ASSUME runs \in Seq(RunRecords), NEW i \in DOMAIN runs,
         NEW conclusion \in {"success", "failure"}, Release(i, Finished(runs[i], conclusion))
  PROVE  /\ runs' \in Seq(RunRecords) /\ Len(runs') = Len(runs)
         /\ \A j \in 1 .. Len(runs) :
              /\ runs'[j].by = runs[j].by /\ runs'[j].created = runs[j].created
              /\ runs'[j].night = runs[j].night
              /\ j # i => runs'[j].conclusion = runs[j].conclusion
              /\ j # i => runs'[j].status = IF runs[j].status = "pending" THEN "queued"
                                            ELSE runs[j].status
         /\ runs'[i].status = "completed" /\ runs'[i].conclusion = conclusion
<1>1. Len(runs) \in Nat /\ DOMAIN runs = 1 .. Len(runs)
      /\ \A j \in 1 .. Len(runs) : runs[j] \in RunRecords
  BY LenProperties, ElementOfSeq
<1>2. runs' = [j \in DOMAIN runs |->
                 IF j = i THEN Finished(runs[i], conclusion)
                 ELSE IF j \in Waiting THEN [runs[j] EXCEPT !.status = "queued"] ELSE runs[j]]
  BY DEF Release
<1>3. \A j \in 1 .. Len(runs) : runs'[j] \in RunRecords
  BY <1>1, <1>2 DEF Finished, RunRecords, Statuses, Conclusions
<1>4. runs' \in Seq(RunRecords) /\ Len(runs') = Len(runs)
  BY <1>1, <1>2, <1>3, ListIs
<1> QED
  BY <1>1, <1>2, <1>4 DEF Finished, Waiting, RunRecords

(* A night that begins changes its own run only.                           *)
LEMMA BeginIs ==
  ASSUME runs \in Seq(RunRecords), NEW i \in DOMAIN runs, NEW night \in {"guarded", "unguarded"},
         runs' = [runs EXCEPT ![i].status = "in_progress", ![i].night = night]
  PROVE  /\ runs' \in Seq(RunRecords) /\ Len(runs') = Len(runs)
         /\ \A j \in 1 .. Len(runs) :
              /\ runs'[j].by = runs[j].by /\ runs'[j].created = runs[j].created
              /\ runs'[j].conclusion = runs[j].conclusion
              /\ j # i => runs'[j] = runs[j]
         /\ runs'[i].status = "in_progress" /\ runs'[i].night = night
<1>1. Len(runs) \in Nat /\ DOMAIN runs = 1 .. Len(runs)
      /\ \A j \in 1 .. Len(runs) : runs[j] \in RunRecords
  BY LenProperties, ElementOfSeq
<1> DEFINE run == [runs[i] EXCEPT !.status = "in_progress", !.night = night]
<1>2. /\ run \in RunRecords
      /\ run.by = runs[i].by /\ run.created = runs[i].created
      /\ run.conclusion = runs[i].conclusion
      /\ run.status = "in_progress" /\ run.night = night
  BY <1>1 DEF RunRecords, Statuses
<1>3. runs' = [runs EXCEPT ![i] = run]
  BY <1>1 DEF RunRecords
<1> HIDE DEF run
<1>4. \A j \in 1 .. Len(runs) : runs'[j] = IF j = i THEN run ELSE runs[j]
  BY <1>1, <1>3
<1>5. runs' \in [1 .. Len(runs) -> RunRecords]
  BY <1>1, <1>2, <1>3
<1>6. runs' \in Seq(RunRecords) /\ Len(runs') = Len(runs)
  BY <1>1, <1>5, ListIs
<1> QED
  BY <1>1, <1>2, <1>4, <1>6

-----------------------------------------------------------------------------
(* The inductive invariant.                                                *)

(* TypeOK without its counting.                                            *)
Types ==
  /\ trigger \in Triggers /\ now \in 0 .. Horizon
  /\ cronSpent \in BOOLEAN /\ fires \in 0 .. MaxFires
  /\ host \in {"idle", "dispatching"} /\ checked \in BOOLEAN
  /\ runs \in Seq(RunRecords)

(* The concurrency group: one run at most holds it and one waits for it,   *)
(* which none does while it is free.                                       *)
OneHolds ==
  /\ \A i, j \in Holding : i = j
  /\ \A i, j \in Waiting : i = j
  /\ Waiting # {} => Holding # {}

RunsByAge ==
  \A i, j \in DOMAIN runs :
    i <= j => runs[i].created <= runs[j].created /\ runs[j].created <= now

(* A run's status goes with its night and its conclusion.                  *)
Stages ==
  \A i \in DOMAIN runs :
    /\ runs[i].status \in {"queued", "pending"} => runs[i].night = "none"
    /\ runs[i].status = "in_progress" => runs[i].night # "none"
    /\ runs[i].status # "completed" => runs[i].conclusion = "none"

(* Run j has had its turn, or has it now.                                  *)
HadTurn(j) ==
  \/ runs[j].status \in {"queued", "in_progress"}
  \/ runs[j].night # "none"
  \/ runs[j].conclusion = "success"

(* The group is handed on in order: when a run has its turn those before   *)
(* it are over.                                                            *)
InTurn == \A i, j \in DOMAIN runs : i < j /\ HadTurn(j) => runs[i].status = "completed"

(* With no cron in the workflow the host's check is enough by itself: it   *)
(* makes one scheduled run an occurrence at most.  (The guard counts by    *)
(* UTC day then, and a day ends within an occurrence.)                     *)
OneHostRun ==
  trigger = "host-scheduler" =>
    /\ cronSpent
    /\ \A i, j \in DOMAIN runs :
         i < j /\ runs[i].by # "manual" /\ runs[j].by # "manual"
           => Anchor(runs[i].created) # Anchor(runs[j].created)
    /\ host = "dispatching" =>
         \A i \in DOMAIN runs : runs[i].by # "manual" => Anchor(runs[i].created) # Anchor(now)

SlotInd == Types /\ OneHolds /\ RunsByAge /\ Stages /\ InTurn /\ OneHostRun

LEMMA ListFacts ==
  ASSUME Types
  PROVE  /\ Len(runs) \in Nat /\ DOMAIN runs = 1 .. Len(runs)
         /\ \A i \in 1 .. Len(runs) : runs[i] \in RunRecords /\ runs[i].created \in Nat
         /\ now \in Nat
<1>1. Len(runs) \in Nat /\ DOMAIN runs = 1 .. Len(runs)
      /\ \A i \in 1 .. Len(runs) : runs[i] \in RunRecords
  BY LenProperties, ElementOfSeq DEF Types
<1>2. now \in Nat /\ \A i \in 1 .. Len(runs) : runs[i].created \in Nat
  BY <1>1, TimeAssumption DEF Types, RunRecords
<1> QED
  BY <1>1, <1>2

LEMMA InitSlotInd == Init => SlotInd
<1> SUFFICES ASSUME Init
             PROVE  SlotInd
  OBVIOUS
<1>1. runs = << >> /\ runs \in Seq(RunRecords) /\ DOMAIN runs = {}
  BY EmptySeq DEF Init
<1>2. now \in 0 .. Horizon /\ fires \in 0 .. MaxFires
  BY TimeAssumption, BoundsAssumption DEF Init
<1>3. cronSpent \in BOOLEAN /\ checked \in BOOLEAN
  BY Zenon DEF Init
<1>4. Types
  BY <1>1, <1>2, <1>3 DEF Init, Types
<1> QED
  BY <1>1, <1>4 DEF Init, SlotInd, OneHolds, Holding, Waiting, RunsByAge, Stages, InTurn, OneHostRun

(* What a step does to the list keeps the invariant's conjuncts about it.  *)
ListInd == runs \in Seq(RunRecords) /\ OneHolds /\ RunsByAge /\ Stages /\ InTurn

LEMMA CreateKeeps ==
  ASSUME SlotInd, NEW by \in {"cron", "host", "manual"}, Create(by), now' = now
  PROVE  ListInd'
<1>1. /\ Len(runs) \in Nat /\ DOMAIN runs = 1 .. Len(runs)
      /\ \A i \in 1 .. Len(runs) : runs[i] \in RunRecords /\ runs[i].created \in Nat
      /\ now \in Nat /\ now \in 0 .. Horizon /\ runs \in Seq(RunRecords)
  BY ListFacts DEF SlotInd, Types
<1> DEFINE n == Len(runs)
<1>2. /\ runs' \in Seq(RunRecords) /\ Len(runs') = n + 1 /\ DOMAIN runs' = 1 .. n + 1
      /\ \A i \in 1 .. n :
              /\ runs'[i].by = runs[i].by /\ runs'[i].created = runs[i].created
              /\ runs'[i].night = runs[i].night
              /\ runs[i].status = "pending" =>
                   runs'[i].status = "completed" /\ runs'[i].conclusion = "cancelled"
              /\ runs[i].status # "pending" =>
                   runs'[i].status = runs[i].status /\ runs'[i].conclusion = runs[i].conclusion
      /\ runs'[n + 1].by = by /\ runs'[n + 1].created = now
      /\ runs'[n + 1].night = "none" /\ runs'[n + 1].conclusion = "none"
      /\ runs'[n + 1].status = IF Holding = {} THEN "queued" ELSE "pending"
  BY <1>1, CreateIs, LenProperties
<1>3. /\ \A i \in 1 .. n : i \in Holding' <=> i \in Holding
      /\ \A i \in 1 .. n : i \notin Waiting'
      /\ Holding' \subseteq 1 .. n + 1 /\ Waiting' \subseteq 1 .. n + 1
      /\ Holding \subseteq 1 .. n
      /\ n + 1 \in Holding' <=> Holding = {}
      /\ n + 1 \in Waiting' <=> Holding # {}
  BY <1>1, <1>2 DEF Holding, Waiting
<1>4. OneHolds'
  <2>0. \A k \in 1 .. n + 1 : k \in 1 .. n \/ k = n + 1
    BY <1>1
  <2>1. CASE Holding = {}
    <3>1. \A k \in Holding' : k = n + 1
      BY <1>3, <2>1, <2>0
    <3>2. Waiting' = {}
      BY <1>3, <2>1, <2>0
    <3> QED
      BY <3>1, <3>2 DEF OneHolds
  <2>2. CASE Holding # {}
    <3>1. \A k \in Holding' : k \in Holding
      BY <1>3, <2>2, <2>0
    <3>2. \A k \in Waiting' : k = n + 1
      BY <1>3, <2>0
    <3>3. Holding' # {}
      BY <1>3, <2>2
    <3> QED
      BY <3>1, <3>2, <3>3 DEF SlotInd, OneHolds
  <2> QED
    BY <2>1, <2>2
<1>5. RunsByAge'
  BY <1>1, <1>2 DEF SlotInd, RunsByAge
<1>6. Stages'
  BY <1>1, <1>2 DEF SlotInd, Stages
<1>7. InTurn'
  <2> SUFFICES ASSUME NEW i \in 1 .. n + 1, NEW j \in 1 .. n + 1, i < j, HadTurn(j)'
               PROVE  runs'[i].status = "completed"
    BY <1>2 DEF InTurn
  <2>1. i \in 1 .. n
    BY <1>1
  <2>2. CASE j \in 1 .. n
    <3>1. CASE runs[j].status = "pending"
      <4>1. runs'[j].status = "completed" /\ runs'[j].conclusion = "cancelled"
            /\ runs'[j].night = "none"
        BY <1>1, <1>2, <2>2, <3>1 DEF SlotInd, Stages
      <4> QED
        BY <4>1 DEF HadTurn
    <3>2. CASE runs[j].status # "pending"
      <4>1. HadTurn(j)
        BY <1>2, <2>2, <3>2 DEF HadTurn
      <4> QED
        BY <1>1, <1>2, <2>1, <2>2, <4>1 DEF SlotInd, InTurn
    <3> QED
      BY <3>1, <3>2
  <2>3. CASE j = n + 1
    <3>1. Holding = {}
      BY <1>2, <2>3 DEF HadTurn
    <3>2. Waiting = {}
      BY <3>1 DEF SlotInd, OneHolds
    <3>3. runs[i].status \in Statuses
      BY <1>1, <2>1 DEF RunRecords
    <3>4. runs[i].status = "completed"
      BY <1>1, <2>1, <3>1, <3>2, <3>3 DEF Holding, Waiting, Statuses
    <3> QED
      BY <1>2, <2>1, <3>4
  <2> QED
    BY <1>1, <2>2, <2>3
<1> QED
  BY <1>2, <1>4, <1>5, <1>6, <1>7 DEF ListInd

LEMMA ReleaseKeeps ==
  ASSUME SlotInd, NEW i \in DOMAIN runs, runs[i].status \in {"queued", "in_progress"},
         NEW conclusion \in {"success", "failure"}, Release(i, Finished(runs[i], conclusion)),
         now' = now
  PROVE  ListInd'
<1>1. /\ Len(runs) \in Nat /\ DOMAIN runs = 1 .. Len(runs)
      /\ \A j \in 1 .. Len(runs) : runs[j] \in RunRecords /\ runs[j].created \in Nat
      /\ runs \in Seq(RunRecords)
  BY ListFacts DEF SlotInd, Types
<1> DEFINE n == Len(runs)
<1>2. /\ runs' \in Seq(RunRecords) /\ Len(runs') = n /\ DOMAIN runs' = 1 .. n
      /\ \A j \in 1 .. n :
           /\ runs'[j].by = runs[j].by /\ runs'[j].created = runs[j].created
           /\ runs'[j].night = runs[j].night
           /\ j # i => runs'[j].conclusion = runs[j].conclusion
           /\ j # i => runs'[j].status = IF runs[j].status = "pending" THEN "queued"
                                         ELSE runs[j].status
      /\ runs'[i].status = "completed" /\ runs'[i].conclusion = conclusion
  BY <1>1, ReleaseIs, LenProperties
<1>3. Holding = {i}
  BY <1>1 DEF SlotInd, OneHolds, Holding
<1>4. i \notin Waiting /\ Holding' = Waiting /\ Waiting' = {}
  BY <1>1, <1>2, <1>3 DEF Holding, Waiting
<1>5. OneHolds'
  BY <1>3, <1>4 DEF SlotInd, OneHolds
<1>6. RunsByAge'
  BY <1>1, <1>2 DEF SlotInd, RunsByAge
<1>7. Stages'
  BY <1>1, <1>2 DEF SlotInd, Stages
<1>8. InTurn'
  <2> SUFFICES ASSUME NEW k \in 1 .. n, NEW j \in 1 .. n, k < j, HadTurn(j)'
               PROVE  runs'[k].status = "completed"
    BY <1>2 DEF InTurn
  <2>1. CASE j \in Waiting
    <3>1. k \notin Waiting /\ (k = i \/ k \notin Holding)
      BY <1>1, <1>3, <2>1 DEF SlotInd, OneHolds
    <3> QED
      BY <1>1, <1>2, <3>1 DEF Holding, Waiting, RunRecords, Statuses
  <2>2. CASE j \notin Waiting
    <3>1. HadTurn(j)
      BY <1>1, <1>2, <1>3, <2>2 DEF HadTurn, Waiting
    <3>2. runs[k].status = "completed"
      BY <1>1, <3>1 DEF SlotInd, InTurn
    <3> QED
      BY <1>2, <3>2
  <2> QED
    BY <2>1, <2>2
<1> QED
  BY <1>2, <1>5, <1>6, <1>7, <1>8 DEF ListInd

LEMMA BeginKeeps ==
  ASSUME SlotInd, NEW i \in DOMAIN runs, runs[i].status = "queued",
         NEW night \in {"guarded", "unguarded"}, now' = now,
         runs' = [runs EXCEPT ![i].status = "in_progress", ![i].night = night]
  PROVE  ListInd'
<1>1. /\ Len(runs) \in Nat /\ DOMAIN runs = 1 .. Len(runs)
      /\ \A j \in 1 .. Len(runs) : runs[j] \in RunRecords /\ runs[j].created \in Nat
      /\ runs \in Seq(RunRecords)
  BY ListFacts DEF SlotInd, Types
<1> DEFINE n == Len(runs)
<1>2. /\ runs' \in Seq(RunRecords) /\ Len(runs') = n /\ DOMAIN runs' = 1 .. n
      /\ \A j \in 1 .. n :
           /\ runs'[j].by = runs[j].by /\ runs'[j].created = runs[j].created
           /\ runs'[j].conclusion = runs[j].conclusion
           /\ j # i => runs'[j] = runs[j]
      /\ runs'[i].status = "in_progress" /\ runs'[i].night = night
  BY <1>1, BeginIs, LenProperties
<1>3. Holding' = Holding /\ Waiting' = Waiting
  BY <1>1, <1>2 DEF Holding, Waiting
<1>4. OneHolds'
  BY <1>3 DEF SlotInd, OneHolds
<1>5. RunsByAge'
  BY <1>1, <1>2 DEF SlotInd, RunsByAge
<1>6. Stages'
  BY <1>1, <1>2 DEF SlotInd, Stages
<1>7. InTurn'
  <2> SUFFICES ASSUME NEW k \in 1 .. n, NEW j \in 1 .. n, k < j, HadTurn(j)'
               PROVE  runs'[k].status = "completed"
    BY <1>2 DEF InTurn
  <2>1. HadTurn(j)
    BY <1>1, <1>2 DEF HadTurn
  <2>2. runs[k].status = "completed"
    BY <1>1, <2>1 DEF SlotInd, InTurn
  <2> QED
    BY <1>2, <2>2
<1> QED
  BY <1>2, <1>4, <1>5, <1>6, <1>7 DEF ListInd

(* A step that neither creates a run for the host nor moves the clock      *)
(* keeps the host's one run an occurrence.                                 *)
LEMMA HostRunKept ==
  ASSUME SlotInd, trigger' = trigger, now' = now, cronSpent => cronSpent',
         host' = "dispatching" => host = "dispatching",
         DOMAIN runs \subseteq DOMAIN runs',
         \A i \in DOMAIN runs : runs'[i].by = runs[i].by /\ runs'[i].created = runs[i].created,
         \A i \in DOMAIN runs' \ DOMAIN runs : trigger = "host-scheduler" => runs'[i].by = "manual"
  PROVE  OneHostRun'
<1> SUFFICES ASSUME trigger = "host-scheduler"
             PROVE  OneHostRun'
  BY DEF OneHostRun
<1>1. ASSUME NEW i \in DOMAIN runs', runs'[i].by # "manual"
      PROVE  i \in DOMAIN runs /\ runs'[i].created = runs[i].created /\ runs[i].by # "manual"
  BY <1>1
<1>2. \A i, j \in DOMAIN runs' :
        i < j /\ runs'[i].by # "manual" /\ runs'[j].by # "manual"
          => Anchor(runs'[i].created) # Anchor(runs'[j].created)
  BY <1>1 DEF SlotInd, OneHostRun
<1>3. host' = "dispatching" =>
        \A i \in DOMAIN runs' : runs'[i].by # "manual" => Anchor(runs'[i].created) # Anchor(now')
  BY <1>1 DEF SlotInd, OneHostRun
<1>4. \A i : Anchor(runs[i].created)' = Anchor(runs'[i].created)
  BY DEF Anchor
<1>5. Anchor(now)' = Anchor(now')
  BY DEF Anchor
<1> QED
  BY <1>2, <1>3, <1>5 DEF SlotInd, OneHostRun, Anchor

LEMMA NextSlotInd == SlotInd /\ [Next]_vars => SlotInd'
<1> SUFFICES ASSUME SlotInd, [Next]_vars
             PROVE  SlotInd'
  OBVIOUS
<1>0. /\ Len(runs) \in Nat /\ DOMAIN runs = 1 .. Len(runs)
      /\ \A i \in 1 .. Len(runs) : runs[i] \in RunRecords /\ runs[i].created \in Nat
      /\ now \in Nat /\ now \in 0 .. Horizon /\ runs \in Seq(RunRecords) /\ Types
      /\ Horizon \in Nat /\ MaxFires \in Nat
  BY ListFacts, TimeAssumption, BoundsAssumption DEF SlotInd, Types
<1>1. CASE Tick
  <2>0. /\ cronSpent' \in BOOLEAN
        /\ trigger = "host-scheduler" /\ cronSpent => cronSpent'
    BY <1>0, <1>1, Zenon DEF Tick, Types
  <2>8. /\ now' = Anchor(now') => host = "idle"
        /\ checked' = FALSE \/ checked' = checked
        /\ fires' = 0 \/ fires' = fires
    BY <1>1, Zenon DEF Tick
  <2>9. checked' \in BOOLEAN
    BY <1>0, <2>8, Zenon DEF Types
  <2>1. /\ now' = now + 1 /\ now' \in 0 .. Horizon /\ UNCHANGED <<trigger, host, runs>>
        /\ now' = Anchor(now') => host = "idle"
    BY <1>0, <1>1, <2>8 DEF Tick
  <2>2. Types'
    BY <1>0, <2>0, <2>1, <2>8, <2>9 DEF Types
  <2>3. (OneHolds /\ Stages /\ InTurn)'
    BY <2>1 DEF SlotInd, OneHolds, Holding, Waiting, Stages, InTurn, HadTurn
  <2>4. RunsByAge'
    BY <1>0, <2>1 DEF SlotInd, RunsByAge
  <2>5. OneHostRun'
    <3>1. host = "dispatching" => Anchor(now') = Anchor(now)
      BY <1>0, <2>1, AnchorNext
    <3> QED
      BY <2>0, <2>1, <3>1 DEF SlotInd, OneHostRun, Anchor
  <2> QED
    BY <2>2, <2>3, <2>4, <2>5 DEF SlotInd
<1>2. CASE CronFires
  <2>1. ListInd' /\ now' = now
    BY <1>2, CreateKeeps DEF CronFires
  <2>2. Types'
    BY <1>2, <2>1 DEF SlotInd, Types, ListInd, CronFires
  <2>3. trigger # "host-scheduler"
    BY <1>2 DEF SlotInd, OneHostRun, CronFires
  <2>4. OneHostRun'
    BY <1>2, <2>3 DEF OneHostRun, CronFires
  <2> QED
    BY <2>1, <2>2, <2>4 DEF SlotInd, ListInd
<1>3. CASE ManualDispatch
  <2>1. ListInd' /\ now' = now
    BY <1>3, CreateKeeps DEF ManualDispatch
  <2>2. Types'
    BY <1>3, <2>1 DEF SlotInd, Types, ListInd, ManualDispatch
  <2>3. /\ DOMAIN runs' = 1 .. Len(runs) + 1
        /\ \A i \in 1 .. Len(runs) : runs'[i].by = runs[i].by /\ runs'[i].created = runs[i].created
        /\ runs'[Len(runs) + 1].by = "manual"
    BY <1>0, <1>3, CreateIs, LenProperties DEF ManualDispatch
  <2>4. OneHostRun'
    BY <1>0, <1>3, <2>1, <2>3, HostRunKept DEF ManualDispatch
  <2> QED
    BY <2>1, <2>2, <2>4 DEF SlotInd, ListInd
<1>4. CASE HostChecks
  <2>1. UNCHANGED <<trigger, now, cronSpent, runs>> /\ trigger # "github-cron"
    BY <1>4 DEF HostChecks
  <2>2. /\ host' \in {"idle", "dispatching"} /\ checked' \in BOOLEAN
        /\ fires \in 0 .. MaxFires /\ fires < MaxFires /\ fires' = fires + 1
    BY <1>0, <1>4 DEF HostChecks, Types
  <2>3. Types'
    BY <1>0, <2>1, <2>2 DEF Types
  <2>4. (OneHolds /\ Stages /\ InTurn /\ RunsByAge)'
    BY <2>1 DEF SlotInd, OneHolds, Holding, Waiting, Stages, InTurn, HadTurn, RunsByAge
  <2>5. OneHostRun'
    <3>1. ASSUME host' = "dispatching", trigger = "host-scheduler",
                 NEW i \in 1 .. Len(runs), runs[i].by # "manual"
          PROVE  Anchor(runs[i].created) # Anchor(now)
      <4>1. ~NightExists
        BY <1>4, <3>1 DEF HostChecks
      <4>2. ~(runs[i].created >= Anchor(now))
        BY <1>0, <3>1, <4>1 DEF NightExists, Current, SlotRun, RunRecords
      <4>3. runs[i].created <= now
        BY <1>0 DEF SlotInd, RunsByAge
      <4> QED
        BY <1>0, <4>2, <4>3, AnchorSince
    <3> QED
      BY <1>0, <2>1, <3>1 DEF SlotInd, OneHostRun, Anchor
  <2> QED
    BY <2>3, <2>4, <2>5 DEF SlotInd
<1>5. CASE HostDispatches
  <2>1. ListInd' /\ now' = now
    BY <1>5, CreateKeeps DEF HostDispatches
  <2>2. Types'
    BY <1>5, <2>1 DEF SlotInd, Types, ListInd, HostDispatches
  <2>3. /\ DOMAIN runs' = 1 .. Len(runs) + 1
        /\ \A i \in 1 .. Len(runs) : runs'[i].by = runs[i].by /\ runs'[i].created = runs[i].created
        /\ runs'[Len(runs) + 1].created = now
    BY <1>0, <1>5, CreateIs, LenProperties DEF HostDispatches
  <2>4. OneHostRun'
    <3> SUFFICES ASSUME trigger = "host-scheduler"
                 PROVE  OneHostRun'
      BY <1>5 DEF HostDispatches, OneHostRun
    <3>1. /\ cronSpent' /\ host' = "idle" /\ trigger' = trigger
          /\ \A i \in 1 .. Len(runs) :
               runs[i].by # "manual" => Anchor(runs[i].created) # Anchor(now)
      BY <1>0, <1>5 DEF HostDispatches, SlotInd, OneHostRun
    <3>2. ASSUME NEW i \in DOMAIN runs', NEW j \in DOMAIN runs', i < j,
                 runs'[i].by # "manual", runs'[j].by # "manual"
          PROVE  Anchor(runs'[i].created) # Anchor(runs'[j].created)
      <4>1. i \in 1 .. Len(runs)
        BY <1>0, <2>3, <3>2
      <4>2. CASE j \in 1 .. Len(runs)
        BY <1>0, <2>3, <3>2, <4>1, <4>2 DEF SlotInd, OneHostRun
      <4>3. CASE j = Len(runs) + 1
        BY <2>3, <3>1, <3>2, <4>1, <4>3
      <4> QED
        BY <1>0, <2>3, <4>2, <4>3
    <3> QED
      BY <3>1, <3>2 DEF OneHostRun, Anchor
  <2> QED
    BY <2>1, <2>2, <2>4 DEF SlotInd, ListInd
<1>6. CASE HostFails
  <2>1. host' = "idle" /\ UNCHANGED <<trigger, now, cronSpent, fires, checked, runs>>
    BY <1>6 DEF HostFails
  <2>2. Types'
    BY <2>1 DEF SlotInd, Types
  <2>3. (OneHolds /\ Stages /\ InTurn /\ RunsByAge /\ OneHostRun)'
    BY <2>1 DEF SlotInd, OneHolds, Holding, Waiting, Stages, InTurn, HadTurn, RunsByAge,
       OneHostRun, Anchor
  <2> QED
    BY <2>2, <2>3 DEF SlotInd
<1>7. ASSUME NEW i \in DOMAIN runs, NightBegins(i)
      PROVE  SlotInd'
  <2>1. PICK night \in {"guarded", "unguarded"} :
          runs' = [runs EXCEPT ![i].status = "in_progress", ![i].night = night]
    BY <1>7 DEF NightBegins
  <2>2. runs[i].status = "queued" /\ UNCHANGED <<trigger, now, cronSpent, fires, host, checked>>
    BY <1>7 DEF NightBegins
  <2>3. ListInd'
    BY <2>1, <2>2, BeginKeeps
  <2>4. Types'
    BY <2>2, <2>3 DEF SlotInd, Types, ListInd
  <2>5. DOMAIN runs' = DOMAIN runs
        /\ \A j \in DOMAIN runs : runs'[j].by = runs[j].by /\ runs'[j].created = runs[j].created
    BY <1>0, <2>1, BeginIs, LenProperties
  <2>6. OneHostRun'
    BY <2>2, <2>5, HostRunKept
  <2> QED
    BY <2>3, <2>4, <2>6 DEF SlotInd, ListInd
<1>8. ASSUME NEW i \in DOMAIN runs, StandsDown(i) \/ SetupFails(i) \/ NightEnds(i)
      PROVE  SlotInd'
  <2>1. PICK conclusion \in {"success", "failure"} : Release(i, Finished(runs[i], conclusion))
    BY <1>8 DEF StandsDown, SetupFails, NightEnds
  <2>2. /\ runs[i].status \in {"queued", "in_progress"}
        /\ UNCHANGED <<trigger, now, cronSpent, fires, host, checked>>
    BY <1>8 DEF StandsDown, SetupFails, NightEnds
  <2>3. ListInd'
    BY <2>1, <2>2, ReleaseKeeps
  <2>4. Types'
    BY <2>2, <2>3 DEF SlotInd, Types, ListInd
  <2>5. DOMAIN runs' = DOMAIN runs
        /\ \A j \in DOMAIN runs : runs'[j].by = runs[j].by /\ runs'[j].created = runs[j].created
    BY <1>0, <2>1, ReleaseIs, LenProperties
  <2>6. OneHostRun'
    BY <2>2, <2>5, HostRunKept
  <2> QED
    BY <2>3, <2>4, <2>6 DEF SlotInd, ListInd
<1>9. CASE UNCHANGED vars
  <2>1. UNCHANGED <<trigger, now, cronSpent, fires, host, checked, runs>>
    BY <1>9 DEF vars
  <2> QED
    BY <2>1 DEF SlotInd, Types, OneHolds, Holding, Waiting, Stages, InTurn, HadTurn, RunsByAge,
       OneHostRun, Anchor
<1> QED
  BY <1>1, <1>2, <1>3, <1>4, <1>5, <1>6, <1>7, <1>8, <1>9 DEF Next, Trigger, Run

LEMMA SlotInvariant == Spec => []SlotInd
<1> QED
  BY InitSlotInd, NextSlotInd, PTL DEF Spec

LEMMA OneElement ==
  ASSUME NEW S, \A i, j \in S : i = j
  PROVE  Cardinality(S) <= 1
<1>1. CASE S = {}
  BY <1>1, FS_EmptySet
<1>2. CASE S # {}
  <2>1. PICK e : S = {e}
    BY <1>2
  <2> QED
    BY <2>1, FS_Singleton
<1> QED
  BY <1>1, <1>2

(* The types of the queue of runs, and the promise of its concurrency      *)
(* group: of the workflow's runs one holds it and one waits, whoever       *)
(* creates them and however they end.                                      *)
THEOREM SlotTyped == Spec => []TypeOK
<1>1. SlotInd => TypeOK
  BY OneElement DEF SlotInd, Types, OneHolds, TypeOK, RunRecords
<1> QED
  BY <1>1, SlotInvariant, PTL

-----------------------------------------------------------------------------
(* One night a day.                                                        *)

(* No older scheduled run of j's occurrence did that night.                *)
FirstOfItsDay(j) ==
  \A i \in DOMAIN runs :
    /\ i < j
    /\ runs[i].by # "manual" /\ runs[j].by # "manual"
    /\ Anchor(runs[i].created) = Anchor(runs[j].created)
    => ~Worked(i)

(* The guard, when it can tell, lets no night begin twice.                 *)
LEMMA GuardTells ==
  ASSUME SlotInd, NEW j \in DOMAIN runs, ~Superseded(j), Anchor(now) = Anchor(runs[j].created)
  PROVE  FirstOfItsDay(j)
<1> SUFFICES ASSUME NEW i \in DOMAIN runs, i < j, runs[i].by # "manual", runs[j].by # "manual",
                    Anchor(runs[i].created) = Anchor(runs[j].created), Worked(i)
             PROVE  FALSE
  BY DEF FirstOfItsDay
<1>1. runs[i].by \in {"cron", "host"} /\ runs[j].by \in {"cron", "host"}
      /\ runs[i].created \in Nat /\ runs[i].created <= now /\ now \in Nat
  BY ListFacts DEF SlotInd, RunRecords, RunsByAge
<1>2. trigger # "host-scheduler"
  BY DEF SlotInd, OneHostRun
<1>3. Current(runs[i], TRUE)
  BY <1>1, AnchorSince DEF Current
<1>4. CoversSlot(runs[i])
  BY DEF Worked, CoversSlot
<1> QED
  BY <1>1, <1>2, <1>3, <1>4 DEF Superseded, SlotRun, Current

LEMMA NextOncePerOccurrence ==
  SlotInd /\ OncePerOccurrence /\ [Next]_vars => OncePerOccurrence'
<1> SUFFICES ASSUME SlotInd, OncePerOccurrence, [Next]_vars
             PROVE  OncePerOccurrence'
  OBVIOUS
<1>0. /\ Len(runs) \in Nat /\ DOMAIN runs = 1 .. Len(runs) /\ Types
      /\ runs \in Seq(RunRecords) /\ now \in 0 .. Horizon
  BY ListFacts DEF SlotInd, Types
<1>1. ASSUME NEW by \in {"cron", "host", "manual"}, Create(by)
      PROVE  OncePerOccurrence'
  <2>1. /\ DOMAIN runs' = 1 .. Len(runs) + 1
        /\ \A i \in 1 .. Len(runs) :
             /\ runs'[i].by = runs[i].by /\ runs'[i].created = runs[i].created
             /\ runs'[i].night = runs[i].night
             /\ runs'[i].conclusion \in {"cancelled", runs[i].conclusion}
        /\ runs'[Len(runs) + 1].night = "none"
    BY <1>0, <1>1, CreateIs, LenProperties
  <2> QED
    BY <1>0, <2>1 DEF OncePerOccurrence, Worked, Anchor
<1>2. ASSUME NEW i \in DOMAIN runs, NightBegins(i)
      PROVE  OncePerOccurrence'
  <2>1. PICK night \in {"guarded", "unguarded"} :
          /\ runs' = [runs EXCEPT ![i].status = "in_progress", ![i].night = night]
          /\ night = "guarded" => ~Superseded(i) /\ Anchor(now) = Anchor(runs[i].created)
    BY <1>2 DEF NightBegins
  <2>2. runs[i].conclusion = "none"
    BY <1>2 DEF NightBegins, SlotInd, Stages
  <2>3. /\ DOMAIN runs' = 1 .. Len(runs)
        /\ \A j \in 1 .. Len(runs) :
             /\ runs'[j].by = runs[j].by /\ runs'[j].created = runs[j].created
             /\ runs'[j].conclusion = runs[j].conclusion
             /\ j # i => runs'[j] = runs[j]
        /\ runs'[i].night = night
    BY <1>0, <2>1, BeginIs, LenProperties
  <2>4. night = "guarded" => FirstOfItsDay(i)
    BY <2>1, GuardTells
  <2> QED
    BY <1>0, <2>2, <2>3, <2>4 DEF OncePerOccurrence, FirstOfItsDay, Worked, Anchor
<1>3. ASSUME NEW i \in DOMAIN runs, StandsDown(i) \/ SetupFails(i) \/ NightEnds(i)
      PROVE  OncePerOccurrence'
  <2>1. PICK conclusion \in {"success", "failure"} : Release(i, Finished(runs[i], conclusion))
    BY <1>3 DEF StandsDown, SetupFails, NightEnds
  <2>2. runs[i].status \in {"queued", "in_progress"}
    BY <1>3 DEF StandsDown, SetupFails, NightEnds
  <2>3. /\ DOMAIN runs' = 1 .. Len(runs)
        /\ \A j \in 1 .. Len(runs) :
             /\ runs'[j].by = runs[j].by /\ runs'[j].created = runs[j].created
             /\ runs'[j].night = runs[j].night
             /\ j # i => runs'[j].conclusion = runs[j].conclusion
    BY <1>0, <2>1, ReleaseIs, LenProperties
  <2>4. \A j \in 1 .. Len(runs) : i < j => runs[j].night = "none"
    BY <1>0, <2>2 DEF SlotInd, InTurn, HadTurn
  <2> QED
    BY <1>0, <2>3, <2>4 DEF OncePerOccurrence, Worked, Anchor
<1>4. CASE UNCHANGED runs
  BY <1>4 DEF OncePerOccurrence, Worked, Anchor
<1>5. CASE Tick \/ HostChecks \/ HostFails \/ UNCHANGED vars
  BY <1>4, <1>5 DEF Tick, HostChecks, HostFails, vars
<1>6. CASE CronFires \/ ManualDispatch \/ HostDispatches
  BY <1>1, <1>6 DEF CronFires, ManualDispatch, HostDispatches
<1> QED
  BY <1>2, <1>3, <1>5, <1>6 DEF Next, Trigger, Run

(* Cron and host scheduler together start one night a day: of the          *)
(* scheduled runs of an occurrence none begins its night, when its guard   *)
(* could tell, before or after another has done it.                        *)
THEOREM OneNightADay == Spec => []OncePerOccurrence
<1>1. Init => OncePerOccurrence
  BY DEF Init, OncePerOccurrence
<1> QED
  BY <1>1, NextOncePerOccurrence, SlotInvariant, PTL DEF Spec

-----------------------------------------------------------------------------
(* No night lost.                                                          *)

(* A run that is over stays as it is, and a run that stands down has an    *)
(* older scheduled one of its occurrence to stand down for.                *)
LEMMA StandDownTells ==
  ASSUME SlotInd, StandDownIsEarned, trigger # "host-scheduler",
         NEW j \in DOMAIN runs, runs[j].status = "queued", Superseded(j)
  PROVE  Earned(j)
<1>0. /\ Len(runs) \in Nat /\ DOMAIN runs = 1 .. Len(runs) /\ now \in Nat
      /\ \A i \in 1 .. Len(runs) : runs[i] \in RunRecords /\ runs[i].created \in Nat
  BY ListFacts DEF SlotInd
<1>1. PICK i \in DOMAIN runs : /\ i < j
                               /\ Current(runs[i], TRUE)
                               /\ SlotRun(runs[i])
                               /\ CoversSlot(runs[i])
  BY DEF Superseded, Current
<1>2. runs[i].status = "completed" /\ runs[i].conclusion = "success"
  BY <1>1 DEF SlotInd, InTurn, HadTurn, CoversSlot, Completed
<1>3. /\ runs[i].created >= Anchor(now)
      /\ runs[i].created <= runs[j].created /\ runs[j].created <= now
  BY <1>0, <1>1 DEF Current, SlotInd, RunsByAge
<1>4. Anchor(runs[i].created) = Anchor(runs[j].created)
  <2>1. Anchor(now) \in Nat
    BY <1>0, AnchorIs
  <2>2. runs[i].created <= now /\ runs[j].created >= Anchor(now)
    BY <1>0, <1>3, <2>1
  <2> QED
    BY <1>0, <1>3, <2>2, AnchorSince
<1>5. runs[i].by # "manual" /\ runs[j].by # "manual"
  BY <1>1 DEF Superseded, SlotRun
<1>6. i \in 1 .. j - 1 /\ j \in 1 .. Len(runs)
  BY <1>0, <1>1
<1>7. CASE Worked(i)
  BY <1>4, <1>5, <1>6, <1>7 DEF Earned
<1>8. CASE ~Worked(i)
  <2>1. StoodDown(i)
    BY <1>2, <1>8 DEF Worked, StoodDown
  <2>2. PICK k \in 1 .. i - 1 : /\ Worked(k)
                                /\ runs[k].by # "manual"
                                /\ Anchor(runs[k].created) = Anchor(runs[i].created)
    BY <2>1 DEF StandDownIsEarned, Earned
  <2>3. k \in 1 .. j - 1
    BY <1>0, <1>6, <2>2
  <2> QED
    BY <1>4, <1>5, <2>2, <2>3 DEF Earned
<1> QED
  BY <1>7, <1>8

(* What the other steps must keep for a run to have earned its stand-down. *)
LEMMA EarnedKept ==
  ASSUME SlotInd, StandDownIsEarned, trigger' = trigger,
         DOMAIN runs \subseteq DOMAIN runs',
         \A i \in DOMAIN runs :
            /\ runs'[i].by = runs[i].by /\ runs'[i].created = runs[i].created
            /\ Worked(i) => runs'[i].night = runs[i].night
                            /\ runs'[i].conclusion = runs[i].conclusion,
         trigger # "host-scheduler" =>
           \A j \in DOMAIN runs' : StoodDown(j)' => j \in DOMAIN runs /\ Earned(j)
  PROVE  StandDownIsEarned'
<1> SUFFICES ASSUME trigger # "host-scheduler", NEW j \in DOMAIN runs', StoodDown(j)'
             PROVE  Earned(j)'
  BY DEF StandDownIsEarned
<1>0. Len(runs) \in Nat /\ DOMAIN runs = 1 .. Len(runs)
  BY ListFacts DEF SlotInd
<1>1. j \in 1 .. Len(runs) /\ Earned(j)
  BY <1>0
<1>2. PICK i \in 1 .. j - 1 : /\ Worked(i)
                              /\ runs[i].by # "manual"
                              /\ Anchor(runs[i].created) = Anchor(runs[j].created)
  BY <1>1 DEF Earned
<1>3. i \in DOMAIN runs
  BY <1>0, <1>1
<1>4. /\ Worked(i)' /\ runs'[i].by # "manual" /\ runs'[j].by # "manual"
      /\ Anchor(runs'[i].created) = Anchor(runs'[j].created)
  BY <1>0, <1>1, <1>2, <1>3 DEF Worked, Earned
<1> QED
  BY <1>4 DEF Earned, Anchor

LEMMA NextStandDown ==
  SlotInd /\ StandDownIsEarned /\ [Next]_vars => StandDownIsEarned'
<1> SUFFICES ASSUME SlotInd, StandDownIsEarned, [Next]_vars
             PROVE  StandDownIsEarned'
  OBVIOUS
<1>0. /\ Len(runs) \in Nat /\ DOMAIN runs = 1 .. Len(runs) /\ Types
      /\ runs \in Seq(RunRecords) /\ now \in 0 .. Horizon
  BY ListFacts DEF SlotInd, Types
<1>1. ASSUME NEW by \in {"cron", "host", "manual"}, Create(by), trigger' = trigger
      PROVE  StandDownIsEarned'
  <2>1. /\ DOMAIN runs' = 1 .. Len(runs) + 1
        /\ \A i \in 1 .. Len(runs) :
             /\ runs'[i].by = runs[i].by /\ runs'[i].created = runs[i].created
             /\ runs'[i].night = runs[i].night
             /\ runs[i].status = "pending" => runs'[i].conclusion = "cancelled"
             /\ runs[i].status # "pending" => runs'[i].conclusion = runs[i].conclusion
        /\ runs'[Len(runs) + 1].conclusion = "none"
    BY <1>0, <1>1, CreateIs, LenProperties
  <2>2. \A i \in 1 .. Len(runs) : runs[i].status = "pending" => runs[i].conclusion = "none"
    BY <1>0 DEF SlotInd, Stages
  <2>3. \A j \in DOMAIN runs' : StoodDown(j)' => j \in DOMAIN runs /\ StoodDown(j)
    BY <1>0, <2>1 DEF StoodDown
  <2>4. \A i \in DOMAIN runs : Worked(i) => runs'[i].conclusion = runs[i].conclusion
    BY <1>0, <2>1, <2>2 DEF Worked
  <2>5. DOMAIN runs \subseteq DOMAIN runs'
    BY <1>0, <2>1
  <2> QED
    BY <1>0, <1>1, <2>1, <2>3, <2>4, <2>5, EarnedKept DEF StandDownIsEarned
<1>2. ASSUME NEW i \in DOMAIN runs, NightBegins(i)
      PROVE  StandDownIsEarned'
  <2>1. PICK night \in {"guarded", "unguarded"} :
          runs' = [runs EXCEPT ![i].status = "in_progress", ![i].night = night]
    BY <1>2 DEF NightBegins
  <2>2. runs[i].conclusion = "none" /\ trigger' = trigger
    BY <1>2 DEF NightBegins, SlotInd, Stages
  <2>3. /\ DOMAIN runs' = 1 .. Len(runs)
        /\ \A j \in 1 .. Len(runs) :
             /\ runs'[j].by = runs[j].by /\ runs'[j].created = runs[j].created
             /\ runs'[j].conclusion = runs[j].conclusion
             /\ j # i => runs'[j] = runs[j]
    BY <1>0, <2>1, BeginIs, LenProperties
  <2>4. \A j \in DOMAIN runs' : StoodDown(j)' => StoodDown(j)
    BY <1>0, <2>2, <2>3 DEF StoodDown
  <2>5. \A j \in DOMAIN runs : Worked(j) => runs'[j].night = runs[j].night
    BY <1>0, <2>2, <2>3 DEF Worked
  <2> QED
    BY <1>0, <2>2, <2>3, <2>4, <2>5, EarnedKept DEF StandDownIsEarned
<1>3. ASSUME NEW i \in DOMAIN runs, StandsDown(i) \/ SetupFails(i) \/ NightEnds(i)
      PROVE  StandDownIsEarned'
  <2>1. PICK conclusion \in {"success", "failure"} :
          /\ Release(i, Finished(runs[i], conclusion))
          /\ conclusion = "success" =>
               \/ runs[i].status = "queued" /\ Superseded(i)
               \/ runs[i].status = "in_progress"
    BY <1>3 DEF StandsDown, SetupFails, NightEnds
  <2>2. runs[i].status \in {"queued", "in_progress"} /\ trigger' = trigger
        /\ runs[i].conclusion = "none"
    BY <1>3 DEF StandsDown, SetupFails, NightEnds, SlotInd, Stages
  <2>3. /\ DOMAIN runs' = 1 .. Len(runs)
        /\ \A j \in 1 .. Len(runs) :
             /\ runs'[j].by = runs[j].by /\ runs'[j].created = runs[j].created
             /\ runs'[j].night = runs[j].night
             /\ j # i => runs'[j].conclusion = runs[j].conclusion
        /\ runs'[i].conclusion = conclusion
    BY <1>0, <2>1, ReleaseIs, LenProperties
  <2>4. ASSUME trigger # "host-scheduler", NEW j \in DOMAIN runs', StoodDown(j)'
        PROVE  j \in DOMAIN runs /\ Earned(j)
    <3>1. CASE j # i
      BY <1>0, <2>3, <2>4, <3>1 DEF StoodDown, StandDownIsEarned
    <3>2. CASE j = i
      <4>1. runs[i].night = "none" /\ conclusion = "success"
        BY <1>0, <2>3, <2>4, <3>2 DEF StoodDown
      <4>2. runs[i].status = "queued" /\ Superseded(i)
        BY <2>1, <4>1 DEF SlotInd, Stages
      <4> QED
        BY <2>4, <3>2, <4>2, StandDownTells
    <3> QED
      BY <3>1, <3>2
  <2>5. \A j \in DOMAIN runs : Worked(j) => j # i
    BY <2>2 DEF Worked
  <2> QED
    BY <1>0, <2>2, <2>3, <2>4, <2>5, EarnedKept
<1>4. CASE UNCHANGED <<runs, trigger>>
  BY <1>4 DEF StandDownIsEarned, StoodDown, Earned, Worked, Anchor
<1>5. CASE Tick \/ HostChecks \/ HostFails \/ UNCHANGED vars
  BY <1>4, <1>5 DEF Tick, HostChecks, HostFails, vars
<1>6. CASE CronFires \/ ManualDispatch \/ HostDispatches
  BY <1>1, <1>6 DEF CronFires, ManualDispatch, HostDispatches
<1> QED
  BY <1>2, <1>3, <1>5, <1>6 DEF Next, Trigger, Run

LEMMA NextTriggered ==
  SlotInd /\ NightIsTriggered /\ [Next]_vars => NightIsTriggered'
<1> SUFFICES ASSUME SlotInd, NightIsTriggered, [Next]_vars
             PROVE  NightIsTriggered'
  OBVIOUS
<1>0. /\ Len(runs) \in Nat /\ DOMAIN runs = 1 .. Len(runs) /\ Types /\ now \in Nat
      /\ runs \in Seq(RunRecords) /\ now \in 0 .. Horizon
      /\ \A i \in 1 .. Len(runs) : runs[i].created \in Nat
  BY ListFacts DEF SlotInd, Types
<1>1. ASSUME now' = now, checked' = checked, DOMAIN runs \subseteq DOMAIN runs',
             \A i \in DOMAIN runs : runs'[i].by = runs[i].by /\ runs'[i].created = runs[i].created
      PROVE  NightIsTriggered'
  BY <1>1 DEF NightIsTriggered, Anchor
<1>2. ASSUME NEW by \in {"cron", "host", "manual"}, Create(by)
      PROVE  /\ DOMAIN runs \subseteq DOMAIN runs' /\ Len(runs) + 1 \in DOMAIN runs'
             /\ \A i \in DOMAIN runs : /\ runs'[i].by = runs[i].by
                                       /\ runs'[i].created = runs[i].created
             /\ runs'[Len(runs) + 1].by = by /\ runs'[Len(runs) + 1].created = now
  BY <1>0, <1>2, CreateIs, LenProperties
<1>3. CASE Tick
  <2>1. /\ checked' => checked /\ now' # Anchor(now')
    BY <1>3, Zenon DEF Tick
  <2>2. now' = now + 1 /\ UNCHANGED runs
    BY <1>3 DEF Tick
  <2>3. checked' => Anchor(now') = Anchor(now)
    BY <1>0, <2>1, <2>2, AnchorNext
  <2> QED
    BY <2>1, <2>2, <2>3 DEF NightIsTriggered, Anchor
<1>4. CASE CronFires \/ ManualDispatch
  <2>1. PICK by \in {"cron", "host", "manual"} : Create(by)
    BY <1>4 DEF CronFires, ManualDispatch
  <2>2. now' = now /\ checked' = checked
    BY <1>4 DEF CronFires, ManualDispatch
  <2> QED
    BY <1>1, <1>2, <2>1, <2>2
<1>5. CASE HostChecks
  <2>1. UNCHANGED <<now, runs>> /\ (NightExists \/ checked' = checked)
    BY <1>5 DEF HostChecks
  <2>2. CASE NightExists
    <3>1. PICK i \in DOMAIN runs : Current(runs[i], TRUE) /\ runs[i].by # "manual"
      BY <2>2 DEF NightExists, SlotRun
    <3>2. runs[i].created <= now /\ runs[i].created >= Anchor(now)
      BY <1>0, <3>1 DEF SlotInd, RunsByAge, Current
    <3>3. Anchor(runs[i].created) = Anchor(now)
      BY <1>0, <3>2, AnchorSince
    <3> QED
      BY <2>1, <3>1, <3>3 DEF NightIsTriggered, Anchor
  <2>3. CASE checked' = checked
    BY <2>1, <2>3 DEF NightIsTriggered, Anchor
  <2> QED
    BY <2>1, <2>2, <2>3
<1>6. CASE HostDispatches
  <2>1. Create("host") /\ now' = now
    BY <1>6 DEF HostDispatches
  <2>2. /\ Len(runs) + 1 \in DOMAIN runs' /\ runs'[Len(runs) + 1].by = "host"
        /\ runs'[Len(runs) + 1].created = now
    BY <1>2, <2>1
  <2> QED
    BY <2>1, <2>2 DEF NightIsTriggered, Anchor
<1>7. CASE HostFails \/ UNCHANGED vars
  BY <1>1, <1>7 DEF HostFails, vars
<1>8. ASSUME NEW i \in DOMAIN runs, NightBegins(i)
      PROVE  NightIsTriggered'
  <2>1. PICK night \in {"guarded", "unguarded"} :
          runs' = [runs EXCEPT ![i].status = "in_progress", ![i].night = night]
    BY <1>8 DEF NightBegins
  <2>2. now' = now /\ checked' = checked
    BY <1>8 DEF NightBegins
  <2> QED
    BY <1>0, <1>1, <2>1, <2>2, BeginIs, LenProperties
<1>9. ASSUME NEW i \in DOMAIN runs, StandsDown(i) \/ SetupFails(i) \/ NightEnds(i)
      PROVE  NightIsTriggered'
  <2>1. PICK conclusion \in {"success", "failure"} : Release(i, Finished(runs[i], conclusion))
    BY <1>9 DEF StandsDown, SetupFails, NightEnds
  <2>2. now' = now /\ checked' = checked
    BY <1>9 DEF StandsDown, SetupFails, NightEnds
  <2> QED
    BY <1>0, <1>1, <2>1, <2>2, ReleaseIs, LenProperties
<1> QED
  BY <1>3, <1>4, <1>5, <1>6, <1>7, <1>8, <1>9 DEF Next, Trigger, Run

(* No night is lost, with a cron to anchor occurrences to: a run stands    *)
(* down for one that did the night of its own occurrence.  And none is     *)
(* lost to the host's check, which goes through only when the occurrence   *)
(* has its scheduled run.                                                  *)
THEOREM NoLostNight == Spec => []NoNightIsLost
<1>1. Init => NoNightIsLost
  BY DEF Init, NoNightIsLost, StandDownIsEarned, NightIsTriggered
<1>2. SlotInd /\ NoNightIsLost /\ [Next]_vars => NoNightIsLost'
  BY NextStandDown, NextTriggered DEF NoNightIsLost
<1> QED
  BY <1>1, <1>2, SlotInvariant, PTL DEF Spec


-----------------------------------------------------------------------------
(* Lists and windows on them.                                             *)

LEMMA LeastIs ==
  ASSUME NEW S, S \subseteq Nat, S # {}
  PROVE  Least(S) \in S /\ \A k \in S : Least(S) <= k
BY LeastNat, Zenon DEF Least

Placed(n, list) == Cardinality({k \in list : k <= n})

(* The places number a list, older items first. *)
LEMMA PlacesNumber ==
  ASSUME NEW list, list \subseteq Nat, IsFiniteSet(list)
  PROVE  /\ Cardinality(list) \in Nat
         /\ \A n \in list : Placed(n, list) \in 1 .. Cardinality(list)
         /\ \A n, m \in list : n < m => Placed(n, list) < Placed(m, list)
         /\ \A i \in 1 .. Cardinality(list) : \E n \in list : Placed(n, list) = i
<1> DEFINE size == Cardinality(list)
           UpTo(n) == {k \in list : k <= n}
           place == [n \in list |-> Cardinality(UpTo(n))]
<1>1. size \in Nat
  BY FS_CardinalityType
<1>2. ASSUME NEW n \in list
      PROVE  IsFiniteSet(UpTo(n)) /\ place[n] \in 1 .. size
  <2>1. UpTo(n) \in SUBSET list /\ n \in UpTo(n)
    OBVIOUS
  <2> HIDE DEF UpTo
  <2>2. IsFiniteSet(UpTo(n)) /\ Cardinality(UpTo(n)) <= size /\ Cardinality(UpTo(n)) \in Nat
    BY <2>1, FS_Subset, FS_CardinalityType
  <2>3. Cardinality(UpTo(n)) # 0
    BY <2>1, <2>2, FS_EmptySet
  <2> QED
    BY <1>1, <2>2, <2>3
<1>3. ASSUME NEW n \in list, NEW m \in list, n < m
      PROVE  place[n] < place[m]
  <2>1. UpTo(n) \in SUBSET UpTo(m) /\ m \in UpTo(m) /\ m \notin UpTo(n)
    <3>1. n \in Nat /\ m \in Nat /\ n < m
      BY <1>3
    <3>2. \A k \in list : k <= n => k <= m
      <4> TAKE k \in list
      <4>1. k \in Nat
        OBVIOUS
      <4> QED
        BY <3>1, <4>1
    <3>3. ~(m <= n) /\ m <= m
      BY <3>1
    <3> QED
      BY <3>2, <3>3
  <2> HIDE DEF UpTo
  <2>2. Cardinality(UpTo(n)) <= Cardinality(UpTo(m)) /\ Cardinality(UpTo(n)) # Cardinality(UpTo(m))
    BY <1>2, <2>1, FS_Subset
  <2>3. Cardinality(UpTo(n)) \in Nat /\ Cardinality(UpTo(m)) \in Nat
    BY <1>2, FS_CardinalityType
  <2> QED
    BY <2>2, <2>3
<1> HIDE DEF UpTo
<1>4. place \in [list -> 1 .. size]
  BY <1>2
<1>5. place \in Injection(list, 1 .. size)
  <2>1. ASSUME NEW n \in list, NEW m \in list, place[n] = place[m]
        PROVE  n = m
    <3>1. ~(n < m) /\ ~(m < n) /\ n \in Nat /\ m \in Nat
      BY <1>2, <1>3, <2>1
    <3> QED
      BY <3>1
  <2> HIDE DEF place
  <2> QED
    BY <1>4, <2>1 DEF Injection, IsInjective
<1>6. place \in Surjection(list, 1 .. size)
  <2>1. IsFiniteSet(1 .. size) /\ Cardinality(1 .. size) = size
    BY <1>1, FS_Interval
  <2> QED
    BY <1>5, <2>1, FS_Injection
<1>7. \A i \in 1 .. size : \E n \in list : place[n] = i
  BY <1>6 DEF Surjection
<1>8. \A n \in list : Placed(n, list) = place[n]
  BY DEF Placed, UpTo
<1> QED
  BY <1>1, <1>2, <1>3, <1>7, <1>8

(* A window that is not full has the end of the list. *)
LEMMA WindowIs ==
  ASSUME NEW list, list \subseteq Nat, IsFiniteSet(list), NEW a \in Nat, NEW b \in Nat, a <= b
  PROVE  /\ Window(list, a, b) \subseteq list /\ IsFiniteSet(Window(list, a, b))
         /\ Cardinality(Window(list, a, b)) \in 0 .. b - a
         /\ \A n \in list : n \in Window(list, a, b) <=> a < Placed(n, list) /\ Placed(n, list) <= b
         /\ Cardinality(Window(list, a, b)) < b - a => \A n \in list : Placed(n, list) <= b
         /\ Window(list, a, b) = {} /\ a < b => \A n \in list : Placed(n, list) <= a
<1> DEFINE w == Window(list, a, b)
           f == [n \in w |-> Placed(n, list)]
           size == Cardinality(list)
<1>1. /\ size \in Nat
      /\ \A n \in list : Placed(n, list) \in 1 .. size
      /\ \A n, m \in list : n < m => Placed(n, list) < Placed(m, list)
      /\ \A i \in 1 .. size : \E n \in list : Placed(n, list) = i
  BY PlacesNumber
<1>2. w = {n \in list : Placed(n, list) \in a + 1 .. b}
  BY DEF Window, Placed
<1> HIDE DEF w, size
<1>3. w \subseteq list /\ IsFiniteSet(w)
  BY <1>2, FS_Subset
<1>4. \A n \in list : n \in w <=> a < Placed(n, list) /\ Placed(n, list) <= b
  BY <1>1, <1>2
<1>5. f \in [w -> a + 1 .. b]
  BY <1>2
<1>6. IsFiniteSet(a + 1 .. b) /\ Cardinality(a + 1 .. b) = b - a
  <2>1. a + 1 \in Int /\ b \in Int
    OBVIOUS
  <2>2. /\ IsFiniteSet(a + 1 .. b)
        /\ Cardinality(a + 1 .. b) = IF a + 1 > b THEN 0 ELSE b - (a + 1) + 1
    BY ONLY <2>1, FS_Interval
  <2>3. (IF a + 1 > b THEN 0 ELSE b - (a + 1) + 1) = b - a
    BY <2>1
  <2> QED
    BY <2>2, <2>3
<1>7. f \in Injection(w, a + 1 .. b)
  <2>1. ASSUME NEW n \in w, NEW m \in w, f[n] = f[m]
        PROVE  n = m
    <3>1. n \in list /\ m \in list /\ n \in Nat /\ m \in Nat /\ Placed(n, list) = Placed(m, list)
      BY <1>3, <2>1
    <3>2. ~(n < m) /\ ~(m < n)
      BY <1>1, <3>1
    <3> QED
      BY <3>1, <3>2
  <2> HIDE DEF f
  <2> QED
    BY <1>5, <2>1 DEF Injection, IsInjective
<1>8. Cardinality(w) \in 0 .. b - a
  <2>1. Cardinality(w) \in Nat /\ Cardinality(w) <= b - a
    BY <1>3, <1>6, <1>7, FS_Injection, FS_CardinalityType
  <2> QED
    BY <2>1
<1>9. ASSUME NEW n \in list, Placed(n, list) > b
      PROVE  Cardinality(w) = b - a
  <2>1. b < size
    BY <1>1, <1>9
  <2>2. ASSUME NEW i \in a + 1 .. b
        PROVE  \E m \in w : f[m] = i
    <3>1. i \in 1 .. size
      BY <1>1, <2>1
    <3>2. PICK m \in list : Placed(m, list) = i
      BY <1>1, <3>1
    <3> QED
      BY <1>2, <3>2
  <2> HIDE DEF f
  <2>3. f \in Surjection(w, a + 1 .. b)
    BY <1>5, <2>2 DEF Surjection
  <2>4. b - a <= Cardinality(w)
    BY <1>3, <1>6, <2>3, FS_Surjection
  <2> QED
    BY <1>8, <2>4
<1>10. ASSUME w = {}, a < b, NEW n \in list
       PROVE  Placed(n, list) <= a
  <2>1. SUFFICES ASSUME Placed(n, list) > a
                 PROVE  FALSE
    BY <1>1
  <2>2. a + 1 \in 1 .. size
    BY <1>1, <2>1
  <2>3. PICK m \in list : Placed(m, list) = a + 1
    BY <1>1, <2>2
  <2> QED
    BY <1>2, <1>10, <2>3
<1>11. ASSUME Cardinality(w) < b - a, NEW n \in list
       PROVE  Placed(n, list) <= b
  <2>1. Placed(n, list) \in Nat
    BY <1>1
  <2> QED
    BY <1>8, <1>9, <1>11, <2>1
<1> QED
  BY <1>3, <1>4, <1>8, <1>10, <1>11 DEF w

-----------------------------------------------------------------------------
(* The inductive invariant. *)

(* resolveWork is at work. *)
Resolving == {"attempts", "tips", "delete", "comment", "label"}
Triaging  == {"comment", "label"}
Selecting == {"list"} \cup Resolving

LabelNames == STRING \cup {Triaged}

RepoTyped ==
  /\ priority \in Modes /\ (Priorities = << >> => priority = "off")
  /\ open \subseteq Issues /\ hasPr \subseteq Issues
  /\ labels \in [Issues \cup Pulls -> SUBSET LabelNames]
  /\ tip \in [Issues -> {"none", "fixowl", "human"}] /\ signal \in [Issues -> {"none", "fixed"}]
  /\ comments \in [Issues -> Nat] /\ lost \in [Issues -> Nat]
  /\ nights \in 1 .. MaxNights /\ writes \in 0 .. MaxWrites
  /\ gone \subseteq Issues /\ raced \subseteq Issues

CursorTyped ==
  /\ pc \in {"start", "over", "cut"} \cup Selecting
  /\ query \in 1 .. LastQuery /\ page \in Nat \ {0} /\ fetched \in 0 .. PerPage
  /\ heads \subseteq Issues /\ seen \subseteq Issues

WorkTyped ==
  /\ batch \subseteq Issues /\ todo \subseteq batch /\ kept \subseteq batch
  /\ skipped \subseteq Issues /\ out \subseteq Issues
  /\ selected \in Seq(Issues) /\ Different(selected)
  /\ Len(selected) <= Cap /\ (pc \in Selecting => Len(selected) < Cap)

(* What of the batch is in the making at each call. *)
InTheMaking ==
  /\ pc \notin Resolving => batch = {}
  /\ pc \notin {"tips", "delete"} \cup Triaging => todo = {}
  /\ pc \in {"delete", "label"} => todo # {}
  /\ pc \notin Triaging => kept = {}
  /\ pc \in {"start", "cut"} \/ (priority = "off" /\ pc \in Selecting) =>
       query = 1 /\ page = 1 /\ seen = {} /\ selected = << >>
  /\ pc \in {"start", "cut"} \/ (priority = "off" /\ pc = "list") => skipped = {} /\ out = {}

(* Nothing is chosen, skipped or triaged twice. *)
Apart ==
  /\ skipped \cap out = {}
  /\ ToSet(selected) \cap (skipped \cup out \cup batch) = {}
  /\ pc = "attempts" => batch \cap (skipped \cup out) = {}
  /\ pc \in {"tips", "delete"} => batch \cap out = {} /\ todo \cap skipped = {}
  /\ pc \in Triaging => todo \cap kept = {} /\ (todo \cup kept) \cap (skipped \cup out) = {}
  /\ priority # "off" => ToSet(selected) \cup skipped \cup out \cup batch \subseteq seen

Clean(n) == Triaged \notin labels[n]

(* What is still to be triaged, or is chosen, does not carry the label. *)
Unwritten ==
  /\ pc \in Resolving \ Triaging => \A n \in batch : Clean(n)
  /\ \A n \in todo \cup kept \cup ToSet(selected) : Clean(n)

(* Each comment has its label, has lost it, or is about to get it. *)
CommentsPaid ==
  \A n \in Issues :
    comments[n] <= lost[n] + (IF Triaged \in labels[n] THEN 1 ELSE 0)
                           + (IF pc = "label" /\ n = Least(todo) THEN 1 ELSE 0)

(* What is not an orphan any more became so after the night looked. *)
OrphansRaced ==
  /\ pc \in {"tips", "delete"} => todo \cap hasPr \subseteq raced
  /\ pc = "delete" => Least(todo) \in raced \/ tip[Least(todo)] # "human"

(* The whole batch is resolved at last. *)
Resolved == pc \in Triaging => batch \subseteq skipped \cup out \cup kept \cup todo

Live(n) == n \in Issues /\ Queued(n) /\ ~Shifted(n)

(* The default path looks at the whole list. *)
WholeList == priority = "off" /\ pc \in Resolving => \A n \in Issues : Queued(n) => n \in batch

(* The priority path has looked at all queries before the running one, and *)
(* at the pages of this up to where it reads.                              *)
Swept ==
  priority # "off" /\ pc \in Selecting => \A n \in Issues : Live(n) =>
    /\ Rank(n) < query => n \in seen
    /\ pc = "list" /\ Rank(n) = query /\ Placed(n, Listed(query)) <= (page - 1) * PerPage
         => n \in seen
    /\ pc # "list" /\ Rank(n) = query
         /\ (Placed(n, Listed(query)) <= page * PerPage \/ fetched < PerPage) => n \in seen

(* What was looked at is accounted for or in the batch, and none is out of *)
(* line.                                                                   *)
InLine(m, done) == \A n \in Issues : Live(n) /\ Ahead(n, m) => n \in done

Lined ==
  priority # "off" /\ pc \in Selecting =>
    /\ \A n \in seen : Queued(n) => Accounted(n) \/ n \in batch
    /\ \A m \in seen : Clean(m) => Rank(m) \in 1 .. query
    /\ \A n \in batch : Live(n) => Rank(n) >= query
    /\ \A m \in ToSet(selected) : InLine(m, seen \ batch)
    /\ \A m \in batch : Clean(m) => InLine(m, seen)

SelectCore ==
  /\ RepoTyped /\ CursorTyped /\ WorkTyped
  /\ InTheMaking /\ Apart /\ Resolved
  /\ Unwritten /\ CommentsPaid /\ OrphansRaced

SelectInd == SelectCore /\ WholeList /\ Swept /\ Lined /\ QueueIsKept

LEMMA NothingChosen ==
  << >> \in Seq(Issues) /\ Different(<< >>) /\ Len(<< >>) = 0 /\ ToSet(<< >>) = {}
BY DEF Different, ToSet

LEMMA ChosenAre ==
  ASSUME WorkTyped
  PROVE  ToSet(selected) \subseteq Issues
<1>1. selected \in Seq(Issues)
  BY DEF WorkTyped
<1> QED
  BY <1>1, LenProperties DEF ToSet

LEMMA LastQueryIs ==
  ASSUME RepoTyped
  PROVE  LastQuery \in Nat \ {0}
<1>1. Len(Pickups) \in Nat \ {0} /\ Len(Priorities) \in Nat /\ Len(Tiers) = Len(Priorities) + 1
  <2>1. Pickups \in Seq(STRING) /\ Pickups # << >> /\ Priorities \in Seq(STRING)
    BY RuleAssumption
  <2>2. Priorities \in Seq(STRING \cup {Unlabeled})
    BY <2>1, SeqMonotonic
  <2>3. Len(Tiers) = Len(Priorities) + 1
    BY <2>2, AppendProperties DEF Tiers
  <2> QED
    BY <2>1, <2>3, EmptySeq, LenProperties
<1>2. priority = "labelled" => Len(Priorities) # 0
  <2>1. priority = "labelled" => Priorities # << >>
    BY DEF RepoTyped
  <2> QED
    BY <2>1, RuleAssumption, EmptySeq
<1>3. PICK tiers : tiers = IF priority = "labelled" THEN Len(Priorities) ELSE Len(Tiers)
  OBVIOUS
<1>4. tiers \in Nat \ {0}
  BY <1>1, <1>2, <1>3
<1>5. LastQuery = tiers * Len(Pickups)
  BY <1>3 DEF LastQuery
<1> QED
  BY <1>1, <1>4, <1>5

(* A night that forgets is as new. *)
LEMMA ForgetKeeps ==
  ASSUME RepoTyped, Forget, pc' \in {"start", "cut"}, UNCHANGED priority
  PROVE  /\ CursorTyped' /\ WorkTyped' /\ InTheMaking' /\ Apart' /\ Resolved' /\ Unwritten'
         /\ OrphansRaced'
<1>1. LastQuery \in Nat \ {0} /\ LastQuery' = LastQuery
  BY LastQueryIs DEF LastQuery
<1>2. Cap \in Nat \ {0} /\ Len(selected') = 0 /\ selected' = << >>
  BY CapAssumption, NothingChosen DEF Forget
<1> QED
  BY <1>1, <1>2, NothingChosen DEF Forget, CursorTyped, WorkTyped, InTheMaking, Apart, Resolved,
     Unwritten, OrphansRaced, Selecting, Resolving, Triaging, PerPage

LEMMA NumbersAreFinite ==
  ASSUME RepoTyped, NEW q \in Nat
  PROVE  Listed(q) \subseteq Nat /\ IsFiniteSet(Listed(q)) /\ Listed(q) \subseteq open \cup Pulls
<1>1. Listed(q) \subseteq open \cup Pulls
  BY DEF Listed
<1>2. open \cup Pulls \subseteq Issues \cup Pulls
  BY DEF RepoTyped
<1> QED
  BY <1>1, <1>2, NumbersAssumption, FS_Subset

(* What a page has. *)
LEMMA PageIs ==
  ASSUME RepoTyped, CursorTyped
  PROVE  /\ Page(query, page) \subseteq open \cup Pulls
         /\ Cardinality(Page(query, page)) \in 0 .. PerPage
         /\ \A n \in Listed(query) : n \in Page(query, page) <=>
              /\ (page - 1) * PerPage < Placed(n, Listed(query))
              /\ Placed(n, Listed(query)) <= page * PerPage
         /\ Cardinality(Page(query, page)) < PerPage =>
              \A n \in Listed(query) : Placed(n, Listed(query)) <= page * PerPage
         /\ Page(query, page) = {} =>
              \A n \in Listed(query) : Placed(n, Listed(query)) <= (page - 1) * PerPage
<1>1. query \in Nat /\ page \in Nat \ {0}
  BY LastQueryIs DEF CursorTyped
<1>2. PerPage \in Nat \ {0}
  BY CapAssumption DEF PerPage
<1>3. PICK a \in Nat, b \in Nat : a = (page - 1) * PerPage /\ b = page * PerPage /\ b - a = PerPage
  <2>1. PICK p \in Nat : p = page - 1
    BY <1>1
  <2>2. p * PerPage \in Nat /\ page * PerPage \in Nat /\ page * PerPage - p * PerPage = PerPage
    BY <1>1, <1>2, <2>1
  <2> QED
    BY <2>1, <2>2
<1>4. Page(query, page) = Window(Listed(query), a, b) /\ a < b
  BY <1>2, <1>3 DEF Page
<1>5. /\ Listed(query) \subseteq Nat /\ IsFiniteSet(Listed(query))
      /\ Listed(query) \subseteq open \cup Pulls
  BY <1>1, NumbersAreFinite
<1>6. /\ Window(Listed(query), a, b) \subseteq Listed(query)
      /\ Cardinality(Window(Listed(query), a, b)) \in 0 .. b - a
      /\ \A n \in Listed(query) : n \in Window(Listed(query), a, b) <=>
           a < Placed(n, Listed(query)) /\ Placed(n, Listed(query)) <= b
      /\ Cardinality(Window(Listed(query), a, b)) < b - a =>
           \A n \in Listed(query) : Placed(n, Listed(query)) <= b
      /\ Window(Listed(query), a, b) = {} => \A n \in Listed(query) : Placed(n, Listed(query)) <= a
  <2>1. a <= b
    BY <1>4
  <2> QED
    BY <1>4, <1>5, <2>1, WindowIs
<1> QED
  BY <1>3, <1>4, <1>5, <1>6

LEMMA NextQueryIs ==
  ASSUME RepoTyped, CursorTyped, NextQuery
  PROVE  /\ query' \in 1 .. LastQuery /\ page' \in Nat \ {0} /\ pc' \in {"over", "list"}
         /\ pc' = "list" => query' = query + 1 /\ page' = 1
         /\ pc' = "over" => query = LastQuery
BY LastQueryIs DEF NextQuery, CursorTyped

LEMMA FetchPageCore ==
  ASSUME SelectCore, FetchPage
  PROVE  SelectCore'
<1> DEFINE items == Page(query, page)
<1>1. RepoTyped /\ CursorTyped /\ WorkTyped
  BY DEF SelectCore
<1>2. /\ pc = "list" /\ priority # "off" /\ fetched' = Cardinality(items)
      /\ UNCHANGED <<priority, open, labels, tip, hasPr, signal, comments>>
      /\ UNCHANGED <<heads, todo, kept, selected, skipped, out, lost, gone, raced, nights, writes>>
  BY DEF FetchPage, github, chosen, counts
<1>3. /\ batch = {} /\ todo = {} /\ kept = {}
      /\ ToSet(selected) \cup skipped \cup out \subseteq seen
      /\ ToSet(selected) \cap (skipped \cup out) = {} /\ skipped \cap out = {}
      /\ Len(selected) < Cap
  BY <1>2 DEF SelectCore, InTheMaking, Apart, WorkTyped, Resolving, Triaging, Selecting
<1>4. \/ pc' \in {"over", "list"} /\ UNCHANGED <<seen, batch>>
      \/ /\ pc' = "attempts" /\ UNCHANGED <<query, page>>
         /\ batch' = Eligible(Candidates(items)) /\ seen' = seen \cup Candidates(items)
  BY <1>1, NextQueryIs DEF FetchPage
<1>5. query' \in 1 .. LastQuery /\ page' \in Nat \ {0}
  BY <1>1, NextQueryIs DEF FetchPage, CursorTyped
<1>6. /\ Candidates(items) \subseteq Issues \ seen
      /\ \A n \in Eligible(Candidates(items)) : n \in Candidates(items) /\ Clean(n)
  BY DEF Candidates, Eligible, Clean
<1> HIDE DEF items
<1>7. RepoTyped'
  BY <1>1, <1>2 DEF RepoTyped
<1>8. CursorTyped'
  <2>1. Cardinality(items) \in 0 .. PerPage
    BY <1>1, PageIs DEF items
  <2>2. LastQuery' = LastQuery
    BY <1>2 DEF LastQuery
  <2> QED
    BY <1>1, <1>2, <1>4, <1>5, <1>6, <2>1, <2>2 DEF CursorTyped, Selecting, Resolving
<1>9. WorkTyped'
  BY <1>1, <1>2, <1>3, <1>4, <1>6 DEF WorkTyped, Selecting, Resolving
<1>10. InTheMaking' /\ Resolved'
  BY <1>2, <1>3, <1>4 DEF InTheMaking, Resolved, Selecting, Resolving, Triaging
<1>11. Apart'
  BY <1>2, <1>3, <1>4, <1>6 DEF Apart, Triaging
<1>12. Unwritten'
  BY <1>2, <1>3, <1>4, <1>6 DEF SelectCore, Unwritten, Resolving, Triaging, Clean
<1>13. CommentsPaid' /\ OrphansRaced'
  BY <1>2, <1>3, <1>4 DEF SelectCore, CommentsPaid, OrphansRaced
<1> QED
  BY <1>7, <1>8, <1>9, <1>10, <1>11, <1>12, <1>13 DEF SelectCore

(* What the survivors add: the oldest of them, as many as there is room for. *)
LEMMA FillTakes ==
  ASSUME SelectCore, Fill
  PROVE  \E taken \in SUBSET kept :
           /\ selected' \in Seq(Issues) /\ Different(selected')
           /\ ToSet(selected') = ToSet(selected) \cup taken
           /\ Len(selected') \in Len(selected) .. Cap
           /\ Len(selected') # Cap => taken = kept
           /\ \A n \in kept, m \in taken : n < m => n \in taken
<1> DEFINE room == Cap - Len(selected)
           taken == Window(kept, 0, room)
           sorted == SortByKey(taken, [n \in taken |-> n])
<1>1. /\ selected \in Seq(Issues) /\ Different(selected) /\ Len(selected) < Cap
      /\ kept \subseteq Issues /\ ToSet(selected) \cap kept = {} /\ batch \subseteq Issues
  BY DEF SelectCore, WorkTyped, Apart, Fill, Selecting, Resolving
<1>2. room \in Nat /\ Len(selected) \in Nat /\ Cap \in Nat
  BY <1>1, CapAssumption, LenProperties
<1>3. kept \subseteq Nat /\ IsFiniteSet(kept)
  BY <1>1, NumbersAssumption, FS_Subset
<1> HIDE DEF room
<1>4. /\ taken \subseteq kept /\ IsFiniteSet(taken) /\ Cardinality(taken) \in 0 .. room
      /\ \A n \in kept : n \in taken <=> 0 < Placed(n, kept) /\ Placed(n, kept) <= room
      /\ Cardinality(taken) < room => \A n \in kept : Placed(n, kept) <= room
  <2>1. 0 <= room /\ room - 0 = room
    BY <1>2
  <2>2. /\ taken \subseteq kept /\ IsFiniteSet(taken) /\ Cardinality(taken) \in 0 .. room - 0
        /\ \A n \in kept : n \in taken <=> 0 < Placed(n, kept) /\ Placed(n, kept) <= room
        /\ Cardinality(taken) < room - 0 => \A n \in kept : Placed(n, kept) <= room
    BY <1>2, <1>3, <2>1, WindowIs
  <2> QED
    BY <2>1, <2>2
<1>5. /\ \A n \in kept : Placed(n, kept) \in Nat \ {0}
      /\ \A n, m \in kept : n < m => Placed(n, kept) < Placed(m, kept)
  <2>1. /\ Cardinality(kept) \in Nat
        /\ \A n \in kept : Placed(n, kept) \in 1 .. Cardinality(kept)
        /\ \A n, m \in kept : n < m => Placed(n, kept) < Placed(m, kept)
    BY <1>3, PlacesNumber
  <2> QED
    BY <2>1
<1>6. selected' = selected \o sorted
  BY DEF Fill, room
<1> HIDE DEF taken
<1>7. /\ sorted \in Seq(taken) /\ Len(sorted) = Cardinality(taken)
      /\ Different(sorted) /\ ToSet(sorted) = taken
  <2>1. \A n \in taken : [k \in taken |-> k][n] \in Int
    BY <1>3, <1>4
  <2> QED
    BY <1>4, <2>1, SortByKeyIs
<1> HIDE DEF sorted
<1>8. sorted \in Seq(Issues)
  BY <1>1, <1>4, <1>7, SeqMonotonic
<1>9. /\ selected' \in Seq(Issues) /\ Different(selected')
      /\ ToSet(selected') = ToSet(selected) \cup taken
      /\ Len(selected') = Len(selected) + Cardinality(taken)
  <2>1. ToSet(selected) \cap ToSet(sorted) = {}
    BY <1>1, <1>4, <1>7
  <2>2. /\ selected \o sorted \in Seq(Issues)
        /\ ToSet(selected \o sorted) = ToSet(selected) \cup ToSet(sorted)
    BY <1>1, <1>8, ConcatToSet
  <2>3. Different(selected \o sorted)
    BY <1>1, <1>7, <1>8, <2>1, ConcatDifferent
  <2>4. Len(selected \o sorted) = Len(selected) + Len(sorted)
    BY <1>1, <1>8, ConcatProperties
  <2> QED
    BY <1>6, <1>7, <2>2, <2>3, <2>4
<1>10. Len(selected') \in Len(selected) .. Cap
  BY <1>2, <1>4, <1>9 DEF room
<1>11. Len(selected') # Cap => taken = kept
  <2>1. Len(selected') # Cap => Cardinality(taken) < room
    BY <1>2, <1>4, <1>9 DEF room
  <2>2. Len(selected') # Cap => \A n \in kept : 0 < Placed(n, kept) /\ Placed(n, kept) <= room
    BY <1>4, <1>5, <2>1
  <2> QED
    BY <1>4, <2>2
<1>12. ASSUME NEW n \in kept, NEW m \in taken, n < m
       PROVE  n \in taken
  <2>1. m \in kept /\ Placed(n, kept) < Placed(m, kept) /\ Placed(m, kept) <= room
    BY <1>4, <1>5, <1>12
  <2>2. Placed(n, kept) \in Nat \ {0} /\ Placed(m, kept) \in Nat
    BY <1>5, <2>1
  <2> QED
    BY <1>2, <1>4, <2>1, <2>2
<1> QED
  BY <1>4, <1>9, <1>10, <1>11, <1>12

LEMMA FillCore ==
  ASSUME SelectCore, Fill
  PROVE  SelectCore'
<1>1. RepoTyped /\ CursorTyped /\ WorkTyped
  BY DEF SelectCore
<1>2. /\ pc = "comment" /\ todo = {} /\ batch' = {} /\ kept' = {}
      /\ UNCHANGED <<priority, open, labels, tip, hasPr, signal, comments>>
      /\ UNCHANGED <<heads, fetched, seen, todo, skipped, out, lost, gone, raced, nights, writes>>
  BY DEF Fill, github, counts
<1>3. PICK taken \in SUBSET kept :
        /\ selected' \in Seq(Issues) /\ Different(selected')
        /\ ToSet(selected') = ToSet(selected) \cup taken
        /\ Len(selected') \in Len(selected) .. Cap
  BY FillTakes
<1>4. /\ pc' \in {"over", "list"} /\ (pc' = "list" => Len(selected') # Cap /\ priority # "off")
      /\ query' \in 1 .. LastQuery /\ page' \in Nat \ {0}
  <2>1. CASE priority = "off" \/ Len(selected') = Cap
    BY <1>1, <2>1 DEF Fill, CursorTyped
  <2>2. CASE ~(priority = "off" \/ Len(selected') = Cap)
    BY <1>1, <2>2, NextQueryIs DEF Fill, CursorTyped, Turn
  <2> QED
    BY <2>1, <2>2
<1>5. /\ kept \subseteq batch /\ batch \subseteq Issues
      /\ ToSet(selected) \cap (skipped \cup out \cup batch) = {}
      /\ kept \cap (skipped \cup out) = {} /\ skipped \cap out = {}
      /\ priority # "off" => ToSet(selected) \cup skipped \cup out \cup batch \subseteq seen
  BY <1>2 DEF SelectCore, WorkTyped, Apart, Triaging
<1>6. RepoTyped'
  BY <1>1, <1>2 DEF RepoTyped
<1>7. CursorTyped'
  <2>1. LastQuery' = LastQuery
    BY <1>2 DEF LastQuery
  <2> QED
    BY <1>1, <1>2, <1>4, <2>1 DEF CursorTyped, Selecting, Resolving
<1>8. WorkTyped'
  <2>1. Len(selected) \in Nat /\ Cap \in Nat
    BY <1>1, CapAssumption, LenProperties DEF WorkTyped
  <2>2. Len(selected') <= Cap /\ (pc' = "list" => Len(selected') < Cap)
    BY <1>3, <1>4, <2>1
  <2> QED
    BY <1>1, <1>2, <1>3, <1>4, <2>2 DEF WorkTyped, Selecting, Resolving
<1>9. InTheMaking' /\ Resolved'
  BY <1>2, <1>4 DEF InTheMaking, Resolved, Selecting, Resolving, Triaging
<1>10. Apart'
  BY <1>2, <1>3, <1>4, <1>5 DEF Apart, Triaging
<1>11. Unwritten'
  BY <1>2, <1>3, <1>4 DEF SelectCore, Unwritten, Resolving, Triaging, Clean
<1>12. CommentsPaid' /\ OrphansRaced'
  BY <1>2, <1>4 DEF SelectCore, CommentsPaid, OrphansRaced
<1> QED
  BY <1>6, <1>7, <1>8, <1>9, <1>10, <1>11, <1>12 DEF SelectCore

LEMMA NextCore == SelectCore /\ [SelectNext]_selectVars => SelectCore'
<1> SUFFICES ASSUME SelectCore, [SelectNext]_selectVars
             PROVE  SelectCore'
  OBVIOUS
<1>0. todo # {} => Least(todo) \in todo
  BY NumbersAssumption, LeastIs DEF SelectCore, WorkTyped, RepoTyped
<1>1. CASE ListBranches
  <2>1. RepoTyped'
    BY <1>0, <1>1 DEF SelectCore, RepoTyped, ListBranches, github, cursor, work, chosen, counts
  <2>2. CursorTyped'
    BY <1>0, <1>1 DEF SelectCore, CursorTyped, Selecting, Resolving, Triaging, LastQuery,
       ListBranches, github, cursor, work, chosen, counts
  <2>3. WorkTyped'
    BY <1>0, <1>1, CapAssumption, NothingChosen DEF SelectCore, WorkTyped, Selecting, Resolving,
       Triaging, CursorTyped, InTheMaking, Apart, ListBranches, RepoTyped, github, cursor, work,
       chosen, counts
  <2>4. InTheMaking'
    BY <1>0, <1>1 DEF SelectCore, InTheMaking, Selecting, Resolving, Triaging, CursorTyped,
       WorkTyped, ListBranches, github, cursor, work, chosen, counts
  <2>5. Apart'
    BY <1>0, <1>1 DEF SelectCore, Apart, Selecting, Resolving, Triaging, CursorTyped, WorkTyped,
       InTheMaking, ListBranches, github, cursor, work, chosen, counts
  <2>6. Resolved'
    BY <1>0, <1>1 DEF SelectCore, Resolved, Selecting, Resolving, Triaging, CursorTyped, WorkTyped,
       InTheMaking, ListBranches, github, cursor, work, chosen, counts
  <2>7. Unwritten'
    BY <1>0, <1>1 DEF SelectCore, Unwritten, Selecting, Resolving, Triaging, CursorTyped, WorkTyped,
       RepoTyped, InTheMaking, Apart, Clean, ListBranches, github, cursor, work, chosen, counts
  <2>8. CommentsPaid'
    BY <1>0, <1>1 DEF SelectCore, CommentsPaid, Selecting, Resolving, Triaging, CursorTyped,
       WorkTyped, RepoTyped, InTheMaking, ListBranches, github, cursor, work, chosen, counts
  <2>9. OrphansRaced'
    BY <1>0, <1>1 DEF SelectCore, OrphansRaced, Selecting, Resolving, Triaging, CursorTyped,
       WorkTyped, RepoTyped, InTheMaking, ListBranches, github, cursor, work, chosen, counts
  <2> QED
    BY <2>1, <2>2, <2>3, <2>4, <2>5, <2>6, <2>7, <2>8, <2>9 DEF SelectCore
<1>2. CASE SelectIssues
  <2>1. RepoTyped'
    BY <1>0, <1>2 DEF SelectCore, RepoTyped, SelectIssues, Eligible, github, cursor, work, chosen,
       counts
  <2>2. CursorTyped'
    BY <1>0, <1>2 DEF SelectCore, CursorTyped, Selecting, Resolving, Triaging, LastQuery,
       SelectIssues, Eligible, github, cursor, work, chosen, counts
  <2>3. WorkTyped'
    BY <1>0, <1>2, CapAssumption, NothingChosen DEF SelectCore, WorkTyped, Selecting, Resolving,
       Triaging, CursorTyped, InTheMaking, Apart, SelectIssues, Eligible, RepoTyped, github, cursor,
       work, chosen, counts
  <2>4. InTheMaking'
    BY <1>0, <1>2 DEF SelectCore, InTheMaking, Selecting, Resolving, Triaging, CursorTyped,
       WorkTyped, SelectIssues, Eligible, github, cursor, work, chosen, counts
  <2>5. Apart'
    BY <1>0, <1>2, NothingChosen DEF SelectCore, Apart, Selecting, Resolving, Triaging, CursorTyped,
       WorkTyped, InTheMaking, SelectIssues, Eligible, github, cursor, work, chosen, counts
  <2>6. Resolved'
    BY <1>0, <1>2 DEF SelectCore, Resolved, Selecting, Resolving, Triaging, CursorTyped, WorkTyped,
       InTheMaking, SelectIssues, Eligible, github, cursor, work, chosen, counts
  <2>7. Unwritten'
    BY <1>0, <1>2 DEF SelectCore, Unwritten, Selecting, Resolving, Triaging, CursorTyped, WorkTyped,
       RepoTyped, InTheMaking, Apart, Clean, SelectIssues, Eligible, github, cursor, work, chosen,
       counts
  <2>8. CommentsPaid'
    BY <1>0, <1>2 DEF SelectCore, CommentsPaid, Selecting, Resolving, Triaging, CursorTyped,
       WorkTyped, RepoTyped, InTheMaking, SelectIssues, Eligible, github, cursor, work, chosen,
       counts
  <2>9. OrphansRaced'
    BY <1>0, <1>2 DEF SelectCore, OrphansRaced, Selecting, Resolving, Triaging, CursorTyped,
       WorkTyped, RepoTyped, InTheMaking, SelectIssues, Eligible, github, cursor, work, chosen,
       counts
  <2> QED
    BY <2>1, <2>2, <2>3, <2>4, <2>5, <2>6, <2>7, <2>8, <2>9 DEF SelectCore
<1>3. CASE FetchPage
  BY <1>3, FetchPageCore
<1>4. CASE Attempts
  <2>1. RepoTyped'
    BY <1>0, <1>4 DEF SelectCore, RepoTyped, Attempts, github, cursor, work, chosen, counts
  <2>2. CursorTyped'
    BY <1>0, <1>4 DEF SelectCore, CursorTyped, Selecting, Resolving, Triaging, LastQuery, Attempts,
       github, cursor, work, chosen, counts
  <2>3. WorkTyped'
    BY <1>0, <1>4 DEF SelectCore, WorkTyped, Selecting, Resolving, Triaging, CursorTyped,
       InTheMaking, Apart, Attempts, github, cursor, work, chosen, counts
  <2>4. InTheMaking'
    BY <1>0, <1>4 DEF SelectCore, InTheMaking, Selecting, Resolving, Triaging, CursorTyped,
       WorkTyped, Attempts, github, cursor, work, chosen, counts
  <2>5. Apart'
    BY <1>0, <1>4 DEF SelectCore, Apart, Selecting, Resolving, Triaging, CursorTyped, WorkTyped,
       InTheMaking, Attempts, github, cursor, work, chosen, counts
  <2>6. Resolved'
    BY <1>0, <1>4 DEF SelectCore, Resolved, Selecting, Resolving, Triaging, CursorTyped, WorkTyped,
       InTheMaking, Attempts, github, cursor, work, chosen, counts
  <2>7. Unwritten'
    BY <1>0, <1>4 DEF SelectCore, Unwritten, Selecting, Resolving, Triaging, CursorTyped, WorkTyped,
       RepoTyped, InTheMaking, Apart, Clean, Attempts, github, cursor, work, chosen, counts
  <2>8. CommentsPaid'
    BY <1>0, <1>4 DEF SelectCore, CommentsPaid, Selecting, Resolving, Triaging, CursorTyped,
       WorkTyped, RepoTyped, InTheMaking, Attempts, github, cursor, work, chosen, counts
  <2>9. OrphansRaced'
    BY <1>0, <1>4 DEF SelectCore, OrphansRaced, Selecting, Resolving, Triaging, CursorTyped,
       WorkTyped, RepoTyped, InTheMaking, Attempts, github, cursor, work, chosen, counts
  <2> QED
    BY <2>1, <2>2, <2>3, <2>4, <2>5, <2>6, <2>7, <2>8, <2>9 DEF SelectCore
<1>5. CASE ReadTip
  <2>1. RepoTyped'
    BY <1>0, <1>5 DEF SelectCore, RepoTyped, ReadTip, Owned, github, cursor, work, chosen, counts
  <2>2. CursorTyped'
    BY <1>0, <1>5 DEF SelectCore, CursorTyped, Selecting, Resolving, Triaging, LastQuery, ReadTip,
       Owned, github, cursor, work, chosen, counts
  <2>3. WorkTyped'
    BY <1>0, <1>5 DEF SelectCore, WorkTyped, Selecting, Resolving, Triaging, CursorTyped,
       InTheMaking, Apart, ReadTip, Owned, github, cursor, work, chosen, counts
  <2>4. InTheMaking'
    BY <1>0, <1>5 DEF SelectCore, InTheMaking, Selecting, Resolving, Triaging, CursorTyped,
       WorkTyped, ReadTip, Owned, github, cursor, work, chosen, counts
  <2>5. Apart'
    BY <1>0, <1>5 DEF SelectCore, Apart, Selecting, Resolving, Triaging, CursorTyped, WorkTyped,
       InTheMaking, ReadTip, Owned, github, cursor, work, chosen, counts
  <2>6. Resolved'
    BY <1>0, <1>5 DEF SelectCore, Resolved, Selecting, Resolving, Triaging, CursorTyped, WorkTyped,
       InTheMaking, ReadTip, Owned, github, cursor, work, chosen, counts
  <2>7. Unwritten'
    BY <1>0, <1>5 DEF SelectCore, Unwritten, Selecting, Resolving, Triaging, CursorTyped, WorkTyped,
       RepoTyped, InTheMaking, Apart, Clean, ReadTip, Owned, github, cursor, work, chosen, counts
  <2>8. CommentsPaid'
    BY <1>0, <1>5 DEF SelectCore, CommentsPaid, Selecting, Resolving, Triaging, CursorTyped,
       WorkTyped, RepoTyped, InTheMaking, ReadTip, Owned, github, cursor, work, chosen, counts
  <2>9. OrphansRaced'
    BY <1>0, <1>5 DEF SelectCore, OrphansRaced, Selecting, Resolving, Triaging, CursorTyped,
       WorkTyped, RepoTyped, InTheMaking, ReadTip, Owned, github, cursor, work, chosen, counts
  <2> QED
    BY <2>1, <2>2, <2>3, <2>4, <2>5, <2>6, <2>7, <2>8, <2>9 DEF SelectCore
<1>6. CASE DeleteRemoteBranch
  <2>1. RepoTyped'
    BY <1>0, <1>6 DEF SelectCore, RepoTyped, DeleteRemoteBranch, github, cursor, work, chosen,
       counts
  <2>2. CursorTyped'
    BY <1>0, <1>6 DEF SelectCore, CursorTyped, Selecting, Resolving, Triaging, LastQuery,
       DeleteRemoteBranch, github, cursor, work, chosen, counts
  <2>3. WorkTyped'
    BY <1>0, <1>6 DEF SelectCore, WorkTyped, Selecting, Resolving, Triaging, CursorTyped,
       InTheMaking, Apart, DeleteRemoteBranch, github, cursor, work, chosen, counts
  <2>4. InTheMaking'
    BY <1>0, <1>6 DEF SelectCore, InTheMaking, Selecting, Resolving, Triaging, CursorTyped,
       WorkTyped, DeleteRemoteBranch, github, cursor, work, chosen, counts
  <2>5. Apart'
    BY <1>0, <1>6 DEF SelectCore, Apart, Selecting, Resolving, Triaging, CursorTyped, WorkTyped,
       InTheMaking, DeleteRemoteBranch, github, cursor, work, chosen, counts
  <2>6. Resolved'
    BY <1>0, <1>6 DEF SelectCore, Resolved, Selecting, Resolving, Triaging, CursorTyped, WorkTyped,
       InTheMaking, DeleteRemoteBranch, github, cursor, work, chosen, counts
  <2>7. Unwritten'
    BY <1>0, <1>6 DEF SelectCore, Unwritten, Selecting, Resolving, Triaging, CursorTyped, WorkTyped,
       RepoTyped, InTheMaking, Apart, Clean, DeleteRemoteBranch, github, cursor, work, chosen,
       counts
  <2>8. CommentsPaid'
    BY <1>0, <1>6 DEF SelectCore, CommentsPaid, Selecting, Resolving, Triaging, CursorTyped,
       WorkTyped, RepoTyped, InTheMaking, DeleteRemoteBranch, github, cursor, work, chosen, counts
  <2>9. OrphansRaced'
    BY <1>0, <1>6 DEF SelectCore, OrphansRaced, Selecting, Resolving, Triaging, CursorTyped,
       WorkTyped, RepoTyped, InTheMaking, DeleteRemoteBranch, github, cursor, work, chosen, counts
  <2> QED
    BY <2>1, <2>2, <2>3, <2>4, <2>5, <2>6, <2>7, <2>8, <2>9 DEF SelectCore
<1>7. CASE Signals
  <2>1. RepoTyped'
    BY <1>0, <1>7 DEF SelectCore, RepoTyped, Signals, github, cursor, work, chosen, counts
  <2>2. CursorTyped'
    BY <1>0, <1>7 DEF SelectCore, CursorTyped, Selecting, Resolving, Triaging, LastQuery, Signals,
       github, cursor, work, chosen, counts
  <2>3. WorkTyped'
    BY <1>0, <1>7 DEF SelectCore, WorkTyped, Selecting, Resolving, Triaging, CursorTyped,
       InTheMaking, Apart, Signals, github, cursor, work, chosen, counts
  <2>4. InTheMaking'
    BY <1>0, <1>7 DEF SelectCore, InTheMaking, Selecting, Resolving, Triaging, CursorTyped,
       WorkTyped, Signals, github, cursor, work, chosen, counts
  <2>5. Apart'
    BY <1>0, <1>7 DEF SelectCore, Apart, Selecting, Resolving, Triaging, CursorTyped, WorkTyped,
       InTheMaking, Signals, github, cursor, work, chosen, counts
  <2>6. Resolved'
    BY <1>0, <1>7 DEF SelectCore, Resolved, Selecting, Resolving, Triaging, CursorTyped, WorkTyped,
       InTheMaking, Signals, github, cursor, work, chosen, counts
  <2>7. Unwritten'
    BY <1>0, <1>7 DEF SelectCore, Unwritten, Selecting, Resolving, Triaging, CursorTyped, WorkTyped,
       RepoTyped, InTheMaking, Apart, Clean, Signals, github, cursor, work, chosen, counts
  <2>8. CommentsPaid'
    BY <1>0, <1>7 DEF SelectCore, CommentsPaid, Selecting, Resolving, Triaging, CursorTyped,
       WorkTyped, RepoTyped, InTheMaking, Signals, github, cursor, work, chosen, counts
  <2>9. OrphansRaced'
    BY <1>0, <1>7 DEF SelectCore, OrphansRaced, Selecting, Resolving, Triaging, CursorTyped,
       WorkTyped, RepoTyped, InTheMaking, Signals, github, cursor, work, chosen, counts
  <2> QED
    BY <2>1, <2>2, <2>3, <2>4, <2>5, <2>6, <2>7, <2>8, <2>9 DEF SelectCore
<1>8. CASE Comment
  <2>1. RepoTyped'
    <3>1. Least(todo) \in Issues
      BY <1>0, <1>8 DEF SelectCore, WorkTyped, Comment
    <3>2. PICK left \in 0 .. 1 : /\ comments' = [comments EXCEPT ![Least(todo)] = @ + 1]
                                   \/ comments' = [comments EXCEPT ![Least(todo)] = @ + left]
      BY <1>8 DEF Comment
    <3>3. comments' \in [Issues -> Nat]
      BY <3>1, <3>2 DEF SelectCore, RepoTyped
    <3>4. lost' \in [Issues -> Nat]
      BY <1>8, <3>1 DEF SelectCore, RepoTyped, Comment
    <3> QED
      BY <1>8, <3>3, <3>4 DEF SelectCore, RepoTyped, Comment
  <2>2. CursorTyped'
    BY <1>0, <1>8 DEF SelectCore, CursorTyped, Selecting, Resolving, Triaging, LastQuery, Comment,
       github, cursor, work, chosen, counts
  <2>3. WorkTyped'
    BY <1>0, <1>8 DEF SelectCore, WorkTyped, Selecting, Resolving, Triaging, CursorTyped,
       InTheMaking, Apart, Comment, github, cursor, work, chosen, counts
  <2>4. InTheMaking'
    BY <1>0, <1>8 DEF SelectCore, InTheMaking, Selecting, Resolving, Triaging, CursorTyped,
       WorkTyped, Comment, github, cursor, work, chosen, counts
  <2>5. Apart'
    BY <1>0, <1>8 DEF SelectCore, Apart, Selecting, Resolving, Triaging, CursorTyped, WorkTyped,
       InTheMaking, Comment, github, cursor, work, chosen, counts
  <2>6. Resolved'
    BY <1>0, <1>8 DEF SelectCore, Resolved, Selecting, Resolving, Triaging, CursorTyped, WorkTyped,
       InTheMaking, Comment, github, cursor, work, chosen, counts
  <2>7. Unwritten'
    BY <1>0, <1>8 DEF SelectCore, Unwritten, Selecting, Resolving, Triaging, CursorTyped, WorkTyped,
       RepoTyped, InTheMaking, Apart, Clean, Comment, github, cursor, work, chosen, counts
  <2>8. CommentsPaid'
    <3> SUFFICES ASSUME NEW n \in Issues
                 PROVE  comments'[n] <= lost'[n] + (IF Triaged \in labels'[n] THEN 1 ELSE 0)
                                      + (IF pc' = "label" /\ n = Least(todo') THEN 1 ELSE 0)
      BY DEF CommentsPaid
    <3>1. /\ comments \in [Issues -> Nat] /\ lost \in [Issues -> Nat] /\ pc = "comment"
          /\ comments[n] <= lost[n] + (IF Triaged \in labels[n] THEN 1 ELSE 0)
      BY <1>8 DEF SelectCore, RepoTyped, CommentsPaid, Comment
    <3>2. labels' = labels
      BY <1>8 DEF Comment
    <3>3. CASE n = Least(todo)
      BY <1>8, <3>1, <3>2, <3>3 DEF Comment
    <3>4. CASE n # Least(todo)
      <4>1. comments'[n] = comments[n] /\ lost'[n] = lost[n]
        BY <1>8, <3>1, <3>4 DEF Comment
      <4> QED
        BY <3>1, <3>2, <4>1
    <3> QED
      BY <3>3, <3>4
  <2>9. OrphansRaced'
    BY <1>0, <1>8 DEF SelectCore, OrphansRaced, Selecting, Resolving, Triaging, CursorTyped,
       WorkTyped, RepoTyped, InTheMaking, Comment, github, cursor, work, chosen, counts
  <2> QED
    BY <2>1, <2>2, <2>3, <2>4, <2>5, <2>6, <2>7, <2>8, <2>9 DEF SelectCore
<1>9. CASE Label
  <2>1. RepoTyped'
    <3>1. Least(todo) \in Issues
      BY <1>0, <1>9 DEF SelectCore, WorkTyped, InTheMaking, Label
    <3>2. lost' \in [Issues -> Nat]
      BY <1>9, <3>1 DEF SelectCore, RepoTyped, Label
    <3>3. labels' \in [Issues \cup Pulls -> SUBSET LabelNames]
      BY <1>9, <3>1 DEF SelectCore, RepoTyped, Label, LabelNames
    <3> QED
      BY <1>9, <3>2, <3>3 DEF SelectCore, RepoTyped, Label
  <2>2. CursorTyped'
    BY <1>0, <1>9 DEF SelectCore, CursorTyped, Selecting, Resolving, Triaging, LastQuery, Label,
       github, cursor, work, chosen, counts
  <2>3. WorkTyped'
    BY <1>0, <1>9 DEF SelectCore, WorkTyped, Selecting, Resolving, Triaging, CursorTyped,
       InTheMaking, Apart, Label, github, cursor, work, chosen, counts
  <2>4. InTheMaking'
    BY <1>0, <1>9 DEF SelectCore, InTheMaking, Selecting, Resolving, Triaging, CursorTyped,
       WorkTyped, Label, github, cursor, work, chosen, counts
  <2>5. Apart'
    BY <1>0, <1>9 DEF SelectCore, Apart, Selecting, Resolving, Triaging, CursorTyped, WorkTyped,
       InTheMaking, Label, github, cursor, work, chosen, counts
  <2>6. Resolved'
    BY <1>0, <1>9 DEF SelectCore, Resolved, Selecting, Resolving, Triaging, CursorTyped, WorkTyped,
       InTheMaking, Label, github, cursor, work, chosen, counts
  <2>7. Unwritten'
    <3>1. /\ Least(todo) \in todo /\ todo' = todo \ {Least(todo)} /\ pc = "label" /\ pc' = "comment"
          /\ kept' = kept /\ selected' = selected
      BY <1>0, <1>9 DEF SelectCore, InTheMaking, Label, chosen
    <3>2. Least(todo) \notin todo' \cup kept' \cup ToSet(selected')
      BY <3>1 DEF SelectCore, Apart, WorkTyped, Triaging
    <3>3. \A n \in Issues : n # Least(todo) => labels'[n] = labels[n]
      BY <1>9 DEF SelectCore, RepoTyped, Label
    <3>4. todo \cup kept \cup ToSet(selected) \subseteq Issues
      BY ChosenAre DEF SelectCore, WorkTyped
    <3> QED
      BY <3>1, <3>2, <3>3, <3>4 DEF SelectCore, Unwritten, Clean, Resolving, Triaging
  <2>8. CommentsPaid'
    <3> SUFFICES ASSUME NEW n \in Issues
                 PROVE  comments'[n] <= lost'[n] + (IF Triaged \in labels'[n] THEN 1 ELSE 0)
                                      + (IF pc' = "label" /\ n = Least(todo') THEN 1 ELSE 0)
      BY DEF CommentsPaid
    <3>1. /\ comments \in [Issues -> Nat] /\ lost \in [Issues -> Nat]
          /\ labels \in [Issues \cup Pulls -> SUBSET LabelNames] /\ pc = "label" /\ comments' =
             comments
          /\ lost' \in [Issues -> Nat] /\ pc' = "comment"
          /\ comments[n] <= lost[n] + (IF Triaged \in labels[n] THEN 1 ELSE 0)
                                     + (IF n = Least(todo) THEN 1 ELSE 0)
      BY <1>9, <2>1 DEF SelectCore, RepoTyped, CommentsPaid, Label
    <3>2. CASE n = Least(todo)
      <4>1. CASE labels' = [labels EXCEPT ![n] = @ \cup {Triaged}] /\ lost' = lost
        <5>1. Triaged \in labels'[n]
          BY <3>1, <4>1
        <5>2. Triaged \notin labels[n]
          BY <1>0, <1>9, <3>2 DEF SelectCore, InTheMaking, Unwritten, Clean, Label
        <5> QED
          BY <3>1, <3>2, <4>1, <5>1, <5>2
      <4>2. CASE lost' = [lost EXCEPT ![n] = @ + 1] /\ labels' = labels
        BY <3>1, <3>2, <4>2
      <4> QED
        BY <1>9, <3>2, <4>1, <4>2 DEF Label
    <3>3. CASE n # Least(todo)
      <4>1. labels'[n] = labels[n] /\ lost'[n] = lost[n]
        BY <1>9, <3>1, <3>3 DEF Label
      <4> QED
        BY <3>1, <3>3, <4>1
    <3> QED
      BY <3>2, <3>3
  <2>9. OrphansRaced'
    BY <1>0, <1>9 DEF SelectCore, OrphansRaced, Selecting, Resolving, Triaging, CursorTyped,
       WorkTyped, RepoTyped, InTheMaking, Label, github, cursor, work, chosen, counts
  <2> QED
    BY <2>1, <2>2, <2>3, <2>4, <2>5, <2>6, <2>7, <2>8, <2>9 DEF SelectCore
<1>10. CASE Fill
  BY <1>10, FillCore
<1>11. CASE Throws
  <2>1. RepoTyped'
    BY <1>0, <1>11, NightsAssumption DEF SelectCore, RepoTyped, WorkTyped, InTheMaking, Throws,
       Forget, github, cursor, work, chosen, counts
  <2>2. Forget /\ pc' \in {"start", "cut"} /\ UNCHANGED priority
    BY <1>11 DEF Throws, github
  <2>3. CommentsPaid'
    BY <1>0, <1>11 DEF SelectCore, CommentsPaid, Selecting, Resolving, Triaging, CursorTyped,
       WorkTyped, RepoTyped, InTheMaking, Throws, Running, github, cursor, work, chosen, counts
  <2> QED
    BY <2>1, <2>2, <2>3, ForgetKeeps DEF SelectCore
<1>12. CASE Killed
  <2>1. RepoTyped'
    BY <1>0, <1>12, NightsAssumption DEF SelectCore, RepoTyped, WorkTyped, InTheMaking, Killed,
       Forget, github, cursor, work, chosen, counts
  <2>2. Forget /\ pc' \in {"start", "cut"} /\ UNCHANGED priority
    BY <1>12 DEF Killed, github
  <2>3. CommentsPaid'
    BY <1>0, <1>12 DEF SelectCore, CommentsPaid, Selecting, Resolving, Triaging, CursorTyped,
       WorkTyped, RepoTyped, InTheMaking, Killed, Running, github, cursor, work, chosen, counts
  <2> QED
    BY <2>1, <2>2, <2>3, ForgetKeeps DEF SelectCore
<1>13. CASE NextNight
  <2>1. RepoTyped'
    BY <1>0, <1>13, NightsAssumption DEF SelectCore, RepoTyped, WorkTyped, InTheMaking, NextNight,
       Forget, github, cursor, work, chosen, counts
  <2>2. Forget /\ pc' \in {"start", "cut"} /\ UNCHANGED priority
    BY <1>13 DEF NextNight, github
  <2>3. CommentsPaid'
    BY <1>0, <1>13 DEF SelectCore, CommentsPaid, Selecting, Resolving, Triaging, CursorTyped,
       WorkTyped, RepoTyped, InTheMaking, NextNight, Running, github, cursor, work, chosen, counts
  <2> QED
    BY <2>1, <2>2, <2>3, ForgetKeeps DEF SelectCore
<1>14. ASSUME NEW n \in Issues, Close(n)
      PROVE  SelectCore'
  <2>1. RepoTyped'
    BY <1>0, <1>14, NightsAssumption DEF SelectCore, RepoTyped, Close, Acts, Running, github,
       cursor, work, chosen, counts
  <2>2. CursorTyped'
    BY <1>0, <1>14 DEF SelectCore, CursorTyped, Selecting, Resolving, Triaging, LastQuery, Close,
       Acts, Running, github, cursor, work, chosen, counts
  <2>3. WorkTyped'
    BY <1>0, <1>14 DEF SelectCore, WorkTyped, Selecting, Resolving, Triaging, CursorTyped,
       InTheMaking, Apart, Close, Acts, Running, github, cursor, work, chosen, counts
  <2>4. InTheMaking'
    BY <1>0, <1>14 DEF SelectCore, InTheMaking, Selecting, Resolving, Triaging, CursorTyped,
       WorkTyped, Close, Acts, Running, github, cursor, work, chosen, counts
  <2>5. Apart'
    BY <1>0, <1>14 DEF SelectCore, Apart, Selecting, Resolving, Triaging, CursorTyped, WorkTyped,
       InTheMaking, Close, Acts, Running, github, cursor, work, chosen, counts
  <2>6. Resolved'
    BY <1>0, <1>14 DEF SelectCore, Resolved, Selecting, Resolving, Triaging, CursorTyped, WorkTyped,
       InTheMaking, Close, Acts, Running, github, cursor, work, chosen, counts
  <2>7. Unwritten'
    BY <1>0, <1>14 DEF SelectCore, Unwritten, Selecting, Resolving, Triaging, CursorTyped,
       WorkTyped, RepoTyped, InTheMaking, Apart, Clean, Close, Acts, Running, github, cursor, work,
       chosen, counts
  <2>8. CommentsPaid'
    BY <1>0, <1>14 DEF SelectCore, CommentsPaid, Selecting, Resolving, Triaging, CursorTyped,
       WorkTyped, RepoTyped, InTheMaking, Close, Acts, Running, github, cursor, work, chosen, counts
  <2>9. OrphansRaced'
    BY <1>0, <1>14 DEF SelectCore, OrphansRaced, Selecting, Resolving, Triaging, CursorTyped,
       WorkTyped, RepoTyped, InTheMaking, Close, Acts, Running, github, cursor, work, chosen, counts
  <2> QED
    BY <2>1, <2>2, <2>3, <2>4, <2>5, <2>6, <2>7, <2>8, <2>9 DEF SelectCore
<1>15. ASSUME NEW n \in Issues, Push(n)
      PROVE  SelectCore'
  <2>1. RepoTyped'
    BY <1>0, <1>15, NightsAssumption DEF SelectCore, RepoTyped, Push, Acts, Running, github, cursor,
       work, chosen, counts
  <2>2. CursorTyped'
    BY <1>0, <1>15 DEF SelectCore, CursorTyped, Selecting, Resolving, Triaging, LastQuery, Push,
       Acts, Running, github, cursor, work, chosen, counts
  <2>3. WorkTyped'
    BY <1>0, <1>15 DEF SelectCore, WorkTyped, Selecting, Resolving, Triaging, CursorTyped,
       InTheMaking, Apart, Push, Acts, Running, github, cursor, work, chosen, counts
  <2>4. InTheMaking'
    BY <1>0, <1>15 DEF SelectCore, InTheMaking, Selecting, Resolving, Triaging, CursorTyped,
       WorkTyped, Push, Acts, Running, github, cursor, work, chosen, counts
  <2>5. Apart'
    BY <1>0, <1>15 DEF SelectCore, Apart, Selecting, Resolving, Triaging, CursorTyped, WorkTyped,
       InTheMaking, Push, Acts, Running, github, cursor, work, chosen, counts
  <2>6. Resolved'
    BY <1>0, <1>15 DEF SelectCore, Resolved, Selecting, Resolving, Triaging, CursorTyped, WorkTyped,
       InTheMaking, Push, Acts, Running, github, cursor, work, chosen, counts
  <2>7. Unwritten'
    BY <1>0, <1>15 DEF SelectCore, Unwritten, Selecting, Resolving, Triaging, CursorTyped,
       WorkTyped, RepoTyped, InTheMaking, Apart, Clean, Push, Acts, Running, github, cursor, work,
       chosen, counts
  <2>8. CommentsPaid'
    BY <1>0, <1>15 DEF SelectCore, CommentsPaid, Selecting, Resolving, Triaging, CursorTyped,
       WorkTyped, RepoTyped, InTheMaking, Push, Acts, Running, github, cursor, work, chosen, counts
  <2>9. OrphansRaced'
    BY <1>0, <1>15 DEF SelectCore, OrphansRaced, Selecting, Resolving, Triaging, CursorTyped,
       WorkTyped, RepoTyped, InTheMaking, Push, Acts, Running, github, cursor, work, chosen, counts
  <2> QED
    BY <2>1, <2>2, <2>3, <2>4, <2>5, <2>6, <2>7, <2>8, <2>9 DEF SelectCore
<1>16. ASSUME NEW n \in Issues, RemoveBranch(n)
      PROVE  SelectCore'
  <2>1. RepoTyped'
    BY <1>0, <1>16, NightsAssumption DEF SelectCore, RepoTyped, RemoveBranch, Acts, Running, github,
       cursor, work, chosen, counts
  <2>2. CursorTyped'
    BY <1>0, <1>16 DEF SelectCore, CursorTyped, Selecting, Resolving, Triaging, LastQuery,
       RemoveBranch, Acts, Running, github, cursor, work, chosen, counts
  <2>3. WorkTyped'
    BY <1>0, <1>16 DEF SelectCore, WorkTyped, Selecting, Resolving, Triaging, CursorTyped,
       InTheMaking, Apart, RemoveBranch, Acts, Running, github, cursor, work, chosen, counts
  <2>4. InTheMaking'
    BY <1>0, <1>16 DEF SelectCore, InTheMaking, Selecting, Resolving, Triaging, CursorTyped,
       WorkTyped, RemoveBranch, Acts, Running, github, cursor, work, chosen, counts
  <2>5. Apart'
    BY <1>0, <1>16 DEF SelectCore, Apart, Selecting, Resolving, Triaging, CursorTyped, WorkTyped,
       InTheMaking, RemoveBranch, Acts, Running, github, cursor, work, chosen, counts
  <2>6. Resolved'
    BY <1>0, <1>16 DEF SelectCore, Resolved, Selecting, Resolving, Triaging, CursorTyped, WorkTyped,
       InTheMaking, RemoveBranch, Acts, Running, github, cursor, work, chosen, counts
  <2>7. Unwritten'
    BY <1>0, <1>16 DEF SelectCore, Unwritten, Selecting, Resolving, Triaging, CursorTyped,
       WorkTyped, RepoTyped, InTheMaking, Apart, Clean, RemoveBranch, Acts, Running, github, cursor,
       work, chosen, counts
  <2>8. CommentsPaid'
    BY <1>0, <1>16 DEF SelectCore, CommentsPaid, Selecting, Resolving, Triaging, CursorTyped,
       WorkTyped, RepoTyped, InTheMaking, RemoveBranch, Acts, Running, github, cursor, work, chosen,
       counts
  <2>9. OrphansRaced'
    BY <1>0, <1>16 DEF SelectCore, OrphansRaced, Selecting, Resolving, Triaging, CursorTyped,
       WorkTyped, RepoTyped, InTheMaking, RemoveBranch, Acts, Running, github, cursor, work, chosen,
       counts
  <2> QED
    BY <2>1, <2>2, <2>3, <2>4, <2>5, <2>6, <2>7, <2>8, <2>9 DEF SelectCore
<1>17. ASSUME NEW n \in Issues, OpenPr(n)
      PROVE  SelectCore'
  <2>1. RepoTyped'
    BY <1>0, <1>17, NightsAssumption DEF SelectCore, RepoTyped, OpenPr, Acts, Running, github,
       cursor, work, chosen, counts
  <2>2. CursorTyped'
    BY <1>0, <1>17 DEF SelectCore, CursorTyped, Selecting, Resolving, Triaging, LastQuery, OpenPr,
       Acts, Running, github, cursor, work, chosen, counts
  <2>3. WorkTyped'
    BY <1>0, <1>17 DEF SelectCore, WorkTyped, Selecting, Resolving, Triaging, CursorTyped,
       InTheMaking, Apart, OpenPr, Acts, Running, github, cursor, work, chosen, counts
  <2>4. InTheMaking'
    BY <1>0, <1>17 DEF SelectCore, InTheMaking, Selecting, Resolving, Triaging, CursorTyped,
       WorkTyped, OpenPr, Acts, Running, github, cursor, work, chosen, counts
  <2>5. Apart'
    BY <1>0, <1>17 DEF SelectCore, Apart, Selecting, Resolving, Triaging, CursorTyped, WorkTyped,
       InTheMaking, OpenPr, Acts, Running, github, cursor, work, chosen, counts
  <2>6. Resolved'
    BY <1>0, <1>17 DEF SelectCore, Resolved, Selecting, Resolving, Triaging, CursorTyped, WorkTyped,
       InTheMaking, OpenPr, Acts, Running, github, cursor, work, chosen, counts
  <2>7. Unwritten'
    BY <1>0, <1>17 DEF SelectCore, Unwritten, Selecting, Resolving, Triaging, CursorTyped,
       WorkTyped, RepoTyped, InTheMaking, Apart, Clean, OpenPr, Acts, Running, github, cursor, work,
       chosen, counts
  <2>8. CommentsPaid'
    BY <1>0, <1>17 DEF SelectCore, CommentsPaid, Selecting, Resolving, Triaging, CursorTyped,
       WorkTyped, RepoTyped, InTheMaking, OpenPr, Acts, Running, github, cursor, work, chosen,
       counts
  <2>9. OrphansRaced'
    BY <1>0, <1>17 DEF SelectCore, OrphansRaced, Selecting, Resolving, Triaging, CursorTyped,
       WorkTyped, RepoTyped, InTheMaking, OpenPr, Acts, Running, github, cursor, work, chosen,
       counts
  <2> QED
    BY <2>1, <2>2, <2>3, <2>4, <2>5, <2>6, <2>7, <2>8, <2>9 DEF SelectCore
<1>18. CASE UNCHANGED selectVars
  BY <1>18 DEF SelectCore, RepoTyped, CursorTyped, WorkTyped, InTheMaking, Apart, Resolved,
     Unwritten, CommentsPaid, OrphansRaced, Selecting, Resolving, Triaging, Clean, LastQuery,
     selectVars, github, cursor, work, chosen, counts
<1> QED
  BY <1>1, <1>2, <1>3, <1>4, <1>5, <1>6, <1>7, <1>8, <1>9, <1>10, <1>11, <1>12, <1>13, <1>14, <1>15,
     <1>16, <1>17, <1>18 DEF SelectNext, Step

-----------------------------------------------------------------------------
(* The queries and the order they make. *)

LEMMA TiersAre ==
  /\ Len(Pickups) \in Nat \ {0} /\ Len(Priorities) \in Nat /\ Len(Tiers) = Len(Priorities) + 1
  /\ \A t \in 1 .. Len(Priorities) : Tiers[t] = Priorities[t] /\ Priorities[t] # Unlabeled
  /\ Tiers[Len(Priorities) + 1] = Unlabeled
<1>1. Pickups \in Seq(STRING) /\ Pickups # << >> /\ Priorities \in Seq(STRING \cup {Unlabeled})
  <2>1. Priorities \in Seq(STRING)
    BY RuleAssumption
  <2>2. Priorities \in Seq(STRING \cup {Unlabeled})
    BY <2>1, SeqMonotonic
  <2> QED
    BY <2>2, RuleAssumption
<1>2. /\ Len(Pickups) \in Nat \ {0} /\ Len(Priorities) \in Nat
      /\ DOMAIN Priorities = 1 .. Len(Priorities)
  BY <1>1, EmptySeq, LenProperties
<1>3. /\ Len(Tiers) = Len(Priorities) + 1 /\ Tiers[Len(Priorities) + 1] = Unlabeled
      /\ \A t \in 1 .. Len(Priorities) : Tiers[t] = Priorities[t]
  BY <1>1, AppendProperties DEF Tiers
<1>4. \A t \in 1 .. Len(Priorities) : Priorities[t] # Unlabeled
  BY <1>2, RuleAssumption DEF ToSet
<1> QED
  BY <1>2, <1>3, <1>4

LEMMA QueriesAre ==
  /\ DOMAIN Queries = 1 .. Len(Tiers) * Len(Pickups) /\ Len(Tiers) * Len(Pickups) \in Nat
  /\ LastQuery <= Len(Tiers) * Len(Pickups)
  /\ \A t \in 1 .. Len(Tiers), p \in 1 .. Len(Pickups) :
       \E q \in DOMAIN Queries : /\ Queries[q].tier = Tiers[t] /\ Queries[q].pickup = Pickups[p]
                                 /\ t <= Len(Priorities) => q <= Len(Priorities) * Len(Pickups)
<1>1. PICK size \in Nat, tiers \in Nat \ {0}, high \in Nat :
        /\ size = Len(Pickups) /\ size # 0
        /\ tiers = Len(Tiers) /\ high = Len(Priorities) /\ tiers = high + 1
  BY TiersAre
<1>2. tiers * size \in Nat /\ high * size \in Nat /\ tiers * size = high * size + size
  BY <1>1
<1>3. DOMAIN Queries = 1 .. tiers * size
  BY <1>1 DEF Queries
<1>4. LastQuery <= tiers * size
  BY <1>1, <1>2 DEF LastQuery
<1>5. ASSUME NEW t \in 1 .. tiers, NEW p \in 1 .. size
      PROVE  \E q \in DOMAIN Queries :
               /\ Queries[q].tier = Tiers[t] /\ Queries[q].pickup = Pickups[p]
               /\ t <= high => q <= high * size
  <2>1. PICK s \in Nat : s = t - 1 /\ s <= high
    BY <1>1
  <2>2. PICK q \in Nat : q = s * size + p
    BY <1>1, <2>1
  <2>3. s * size <= high * size /\ s * size \in Nat
    BY <1>1, <2>1
  <2>4. q \in 1 .. tiers * size
    BY <1>1, <1>2, <2>2, <2>3
  <2>5. (q - 1) \div size = s /\ (q - 1) % size = p - 1
    <3>1. PICK x \in Nat, j \in Nat : x = q - 1 /\ j = p - 1 /\ j < size /\ x = s * size + j
      BY <1>1, <2>2
    <3>2. PICK d \in Nat, r \in Nat : d = x \div size /\ r = x % size
      BY <1>1
    <3>3. x = d * size + r /\ r < size
      BY <1>1, <3>2
    <3>4. ~(d < s)
      <4>1. d < s => (d + 1) * size <= s * size /\ (d + 1) * size = d * size + size
        BY <1>1
      <4>2. d * size \in Nat /\ s * size \in Nat
        BY <1>1
      <4> QED
        BY <1>1, <3>1, <3>3, <4>1, <4>2
    <3>5. ~(s < d)
      <4>1. s < d => (s + 1) * size <= d * size /\ (s + 1) * size = s * size + size
        BY <1>1
      <4>2. d * size \in Nat /\ s * size \in Nat
        BY <1>1
      <4> QED
        BY <1>1, <3>1, <3>3, <4>1, <4>2
    <3>6. d = s
      BY <3>4, <3>5
    <3>7. r = j
      <4>1. d * size \in Nat /\ d * size = s * size
        BY <1>1, <3>6
      <4> QED
        BY <3>1, <3>3, <4>1
    <3> QED
      BY <3>1, <3>2, <3>6, <3>7
  <2>6. Queries[q].tier = Tiers[1 + s] /\ Queries[q].pickup = Pickups[1 + (p - 1)]
    BY <1>1, <2>4, <2>5 DEF Queries
  <2>7. 1 + s = t /\ 1 + (p - 1) = p
    BY <1>1, <2>1
  <2>8. t <= high => q <= high * size
    <3>1. ASSUME t <= high
          PROVE  (s + 1) * size <= high * size
      BY <1>1, <2>1, <3>1
    <3>2. (s + 1) * size = s * size + size
      BY <1>1, <2>1
    <3> QED
      BY <1>1, <1>2, <2>2, <2>3, <3>1, <3>2
  <2> QED
    BY <1>3, <2>4, <2>6, <2>7, <2>8
<1> QED
  BY <1>1, <1>2, <1>3, <1>4, <1>5

LEMMA RankLeast ==
  ASSUME NEW n, NEW q \in DOMAIN Queries, Fits(n, q)
  PROVE  /\ Rank(n) \in DOMAIN Queries /\ Rank(n) \in Nat /\ Rank(n) <= q /\ Fits(n, Rank(n))
         /\ \A r \in DOMAIN Queries : Fits(n, r) => Rank(n) <= r
<1> DEFINE S == {r \in DOMAIN Queries : Fits(n, r)}
<1>1. S \subseteq Nat /\ q \in S
  BY QueriesAre
<1>2. Least(S) \in S /\ \A r \in S : Least(S) <= r
  BY <1>1, LeastIs
<1> QED
  BY <1>1, <1>2 DEF Rank

(* Some query of the night shows an issue in line. *)
LEMMA RankIs ==
  ASSUME RepoTyped, NEW n \in Issues, Queued(n)
  PROVE  Rank(n) \in 1 .. LastQuery /\ Fits(n, Rank(n)) /\ n \in Listed(Rank(n))
<1>1. PICK p \in 1 .. Len(Pickups) : Pickups[p] \in labels[n]
  <2>1. Pickups \in Seq(STRING)
    BY RuleAssumption
  <2>2. DOMAIN Pickups = 1 .. Len(Pickups)
    BY <2>1, LenProperties
  <2> QED
    BY <2>2 DEF Queued, Matches, ToSet
<1>2. \E q \in DOMAIN Queries : q <= LastQuery /\ Fits(n, q)
  <2>1. CASE IsUnlabeled(n)
    <3>1. Len(Priorities) + 1 \in 1 .. Len(Tiers)
      BY TiersAre
    <3>2. PICK q \in DOMAIN Queries :
            Queries[q].tier = Tiers[Len(Priorities) + 1] /\ Queries[q].pickup = Pickups[p]
      BY <3>1, QueriesAre
    <3>3. Fits(n, q)
      BY <1>1, <2>1, <3>2, TiersAre DEF Fits
    <3>4. LastQuery = Len(Tiers) * Len(Pickups)
      BY <2>1 DEF Queued, LastQuery
    <3>5. q <= LastQuery
      BY <3>4, QueriesAre
    <3> QED
      BY <3>3, <3>5
  <2>2. CASE ~IsUnlabeled(n)
    <3>1. Priorities \in Seq(STRING)
      BY RuleAssumption
    <3>2. DOMAIN Priorities = 1 .. Len(Priorities)
      BY <3>1, LenProperties
    <3>3. PICK t \in 1 .. Len(Priorities) : Priorities[t] \in labels[n]
      BY <2>2, <3>2 DEF IsUnlabeled, ToSet
    <3>4. t \in 1 .. Len(Tiers) /\ t <= Len(Priorities)
      BY TiersAre
    <3>5. PICK q \in DOMAIN Queries :
            /\ Queries[q].tier = Tiers[t] /\ Queries[q].pickup = Pickups[p]
            /\ q <= Len(Priorities) * Len(Pickups)
      BY <3>4, QueriesAre
    <3>6. Fits(n, q)
      BY <1>1, <3>3, <3>5, TiersAre DEF Fits
    <3>7. q <= LastQuery
      BY <3>5, QueriesAre DEF LastQuery
    <3> QED
      BY <3>6, <3>7
  <2> QED
    BY <2>1, <2>2
<1>3. PICK q \in DOMAIN Queries : q <= LastQuery /\ Fits(n, q)
  BY <1>2
<1>4. Rank(n) \in DOMAIN Queries /\ Rank(n) <= q /\ Fits(n, Rank(n))
  BY <1>3, RankLeast
<1>5. Rank(n) \in 1 .. LastQuery
  BY <1>3, <1>4, QueriesAre, LastQueryIs
<1>6. n \in Listed(Rank(n))
  BY <1>4 DEF Queued, Listed, Fits
<1> QED
  BY <1>4, <1>5, <1>6

-----------------------------------------------------------------------------
(* What keeps the line in order. *)

(* The list of issues and their labels are as they were. *)
LEMMA SameLine ==
  ASSUME UNCHANGED <<priority, open, labels, gone>>
  PROVE  /\ LastQuery' = LastQuery
         /\ \A n : Queued(n)' = Queued(n) /\ Live(n)' = Live(n) /\ Clean(n)' = Clean(n)
         /\ \A n : Rank(n)' = Rank(n)
         /\ \A n, m : Ahead(n, m)' = Ahead(n, m)
         /\ \A q : Listed(q)' = Listed(q)
<1>1. LastQuery' = LastQuery
  BY DEF LastQuery
<1>2. ASSUME NEW n
      PROVE  /\ Queued(n)' = Queued(n) /\ Live(n)' = Live(n) /\ Clean(n)' = Clean(n)
             /\ Rank(n)' = Rank(n)
  <2>1. \A q : Fits(n, q)' = Fits(n, q)
    BY DEF Fits, IsUnlabeled
  <2>2. Rank(n)' = Rank(n)
    BY <2>1, Zenon DEF Rank
  <2>3. Queued(n)' = Queued(n) /\ Live(n)' = Live(n) /\ Clean(n)' = Clean(n)
    BY DEF Queued, Matches, IsUnlabeled, Live, Shifted, Clean
  <2> QED
    BY <2>2, <2>3
<1>3. ASSUME NEW n, NEW m
      PROVE  Ahead(n, m)' = Ahead(n, m)
  BY <1>2 DEF Ahead
<1>4. ASSUME NEW q
      PROVE  Listed(q)' = Listed(q)
  BY DEF Listed
<1> QED
  BY <1>1, <1>2, <1>3, <1>4

(* People close issues, and the night writes labels and sets issues aside, *)
(* between two looks at the list.                                          *)
Quiet ==
  /\ UNCHANGED <<priority, query, page, fetched, seen, batch, selected>>
  /\ open' \subseteq open /\ gone \subseteq gone' /\ open \ open' \subseteq gone'
  /\ \A n \in Issues \cup Pulls :
       labels'[n] = labels[n] \/ (labels[n] \subseteq labels'[n] /\ Triaged \in labels'[n])
  /\ skipped \subseteq skipped' /\ out \subseteq out'
  /\ (pc' = "list" <=> pc = "list") /\ (pc' \in Resolving <=> pc \in Resolving)

LEMMA QuietKeeps ==
  ASSUME SelectCore, SelectCore', WholeList, Swept, Lined, Quiet
  PROVE  WholeList' /\ Swept' /\ Lined'
<1>1. ASSUME NEW n \in Issues, Clean(n)'
      PROVE  labels'[n] = labels[n] /\ Clean(n) /\ Rank(n)' = Rank(n)
  <2>1. labels'[n] = labels[n]
    BY <1>1 DEF Quiet, Clean
  <2>2. \A q : Fits(n, q)' = Fits(n, q)
    BY <2>1 DEF Fits, IsUnlabeled
  <2>3. Rank(n)' = Rank(n)
    BY <2>2, Zenon DEF Rank
  <2> QED
    BY <1>1, <2>1, <2>3 DEF Clean
<1>2. ASSUME NEW n \in Issues, Queued(n)'
      PROVE  Queued(n) /\ Clean(n)' /\ Rank(n)' = Rank(n) /\ (Live(n)' => Live(n))
  <2>1. Clean(n)'
    BY <1>2 DEF Queued, Clean
  <2>2. labels'[n] = labels[n] /\ Rank(n)' = Rank(n)
    BY <1>1, <2>1
  <2>3. Queued(n)
    BY <1>2, <2>2 DEF Queued, Matches, IsUnlabeled, Quiet
  <2>4. Live(n)' => Live(n)
    BY <2>3 DEF Live, Shifted, Quiet
  <2> QED
    BY <2>1, <2>2, <2>3, <2>4
<1>3. ASSUME NEW n \in Issues, Live(n)'
      PROVE  Live(n) /\ Clean(n)' /\ Rank(n)' = Rank(n)
  BY <1>2, <1>3 DEF Live
<1>4. ASSUME NEW n \in Issues, Live(n)', priority # "off"
      PROVE  /\ Placed(n, Listed(query)) \in Nat /\ Placed(n, Listed(query)') \in Nat
             /\ Placed(n, Listed(query)) <= Placed(n, Listed(query)')
  <2> DEFINE shown == {k \in Listed(query) : k <= n}
             after == {k \in Listed(query)' : k <= n}
  <2>1. /\ Listed(query) \subseteq Nat /\ Listed(query) \subseteq open \cup Pulls
        /\ (Listed(query)') \subseteq Nat /\ IsFiniteSet(Listed(query)')
    <3>1. query \in Nat /\ query' \in Nat
      BY LastQueryIs DEF SelectCore, CursorTyped, Quiet
    <3>2. Listed(query) \subseteq Nat /\ Listed(query) \subseteq open \cup Pulls
      BY <3>1, NumbersAreFinite DEF SelectCore
    <3>3. RepoTyped' /\ query' = query
      BY DEF SelectCore, Quiet
    <3>4. (open \cup Pulls)' \subseteq Issues \cup Pulls
      BY <3>3 DEF RepoTyped
    <3>5. (Listed(query)') \subseteq Issues \cup Pulls
      BY <3>4 DEF Listed
    <3>6. (Listed(query)') \subseteq Nat /\ IsFiniteSet(Listed(query)')
      BY <3>5, NumbersAssumption, FS_Subset
    <3> QED
      BY <3>2, <3>6
  <2>2. ASSUME NEW k \in shown
        PROVE  k \in after
    <3>1. k \in open \cup Pulls /\ k <= n /\ k \in Nat /\ n \in Nat
      BY <2>1, NumbersAssumption
    <3>2. k \notin Pulls => k \in open'
      <4>1. SUFFICES ASSUME k \notin Pulls, k \notin open'
                     PROVE  FALSE
        OBVIOUS
      <4>2. k \in gone' /\ k # n
        BY <1>4, <3>1, <4>1 DEF Quiet, Live, Queued
      <4>3. k < n
        BY <3>1, <4>2
      <4> QED
        BY <1>4, <4>2, <4>3 DEF Live, Shifted, Quiet
    <3>3. k \in Issues \cup Pulls
      BY <3>1 DEF SelectCore, RepoTyped
    <3>4. labels[k] \subseteq labels'[k]
      BY <3>3 DEF Quiet
    <3>5. k \in Listed(query)'
      BY <3>1, <3>2, <3>4 DEF Listed, Quiet
    <3> QED
      BY <3>1, <3>5
  <2>3. shown \subseteq after
    BY <2>2
  <2>4. IsFiniteSet(after)
    <3>1. after \subseteq Listed(query)'
      OBVIOUS
    <3> QED
      BY <2>1, <3>1, FS_Subset
  <2>5. /\ Cardinality(shown) \in Nat /\ Cardinality(after) \in Nat
        /\ Cardinality(shown) <= Cardinality(after)
    <3> HIDE DEF shown, after
    <3> QED
      BY <2>3, <2>4, FS_Subset, FS_CardinalityType
  <2> QED
    BY <2>5 DEF Placed
<1>5. ASSUME NEW n \in Issues, NEW m \in Issues, Clean(n)', Clean(m)', Ahead(n, m)'
      PROVE  Ahead(n, m)
  BY <1>1, <1>5 DEF Ahead, Quiet
<1>6. WholeList'
  BY <1>2 DEF WholeList, Quiet
<1>7. Swept'
  <2> SUFFICES ASSUME priority # "off", pc \in Selecting, NEW n \in Issues, Live(n)'
               PROVE  /\ Rank(n) < query => n \in seen
                      /\ pc = "list" /\ Rank(n) = query
                           /\ Placed(n, Listed(query)') <= (page - 1) * PerPage => n \in seen
                      /\ pc # "list" /\ Rank(n) = query
                           /\ (Placed(n, Listed(query)') <= page * PerPage \/ fetched < PerPage)
                           => n \in seen
    BY <1>3 DEF Swept, Quiet, Selecting
  <2>1. /\ Live(n) /\ Placed(n, Listed(query)) <= Placed(n, Listed(query)')
        /\ Placed(n, Listed(query)) \in Nat /\ Placed(n, Listed(query)') \in Nat
    BY <1>3, <1>4
  <2>2. /\ Rank(n) < query => n \in seen
        /\ pc = "list" /\ Rank(n) = query /\ Placed(n, Listed(query)) <= (page - 1) * PerPage
             => n \in seen
        /\ pc # "list" /\ Rank(n) = query
             /\ (Placed(n, Listed(query)) <= page * PerPage \/ fetched < PerPage) => n \in seen
    BY <2>1 DEF Swept
  <2>3. \A upto \in Int : Placed(n, Listed(query)') <= upto => Placed(n, Listed(query)) <= upto
    BY <2>1
  <2>4. (page - 1) * PerPage \in Int /\ page * PerPage \in Int
    BY CapAssumption DEF SelectCore, CursorTyped, PerPage
  <2> QED
    BY <2>2, <2>3, <2>4
<1>8. Lined'
  <2> SUFFICES ASSUME priority # "off", pc \in Selecting
               PROVE  /\ \A n \in seen : Queued(n)' => Accounted(n)' \/ n \in batch
                      /\ \A m \in seen : Clean(m)' => Rank(m)' \in 1 .. query
                      /\ \A n \in batch : Live(n)' => Rank(n)' >= query
                      /\ \A m \in ToSet(selected) : InLine(m, seen \ batch)'
                      /\ \A m \in batch : Clean(m)' => InLine(m, seen)'
    BY DEF Lined, Quiet, Selecting, InLine
  <2>1. seen \subseteq Issues /\ batch \subseteq Issues /\ ToSet(selected) \subseteq Issues
    BY ChosenAre DEF SelectCore, CursorTyped, WorkTyped
  <2>2. \A n \in seen : Queued(n)' => Accounted(n)' \/ n \in batch
    BY <1>2, <2>1 DEF Lined, Accounted, Quiet
  <2>3. \A m \in seen : Clean(m)' => Rank(m)' \in 1 .. query
    BY <1>1, <2>1 DEF Lined
  <2>4. \A n \in batch : Live(n)' => Rank(n)' >= query
    BY <1>3, <2>1 DEF Lined
  <2>5. ASSUME NEW m \in Issues, NEW done, done' = done, InLine(m, done), Clean(m)'
        PROVE  InLine(m, done)'
    BY <1>3, <1>5, <2>5 DEF InLine
  <2>6. \A m \in ToSet(selected) : InLine(m, seen \ batch)'
    <3>1. \A m \in ToSet(selected) : Clean(m)'
      BY DEF SelectCore, Unwritten, Quiet
    <3> QED
      BY <2>1, <2>5, <3>1 DEF Lined, Quiet
  <2>7. \A m \in batch : Clean(m)' => InLine(m, seen)'
    BY <1>1, <2>1, <2>5 DEF Lined, Quiet
  <2> QED
    BY <2>2, <2>3, <2>4, <2>6, <2>7
<1> QED
  BY <1>6, <1>7, <1>8

(* A query of which everything in line was seen is over, and the next one *)
(* is asked, or none is left.                                              *)
LEMMA QueryOver ==
  ASSUME SelectCore, SelectCore', priority # "off", NextQuery, batch' = {},
         UNCHANGED <<priority, open, labels, gone, seen>>,
         \A n \in Issues : Live(n) /\ Rank(n) <= query => n \in seen,
         \A n \in seen : Queued(n) => Accounted(n)',
         \A m \in seen : Clean(m) => Rank(m) \in 1 .. query,
         \A m \in ToSet(selected') : InLine(m, seen)
  PROVE  WholeList' /\ Swept' /\ Lined' /\ QueueIsKept'
<1>1. /\ \A n : Queued(n)' = Queued(n) /\ Live(n)' = Live(n) /\ Clean(n)' = Clean(n)
      /\ \A n : Rank(n)' = Rank(n)
      /\ \A n, m : Ahead(n, m)' = Ahead(n, m)
      /\ \A q : Listed(q)' = Listed(q)
  BY SameLine
<1>2. /\ query \in 1 .. LastQuery /\ LastQuery \in Nat /\ pc' \in {"over", "list"}
      /\ pc' = "list" => query' = query + 1 /\ page' = 1
      /\ pc' = "over" => query = LastQuery
  BY NextQueryIs, LastQueryIs DEF SelectCore, CursorTyped
<1>3. \A m \in ToSet(selected') : m \in Issues /\ Clean(m)
  <2>1. selected' \in Seq(Issues)
    BY DEF SelectCore, WorkTyped
  <2>2. ToSet(selected') \subseteq Issues
    BY <2>1, LenProperties DEF ToSet
  <2> QED
    BY <1>1, <2>2 DEF SelectCore, Unwritten
<1>4. ASSUME NEW n \in Issues, Live(n)
      PROVE  /\ Rank(n) \in 1 .. LastQuery /\ n \in Listed(Rank(n))
             /\ Rank(n) <= query => Accounted(n)'
  <2>1. Queued(n) /\ RepoTyped
    BY <1>4 DEF Live, SelectCore
  <2> QED
    BY <1>4, <2>1, RankIs
<1>5. WholeList'
  BY DEF WholeList
<1>6. Swept'
  <2> SUFFICES ASSUME pc' = "list", NEW n \in Issues, Live(n)
               PROVE  /\ Rank(n) < query + 1 => n \in seen
                      /\ Rank(n) = query + 1 => ~(Placed(n, Listed(query + 1)) <= (1 - 1) * PerPage)
    BY <1>1, <1>2 DEF Swept, Selecting, Resolving
  <2>1. Rank(n) < query + 1 => n \in seen
    BY <1>2, <1>4
  <2>2. ASSUME Rank(n) = query + 1
        PROVE  Placed(n, Listed(query + 1)) \in Nat \ {0}
    <3>1. n \in Listed(query + 1) /\ query + 1 \in Nat
      BY <1>2, <1>4, <2>2
    <3>2. Listed(query + 1) \subseteq Nat /\ IsFiniteSet(Listed(query + 1))
      BY <3>1, NumbersAreFinite DEF SelectCore
    <3>3. /\ Cardinality(Listed(query + 1)) \in Nat
          /\ Placed(n, Listed(query + 1)) \in 1 .. Cardinality(Listed(query + 1))
      BY <3>1, <3>2, PlacesNumber
    <3> QED
      BY <3>3
  <2>3. (1 - 1) * PerPage = 0
    BY CapAssumption DEF PerPage
  <2> QED
    BY <2>1, <2>2, <2>3
<1>7. Lined'
  <2> SUFFICES ASSUME pc' = "list"
               PROVE  /\ \A n \in seen : Queued(n) => Accounted(n)'
                      /\ \A m \in seen : Clean(m) => Rank(m) \in 1 .. query + 1
                      /\ \A m \in ToSet(selected') : InLine(m, seen)
    BY <1>1, <1>2 DEF Lined, InLine, Selecting, Resolving
  <2>1. seen \subseteq Issues
    BY DEF SelectCore, CursorTyped
  <2>2. ASSUME NEW m \in seen, Clean(m)
        PROVE  Rank(m) \in 1 .. query + 1
    <3>1. Rank(m) \in 1 .. query /\ query \in Nat
      BY <1>2, <2>2
    <3> QED
      BY <3>1
  <2> QED
    BY <2>2
<1>8. QueueIsKept'
  <2>1. NoneJumpsTheQueue'
    <3> SUFFICES ASSUME pc' = "over", NEW m \in ToSet(selected'), NEW n \in Issues, Queued(n),
                        Ahead(n, m), ~Shifted(n)'
                 PROVE  Accounted(n)'
      BY <1>1 DEF NoneJumpsTheQueue
    <3>1. Live(n)
      BY <1>1 DEF Live
    <3>2. n \in seen
      BY <3>1 DEF InLine
    <3> QED
      BY <3>2
  <2>2. CapIsFilled'
    <3> SUFFICES ASSUME pc' = "over", NEW n \in Issues, Queued(n), ~Shifted(n)'
                 PROVE  Accounted(n)'
      BY <1>1 DEF CapIsFilled
    <3>1. Live(n)
      BY <1>1 DEF Live
    <3> QED
      BY <1>2, <1>4, <3>1
  <2> QED
    BY <2>1, <2>2 DEF QueueIsKept
<1> QED
  BY <1>5, <1>6, <1>7, <1>8

LEMMA FetchPageQueue ==
  ASSUME SelectCore, SelectCore', Swept, Lined, FetchPage
  PROVE  WholeList' /\ Swept' /\ Lined' /\ QueueIsKept'
<1> DEFINE items == Page(query, page)
<1>1. RepoTyped /\ CursorTyped
  BY DEF SelectCore
<1>2. /\ pc = "list" /\ priority # "off" /\ fetched' = Cardinality(items)
      /\ UNCHANGED <<priority, open, labels, gone, selected, skipped, out>>
  BY DEF FetchPage, github, chosen, counts
<1>3. /\ batch = {} /\ pc \in Selecting /\ query \in Nat /\ seen \subseteq Issues
      /\ (page - 1) * PerPage \in Int /\ page * PerPage \in Int
  BY <1>1, <1>2, LastQueryIs, CapAssumption
  DEF SelectCore, InTheMaking, CursorTyped, Resolving, Selecting, PerPage
<1>4. ASSUME NEW n \in Issues, Live(n)
      PROVE  /\ Rank(n) \in 1 .. LastQuery /\ n \in Listed(Rank(n)) /\ Fits(n, Rank(n))
             /\ Queued(n) /\ Matches(n) /\ Clean(n)
  <2>1. Queued(n)
    BY <1>4 DEF Live
  <2> QED
    BY <1>1, <2>1, RankIs DEF Queued, Clean
<1>5. ASSUME NEW n \in Issues, Live(n)
      PROVE  /\ Rank(n) < query => n \in seen
             /\ Rank(n) = query /\ Placed(n, Listed(query)) <= (page - 1) * PerPage => n \in seen
  BY <1>2, <1>3, <1>5 DEF Swept
<1>6. /\ \A n \in seen : Queued(n) => Accounted(n)
      /\ \A m \in seen : Clean(m) => Rank(m) \in 1 .. query
      /\ \A m \in ToSet(selected) : InLine(m, seen)
  BY <1>2, <1>3 DEF Lined, InLine
<1>7. /\ \A n \in Listed(query) : n \in items <=>
           /\ (page - 1) * PerPage < Placed(n, Listed(query))
           /\ Placed(n, Listed(query)) <= page * PerPage
      /\ Cardinality(items) < PerPage =>
           \A n \in Listed(query) : Placed(n, Listed(query)) <= page * PerPage
      /\ items = {} => \A n \in Listed(query) : Placed(n, Listed(query)) <= (page - 1) * PerPage
  BY <1>1, PageIs
<1>8. CASE items = {}
  <2>1. NextQuery /\ UNCHANGED <<seen, batch>>
    BY <1>8 DEF FetchPage
  <2>2. ASSUME NEW n \in Issues, Live(n), Rank(n) <= query
        PROVE  n \in seen
    <3>1. Rank(n) < query \/ Rank(n) = query
      BY <1>3, <1>4, <2>2
    <3> QED
      BY <1>4, <1>5, <1>7, <1>8, <2>2, <3>1
  <2>3. \A n \in seen : Queued(n) => Accounted(n)'
    BY <1>2, <1>6 DEF Accounted
  <2>4. \A m \in ToSet(selected') : InLine(m, seen)
    BY <1>2, <1>6
  <2> QED
    BY <1>2, <1>3, <1>6, <2>1, <2>2, <2>3, <2>4, QueryOver
<1>9. CASE items # {}
  <2>1. /\ pc' = "attempts" /\ UNCHANGED <<query, page>>
        /\ batch' = Eligible(Candidates(items)) /\ seen' = seen \cup Candidates(items)
    BY <1>9 DEF FetchPage
  <2>2. /\ \A n : Queued(n)' = Queued(n) /\ Live(n)' = Live(n) /\ Clean(n)' = Clean(n)
        /\ \A n : Rank(n)' = Rank(n)
        /\ \A n, m : Ahead(n, m)' = Ahead(n, m)
        /\ \A q : Listed(q)' = Listed(q)
    BY <1>2, SameLine
  <2>3. /\ Candidates(items) \subseteq Issues \ seen
        /\ batch' = {n \in Candidates(items) : Clean(n)}
    BY <2>1 DEF Candidates, Eligible, Clean
  <2>4. ASSUME NEW m \in Candidates(items)
        PROVE  Rank(m) \in 1 .. query /\ m \in Listed(query) /\ m \in items
    <3>1. m \in items /\ (Queries[query].tier = Unlabeled => IsUnlabeled(m))
      BY DEF Candidates
    <3>2. m \in Listed(query)
      BY <3>1 DEF Page, Window
    <3>3. Fits(m, query)
      BY <3>1, <3>2 DEF Listed, Fits
    <3>4. query \in DOMAIN Queries
      BY <1>1, LastQueryIs, QueriesAre DEF CursorTyped
    <3>5. Rank(m) \in DOMAIN Queries /\ Rank(m) <= query
      BY <3>3, <3>4, RankLeast
    <3>6. Rank(m) \in 1 .. query
      BY <1>3, <3>5, QueriesAre
    <3> QED
      BY <3>1, <3>2, <3>6
  <2> HIDE DEF items
  <2>5. ASSUME NEW n \in Issues, Live(n), Rank(n) = query,
               Placed(n, Listed(query)) <= page * PerPage
        PROVE  n \in seen'
    <3>1. n \in Listed(query) /\ Fits(n, query) /\ Matches(n)
      BY <1>4, <2>5
    <3>2. Placed(n, Listed(query)) \in Int
      <4>1. Listed(query) \subseteq Nat /\ IsFiniteSet(Listed(query))
        BY <1>1, <1>3, NumbersAreFinite
      <4>2. Cardinality(Listed(query)) \in Nat
            /\ Placed(n, Listed(query)) \in 1 .. Cardinality(Listed(query))
        BY <3>1, <4>1, PlacesNumber
      <4> QED
        BY <4>2
    <3>3. CASE Placed(n, Listed(query)) <= (page - 1) * PerPage
      BY <1>5, <2>1, <2>5, <3>3
    <3>4. CASE ~(Placed(n, Listed(query)) <= (page - 1) * PerPage)
      <4>1. n \in items
        BY <1>3, <1>7, <2>5, <3>1, <3>2, <3>4
      <4>2. n \in seen \cup Candidates(items)
        BY <3>1, <4>1 DEF Candidates, Fits
      <4> QED
        BY <2>1, <4>2
    <3> QED
      BY <3>3, <3>4
  <2>6. WholeList' /\ QueueIsKept'
    BY <1>2, <2>1 DEF WholeList, QueueIsKept, NoneJumpsTheQueue, CapIsFilled
  <2>7. Swept'
    <3> SUFFICES ASSUME NEW n \in Issues, Live(n)
                 PROVE  /\ Rank(n) < query => n \in seen'
                        /\ Rank(n) = query
                             /\ (Placed(n, Listed(query)) <= page * PerPage \/ fetched' < PerPage)
                             => n \in seen'
      BY <1>2, <2>1, <2>2 DEF Swept
    <3>1. Rank(n) < query => n \in seen'
      BY <1>5, <2>1
    <3>2. ASSUME Rank(n) = query, fetched' < PerPage
          PROVE  n \in seen'
      BY <1>2, <1>4, <1>7, <2>5, <3>2
    <3> QED
      BY <2>5, <3>1, <3>2
  <2>8. Lined'
    <3> SUFFICES /\ \A n \in seen' : Queued(n) => Accounted(n)' \/ n \in batch'
                 /\ \A m \in seen' : Clean(m) => Rank(m) \in 1 .. query
                 /\ \A n \in batch' : Live(n) => Rank(n) >= query
                 /\ \A m \in ToSet(selected) : InLine(m, seen' \ batch')
                 /\ \A m \in batch' : Clean(m) => InLine(m, seen')
      BY <1>2, <2>1, <2>2 DEF Lined, InLine
    <3>1. \A n \in seen' : Queued(n) => Accounted(n)' \/ n \in batch'
      BY <1>2, <1>6, <2>1, <2>3 DEF Accounted, Queued, Clean
    <3>2. \A m \in seen' : Clean(m) => Rank(m) \in 1 .. query
      BY <1>6, <2>1, <2>4
    <3>3. ASSUME NEW n \in batch', Live(n)
          PROVE  Rank(n) >= query
      <4>1. n \in Issues /\ n \notin seen
        BY <2>3
      <4>2. ~(Rank(n) < query) /\ Rank(n) \in 1 .. LastQuery
        BY <1>4, <1>5, <3>3, <4>1
      <4> QED
        BY <1>3, <4>2
    <3>4. \A m \in ToSet(selected) : InLine(m, seen' \ batch')
      BY <1>6, <2>1, <2>3 DEF InLine
    <3>5. ASSUME NEW m \in batch', NEW n \in Issues, Live(n), Ahead(n, m)
          PROVE  n \in seen'
      <4>1. /\ m \in Listed(query) /\ m \in items
            /\ Rank(m) \in 1 .. query /\ Rank(n) \in 1 .. LastQuery
        BY <1>4, <2>3, <2>4, <3>5
      <4>2. CASE Rank(n) < query
        BY <1>5, <2>1, <3>5, <4>2
      <4>3. CASE ~(Rank(n) < query)
        <5>1. Rank(n) = query /\ n < m
          BY <1>2, <1>3, <3>5, <4>1, <4>3 DEF Ahead
        <5>2. n \in Listed(query)
          BY <1>4, <3>5, <5>1
        <5>3. Listed(query) \subseteq Nat /\ IsFiniteSet(Listed(query))
          BY <1>1, <1>3, NumbersAreFinite
        <5>4. /\ Cardinality(Listed(query)) \in Nat
              /\ Placed(n, Listed(query)) \in 1 .. Cardinality(Listed(query))
              /\ Placed(m, Listed(query)) \in 1 .. Cardinality(Listed(query))
              /\ Placed(n, Listed(query)) < Placed(m, Listed(query))
          BY <4>1, <5>1, <5>2, <5>3, PlacesNumber
        <5>5. Placed(m, Listed(query)) <= page * PerPage
          BY <1>7, <4>1
        <5>6. Placed(n, Listed(query)) <= page * PerPage
          BY <1>3, <5>4, <5>5
        <5> QED
          BY <2>5, <3>5, <5>1, <5>6
      <4> QED
        BY <4>2, <4>3
    <3> QED
      BY <3>1, <3>2, <3>3, <3>4, <3>5 DEF InLine
  <2> QED
    BY <2>6, <2>7, <2>8
<1> QED
  BY <1>8, <1>9

LEMMA FillQueue ==
  ASSUME SelectCore, SelectCore', WholeList, Swept, Lined, Fill
  PROVE  WholeList' /\ Swept' /\ Lined' /\ QueueIsKept'
<1>1. RepoTyped /\ CursorTyped
  BY DEF SelectCore
<1>2. /\ pc = "comment" /\ todo = {} /\ batch' = {}
      /\ UNCHANGED <<priority, open, labels, gone, skipped, out, seen, fetched>>
  BY DEF Fill, github, counts
<1>3. PICK taken \in SUBSET kept :
        /\ ToSet(selected') = ToSet(selected) \cup taken
        /\ Len(selected') # Cap => taken = kept
        /\ \A n \in kept, m \in taken : n < m => n \in taken
  BY FillTakes
<1>4. /\ batch \subseteq skipped \cup out \cup kept
      /\ kept \subseteq batch /\ batch \subseteq Issues
      /\ \A m \in kept : Clean(m)
      /\ priority # "off" => batch \subseteq seen
      /\ priority = "off" => ToSet(selected) = {}
  BY <1>2, NothingChosen
  DEF SelectCore, Resolved, WorkTyped, Unwritten, Apart, InTheMaking, Triaging, Resolving, Selecting
<1>5. /\ \A n : Queued(n)' = Queued(n) /\ Live(n)' = Live(n) /\ Clean(n)' = Clean(n)
      /\ \A n : Rank(n)' = Rank(n)
      /\ \A n, m : Ahead(n, m)' = Ahead(n, m)
      /\ \A q : Listed(q)' = Listed(q)
  BY <1>2, SameLine
<1>6. \A n : n \in skipped \cup out \cup ToSet(selected) \cup taken => Accounted(n)'
  BY <1>2, <1>3 DEF Accounted
<1>7. CASE priority = "off"
  <2>1. pc' = "over"
    BY <1>7 DEF Fill
  <2>2. \A n \in Issues : Queued(n) => n \in batch
    BY <1>2, <1>7 DEF WholeList, Resolving
  <2>3. NoneJumpsTheQueue'
    <3> SUFFICES ASSUME NEW m \in taken, NEW n \in Issues, Queued(n), n < m
                 PROVE  Accounted(n)'
      BY <1>2, <1>3, <1>4, <1>5, <1>7 DEF NoneJumpsTheQueue, Ahead
    <3> QED
      BY <1>3, <1>4, <1>6, <2>2
  <2>4. CapIsFilled'
    <3> SUFFICES ASSUME Len(selected') # Cap, NEW n \in Issues, Queued(n)
                 PROVE  Accounted(n)'
      <4>1. Len(selected') < Cap => Len(selected') # Cap
        BY CapAssumption
      <4> QED
        BY <1>5, <4>1 DEF CapIsFilled
    <3> QED
      BY <1>3, <1>4, <1>6, <2>2
  <2> QED
    BY <1>2, <1>7, <2>1, <2>3, <2>4 DEF WholeList, Swept, Lined, QueueIsKept, Resolving
<1>8. CASE priority # "off"
  <2>1. pc \in Selecting /\ seen \subseteq Issues /\ query \in Nat
    BY <1>1, <1>2, LastQueryIs DEF Selecting, Resolving, CursorTyped
  <2>2. /\ \A n \in seen : Queued(n) => Accounted(n) \/ n \in batch
        /\ \A m \in seen : Clean(m) => Rank(m) \in 1 .. query
        /\ \A n \in batch : Live(n) => Rank(n) >= query
        /\ \A m \in ToSet(selected) : InLine(m, seen \ batch)
        /\ \A m \in batch : Clean(m) => InLine(m, seen)
    BY <1>8, <2>1 DEF Lined
  <2>3. ASSUME NEW n \in Issues, Live(n)
        PROVE  /\ Queued(n) /\ Rank(n) \in 1 .. LastQuery
               /\ Rank(n) < query => n \in seen
               /\ Rank(n) = query
                    /\ (Placed(n, Listed(query)) <= page * PerPage \/ fetched < PerPage)
                    => n \in seen
    <3>1. Queued(n)
      BY <2>3 DEF Live
    <3> QED
      BY <1>1, <1>2, <1>8, <2>1, <2>3, <3>1, RankIs DEF Swept
  <2>4. ASSUME NEW m \in ToSet(selected'), NEW n \in Issues, Live(n), Ahead(n, m)
        PROVE  n \in seen /\ Accounted(n)'
    <3>1. CASE m \in ToSet(selected)
      <4>1. n \in seen \ batch
        BY <2>2, <2>4, <3>1 DEF InLine
      <4>2. Accounted(n)
        BY <2>2, <2>3, <2>4, <4>1
      <4> QED
        BY <1>6, <4>1, <4>2 DEF Accounted
    <3>2. CASE m \in taken
      <4>1. m \in batch /\ m \in seen /\ Clean(m)
        BY <1>4, <1>8, <3>2
      <4>2. n \in seen
        BY <2>2, <2>4, <4>1 DEF InLine
      <4>3. CASE n \notin batch
        <5>1. Accounted(n)
          BY <2>2, <2>3, <2>4, <4>2, <4>3
        <5> QED
          BY <1>6, <4>2, <5>1 DEF Accounted
      <4>4. CASE n \in kept
        <5>1. Rank(n) >= query /\ Rank(n) \in 1 .. LastQuery /\ Rank(m) \in 1 .. query
          BY <1>4, <2>2, <2>3, <2>4, <4>1, <4>4
        <5>2. n < m
          BY <1>8, <2>1, <2>4, <5>1 DEF Ahead
        <5>3. n \in taken
          BY <1>3, <3>2, <4>4, <5>2
        <5> QED
          BY <1>6, <4>2, <5>3
      <4> QED
        BY <1>4, <1>6, <4>2, <4>3, <4>4
    <3> QED
      BY <1>3, <2>4, <3>1, <3>2
  <2>5. ASSUME Len(selected') # Cap, NEW n \in seen, Queued(n)
        PROVE  Accounted(n)'
    BY <1>3, <1>4, <1>6, <2>2, <2>5 DEF Accounted
  <2>6. CASE Len(selected') = Cap
    <3>1. pc' = "over"
      BY <2>6 DEF Fill
    <3>2. NoneJumpsTheQueue'
      BY <1>5, <2>4 DEF NoneJumpsTheQueue, Live
    <3>3. CapIsFilled'
      BY <2>6, CapAssumption DEF CapIsFilled
    <3> QED
      BY <1>2, <1>8, <3>1, <3>2, <3>3
      DEF WholeList, Swept, Lined, QueueIsKept, Resolving, Selecting
  <2>7. CASE Len(selected') # Cap /\ Drained
    <3>1. NextQuery
      BY <1>8, <2>7 DEF Fill
    <3>2. ASSUME NEW n \in Issues, Live(n), Rank(n) <= query
          PROVE  n \in seen
      <4>1. Rank(n) < query \/ Rank(n) = query
        BY <2>1, <2>3, <3>2
      <4> QED
        BY <2>3, <2>7, <3>2, <4>1 DEF Drained
    <3>3. \A m \in ToSet(selected') : InLine(m, seen)
      BY <2>4 DEF InLine
    <3> QED
      BY <1>2, <1>8, <2>2, <2>5, <2>7, <3>1, <3>2, <3>3, QueryOver
  <2>8. CASE Len(selected') # Cap /\ ~Drained
    <3>1. pc' = "list" /\ page' = page + 1 /\ UNCHANGED query
      BY <1>8, <2>8 DEF Fill, Turn
    <3>2. (page + 1) - 1 = page
      BY <1>1 DEF CursorTyped
    <3>3. WholeList' /\ QueueIsKept'
      BY <3>1 DEF WholeList, QueueIsKept, NoneJumpsTheQueue, CapIsFilled, Resolving
    <3>4. Swept'
      BY <1>2, <1>5, <2>3, <3>1, <3>2 DEF Swept
    <3>5. Lined'
      <4> SUFFICES /\ \A n \in seen : Queued(n) => Accounted(n)'
                   /\ \A m \in seen : Clean(m) => Rank(m) \in 1 .. query
                   /\ \A m \in ToSet(selected') : InLine(m, seen)
        BY <1>2, <1>5, <3>1 DEF Lined, InLine
      <4> QED
        BY <2>2, <2>4, <2>5, <2>8 DEF InLine
    <3> QED
      BY <3>3, <3>4, <3>5
  <2> QED
    BY <2>6, <2>7, <2>8
<1> QED
  BY <1>7, <1>8

LEMMA ListBranchesQueue ==
  ASSUME SelectCore, SelectCore', ListBranches
  PROVE  WholeList' /\ Swept' /\ Lined' /\ QueueIsKept'
<1>1. /\ query = 1 /\ page = 1 /\ seen = {} /\ selected = << >> /\ batch = {} /\ pc' = "list"
      /\ UNCHANGED <<priority, open, labels, gone, query, page, seen, batch, selected>>
  BY DEF SelectCore, InTheMaking, ListBranches, github, cursor, work, chosen, counts, Resolving
<1>2. /\ \A n : Live(n)' = Live(n) /\ Rank(n)' = Rank(n)
      /\ \A q : Listed(q)' = Listed(q)
  BY <1>1, SameLine
<1>3. ASSUME NEW n \in Issues, Live(n)
      PROVE  /\ ~(Rank(n) < 1)
             /\ Rank(n) = 1 => ~(Placed(n, Listed(1)) <= (1 - 1) * PerPage)
  <2>1. RepoTyped /\ Queued(n)
    BY <1>3 DEF SelectCore, Live
  <2>2. Rank(n) \in 1 .. LastQuery /\ n \in Listed(Rank(n)) /\ LastQuery \in Nat
    BY <2>1, RankIs, LastQueryIs
  <2>3. ASSUME Rank(n) = 1
        PROVE  Placed(n, Listed(1)) \in Nat \ {0}
    <3>1. Listed(1) \subseteq Nat /\ IsFiniteSet(Listed(1)) /\ n \in Listed(1)
      BY <2>1, <2>2, <2>3, NumbersAreFinite
    <3>2. /\ Cardinality(Listed(1)) \in Nat
          /\ Placed(n, Listed(1)) \in 1 .. Cardinality(Listed(1))
      BY <3>1, PlacesNumber
    <3> QED
      BY <3>2
  <2>4. (1 - 1) * PerPage = 0
    BY CapAssumption DEF PerPage
  <2> QED
    BY <2>2, <2>3, <2>4
<1>4. WholeList' /\ QueueIsKept'
  BY <1>1 DEF WholeList, QueueIsKept, NoneJumpsTheQueue, CapIsFilled, Resolving
<1>5. Swept'
  BY <1>1, <1>2, <1>3 DEF Swept
<1>6. Lined'
  BY <1>1, NothingChosen DEF Lined
<1> QED
  BY <1>4, <1>5, <1>6

LEMMA SelectIssuesQueue ==
  ASSUME SelectCore, SelectCore', SelectIssues
  PROVE  WholeList' /\ Swept' /\ Lined' /\ QueueIsKept'
<1>1. /\ pc' = "attempts" /\ priority = "off" /\ UNCHANGED <<priority, open, labels>>
      /\ batch' = {n \in open : Matches(n) /\ Triaged \notin labels[n]}
  BY DEF SelectIssues, Eligible, github
<1>2. WholeList'
  BY <1>1 DEF WholeList, Queued, Matches
<1> QED
  BY <1>1, <1>2 DEF Swept, Lined, QueueIsKept, NoneJumpsTheQueue, CapIsFilled

LEMMA ForgetQueue ==
  ASSUME pc' \in {"start", "cut"}
  PROVE  WholeList' /\ Swept' /\ Lined' /\ QueueIsKept'
BY DEF WholeList, Swept, Lined, QueueIsKept, NoneJumpsTheQueue, CapIsFilled, Selecting, Resolving

(* The steps between two looks at the list are quiet. *)
LEMMA QuietSteps ==
  ASSUME SelectCore, SelectNext,
         ~(ListBranches \/ SelectIssues \/ FetchPage \/ Fill \/ Throws \/ Killed \/ NextNight)
  PROVE  Quiet /\ pc' # "over"
<1>1. CASE Attempts
  BY <1>1 DEF Attempts, Quiet, github, cursor, Resolving
<1>2. CASE ReadTip
  BY <1>2 DEF ReadTip, Quiet, github, cursor, Resolving
<1>3. CASE DeleteRemoteBranch
  BY <1>3 DEF DeleteRemoteBranch, Quiet, cursor, chosen, counts, Resolving
<1>4. CASE Signals
  BY <1>4 DEF Signals, Quiet, github, cursor, chosen, counts, Resolving
<1>5. CASE Comment
  BY <1>5 DEF Comment, Quiet, cursor, Resolving
<1>6. CASE Label
  <2>1. \A n \in Issues \cup Pulls :
          labels'[n] = labels[n] \/ (labels[n] \subseteq labels'[n] /\ Triaged \in labels'[n])
    BY <1>6 DEF Label, SelectCore, RepoTyped
  <2> QED
    BY <1>6, <2>1 DEF Label, Quiet, cursor, Resolving
<1>7. ASSUME NEW n \in Issues, Close(n) \/ Push(n) \/ RemoveBranch(n) \/ OpenPr(n)
      PROVE  Quiet /\ pc' # "over"
  BY <1>7 DEF Close, Push, RemoveBranch, OpenPr, Acts, Running, Quiet, cursor, work, chosen
<1> QED
  BY <1>1, <1>2, <1>3, <1>4, <1>5, <1>6, <1>7 DEF SelectNext, Step

LEMMA InitSelectInd == SelectInit => SelectInd
<1> SUFFICES ASSUME SelectInit
             PROVE  SelectInd
  OBVIOUS
<1>1. PICK lot \in [Issues -> Lots] :
        /\ labels = [n \in Issues \cup Pulls |->
                       IF n \in Issues THEN lot[n].labels ELSE {Pickups[1]}]
        /\ tip = [n \in Issues |-> lot[n].tip]
        /\ hasPr = {n \in Issues : lot[n].pr}
        /\ signal = [n \in Issues |-> lot[n].signal]
  BY DEF SelectInit
<1>2. Pickups[1] \in STRING
  <2>1. Pickups \in Seq(STRING) /\ 1 \in 1 .. Len(Pickups)
    BY RuleAssumption, TiersAre
  <2> QED
    BY <2>1, LenProperties
<1>3. RepoTyped
  <2>1. labels \in [Issues \cup Pulls -> SUBSET LabelNames]
    BY <1>1, <1>2, LotsAssumption DEF LabelNames
  <2>2. tip \in [Issues -> {"none", "fixowl", "human"}] /\ signal \in [Issues -> {"none", "fixed"}]
    BY <1>1, LotsAssumption
  <2> QED
    BY <1>1, <2>1, <2>2, NightsAssumption DEF SelectInit, RepoTyped
<1>4. LastQuery \in Nat \ {0} /\ Cap \in Nat \ {0}
  BY <1>3, LastQueryIs, CapAssumption
<1>5. CursorTyped /\ WorkTyped /\ InTheMaking
  BY <1>4, NothingChosen DEF SelectInit, FreshNight, CursorTyped, WorkTyped, InTheMaking, PerPage,
     Selecting, Resolving, Triaging
<1>6. Apart /\ Resolved /\ Unwritten /\ OrphansRaced
  BY NothingChosen DEF SelectInit, FreshNight, Apart, Resolved, Unwritten, OrphansRaced,
     Resolving, Triaging
<1>7. CommentsPaid
  BY DEF SelectInit, FreshNight, CommentsPaid
<1>8. WholeList /\ Swept /\ Lined /\ QueueIsKept
  BY DEF SelectInit, FreshNight, WholeList, Swept, Lined, QueueIsKept, NoneJumpsTheQueue,
     CapIsFilled, Selecting, Resolving
<1> QED
  BY <1>3, <1>5, <1>6, <1>7, <1>8 DEF SelectInd, SelectCore

LEMMA NextSelectInd == SelectInd /\ [SelectNext]_selectVars => SelectInd'
<1> SUFFICES ASSUME SelectInd, [SelectNext]_selectVars
             PROVE  SelectInd'
  OBVIOUS
<1>1. SelectCore /\ SelectCore' /\ WholeList /\ Swept /\ Lined
  BY NextCore DEF SelectInd
<1> SUFFICES WholeList' /\ Swept' /\ Lined' /\ QueueIsKept'
  BY <1>1 DEF SelectInd
<1>2. CASE ListBranches
  BY <1>1, <1>2, ListBranchesQueue
<1>3. CASE SelectIssues
  BY <1>1, <1>3, SelectIssuesQueue
<1>4. CASE FetchPage
  BY <1>1, <1>4, FetchPageQueue
<1>5. CASE Fill
  BY <1>1, <1>5, FillQueue
<1>6. CASE Throws \/ Killed \/ NextNight
  BY <1>6, ForgetQueue DEF Throws, Killed, NextNight
<1>7. CASE SelectNext /\ ~(ListBranches \/ SelectIssues \/ FetchPage \/ Fill \/ Throws \/ Killed
                             \/ NextNight)
  <2>1. Quiet /\ pc' # "over"
    BY <1>1, <1>7, QuietSteps
  <2>2. QueueIsKept'
    BY <2>1 DEF QueueIsKept, NoneJumpsTheQueue, CapIsFilled
  <2> QED
    BY <1>1, <2>1, <2>2, QuietKeeps
<1>8. CASE UNCHANGED selectVars
  <2>1. /\ UNCHANGED <<priority, open, labels, gone, pc, query, page, fetched, seen, batch>>
        /\ UNCHANGED <<selected, skipped, out>>
    BY <1>8 DEF selectVars, github, cursor, work, chosen, counts
  <2>2. Quiet
    BY <2>1 DEF Quiet
  <2>3. /\ \A n : Queued(n)' = Queued(n)
        /\ \A n, m : Ahead(n, m)' = Ahead(n, m)
    BY <2>1, SameLine
  <2>4. QueueIsKept'
    BY <2>1, <2>3 DEF SelectInd, QueueIsKept, NoneJumpsTheQueue, CapIsFilled, Accounted, Shifted
  <2> QED
    BY <1>1, <2>2, <2>4, QuietKeeps
<1> QED
  BY <1>2, <1>3, <1>4, <1>5, <1>6, <1>7, <1>8

LEMMA SelectInvariant == SelectSpec => []SelectInd
<1> QED
  BY InitSelectInd, NextSelectInd, PTL DEF SelectSpec

-----------------------------------------------------------------------------
(* The theorems. *)

(* The types of the selection, and with them that no issue is chosen       *)
(* twice, or both chosen and skipped or triaged, and that the cap holds.   *)
THEOREM SelectTyped == SelectSpec => []SelectTypeOK
<1>1. SelectInd => SelectTypeOK
  <2> SUFFICES ASSUME SelectInd
               PROVE  SelectTypeOK
    OBVIOUS
  <2>1. IsInjective(selected)
    <3>1. DOMAIN selected = 1 .. Len(selected) /\ Different(selected)
      BY LenProperties DEF SelectInd, SelectCore, WorkTyped
    <3> QED
      BY <3>1 DEF IsInjective, Different
  <2> QED
    BY <2>1 DEF SelectInd, SelectCore, RepoTyped, CursorTyped, WorkTyped, Apart, SelectTypeOK,
       Selecting, Resolving
<1> QED
  BY <1>1, SelectInvariant, PTL

(* The slots of a night go to the head of the line, on the default path    *)
(* and over every page of every tier and pickup label of the priority      *)
(* path, whatever is skipped, triaged, closed or fails meanwhile.          *)
THEOREM QueueKept == SelectSpec => []QueueIsKept
<1>1. SelectInd => QueueIsKept
  BY DEF SelectInd
<1> QED
  BY <1>1, SelectInvariant, PTL

(* Over all nights an issue gets no second triage comment unless a failed  *)
(* call or a killed night left the first without its label.                *)
THEOREM CommentsOnce == SelectSpec => []CommentedOnce
<1>1. SelectInd => CommentedOnce
  <2> SUFFICES ASSUME SelectInd, NEW n \in Issues
               PROVE  comments[n] <= 1 + lost[n]
    BY DEF CommentedOnce
  <2>1. /\ comments[n] \in Nat /\ lost[n] \in Nat
        /\ comments[n] <= lost[n] + (IF Triaged \in labels[n] THEN 1 ELSE 0)
                                  + (IF pc = "label" /\ n = Least(todo) THEN 1 ELSE 0)
    BY DEF SelectInd, SelectCore, RepoTyped, CommentsPaid
  <2>2. pc = "label" /\ n = Least(todo) => Triaged \notin labels[n]
    <3>1. todo # {} => Least(todo) \in todo
      BY NumbersAssumption, LeastIs DEF SelectInd, SelectCore, WorkTyped
    <3> QED
      BY <3>1 DEF SelectInd, SelectCore, InTheMaking, Unwritten, Clean
  <2> QED
    BY <2>1, <2>2
<1> QED
  BY <1>1, SelectInvariant, PTL

(* A reset deletes only fixowl's commits on a branch without a pull        *)
(* request, unless a person was there after the night looked.              *)
THEOREM OrphansOnly == SelectSpec => ResetsOnlyOrphans
<1> DEFINE Right == \A n \in Issues :
             pc = "delete" /\ writes' = writes /\ tip[n] # "none" /\ tip'[n] = "none" =>
               n \in raced \/ (tip[n] = "fixowl" /\ n \notin hasPr)
<1>1. SelectInd /\ [SelectNext]_selectVars => [Right]_selectVars
  <2> SUFFICES ASSUME SelectInd, SelectNext, NEW n \in Issues, pc = "delete", writes' = writes,
                      tip[n] # "none", tip'[n] = "none"
               PROVE  n \in raced \/ (tip[n] = "fixowl" /\ n \notin hasPr)
    OBVIOUS
  <2>1. /\ tip \in [Issues -> {"none", "fixowl", "human"}] /\ writes \in Nat
        /\ todo # {} /\ todo \subseteq Issues
    BY DEF SelectInd, SelectCore, RepoTyped, WorkTyped, InTheMaking
  <2>2. ~UNCHANGED tip
    OBVIOUS
  <2>3. \A m \in Issues : ~Close(m) /\ ~Push(m) /\ ~RemoveBranch(m) /\ ~OpenPr(m)
    BY <2>1 DEF Close, Push, RemoveBranch, OpenPr, Acts
  <2>4. DeleteRemoteBranch
    BY <2>2, <2>3 DEF SelectNext, Step, ListBranches, SelectIssues, FetchPage, Attempts, ReadTip,
       Signals, Comment, Label, Fill, Throws, Killed, NextNight, github
  <2>5. n = Least(todo) /\ n \in todo
    BY <2>1, <2>4, NumbersAssumption, LeastIs DEF DeleteRemoteBranch
  <2> QED
    BY <2>1, <2>5 DEF SelectInd, SelectCore, OrphansRaced
<1> QED
  BY <1>1, SelectInvariant, PTL DEF SelectSpec, ResetsOnlyOrphans
=============================================================================
