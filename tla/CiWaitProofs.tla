---------------------------- MODULE CiWaitProofs ----------------------------
(***************************************************************************)
(* Proofs about CiWait, for all sets of names, timeouts, error limits,     *)
(* faults and delays.                                                      *)
(***************************************************************************)
EXTENDS CiWait, TLAPS, SequenceTheorems

ReadKinds == {"ok", "error", "forbidden"}

Results == [outcome  : {"none", "green", "failed", "stalled", "unverified", "thrown"},
            timedOut : BOOLEAN, failed : SUBSET Contexts]

-----------------------------------------------------------------------------
(* The history of reads.                                                   *)

LEMMA SubSeqIs ==
  ASSUME NEW S, NEW s, NEW m \in Int, NEW n \in Int, m <= n, \A i \in m .. n : s[i] \in S
  PROVE  /\ SubSeq(s, m, n) \in Seq(S)
         /\ Len(SubSeq(s, m, n)) = n - m + 1
         /\ \A i \in 1 .. n - m + 1 : SubSeq(s, m, n)[i] = s[m + i - 1]
BY SubSeqProperties

(* A read is remembered as the last one; of the others the oldest is       *)
(* forgotten once there are MaxErrors.                                     *)
LEMMA RememberedIs ==
  ASSUME reads \in Seq(ReadKinds), Len(reads) <= MaxErrors, NEW read \in ReadKinds
  PROVE  LET dropped == IF Len(reads) = MaxErrors THEN 1 ELSE 0
         IN  /\ Remembered(read) \in Seq(ReadKinds)
             /\ Len(Remembered(read)) = Len(reads) + 1 - dropped
             /\ Len(Remembered(read)) \in 1 .. MaxErrors
             /\ \A i \in 1 .. Len(reads) - dropped : Remembered(read)[i] = reads[i + dropped]
             /\ Remembered(read)[Len(Remembered(read))] = read
<1> DEFINE all     == Append(reads, read)
           first   == IF Len(all) > MaxErrors THEN 2 ELSE 1
<1>1. MaxErrors \in Nat \ {0} /\ Len(reads) \in Nat
  BY TimesAssumption, LenProperties
<1>2. /\ all \in Seq(ReadKinds) /\ Len(all) = Len(reads) + 1
      /\ \A i \in 1 .. Len(reads) : all[i] = reads[i]
      /\ all[Len(reads) + 1] = read
  BY AppendProperties
<1>3. /\ Len(all) \in Nat /\ first \in Nat /\ first <= Len(all)
      /\ first = IF Len(reads) = MaxErrors THEN 2 ELSE 1
  BY <1>1, <1>2
<1>4. \A i \in first .. Len(all) : all[i] \in ReadKinds
  BY <1>2, <1>3, ElementOfSeq
<1>5. Remembered(read) = SubSeq(all, first, Len(all))
  BY DEF Remembered
<1> HIDE DEF all, first
<1>6. /\ Remembered(read) \in Seq(ReadKinds)
      /\ Len(Remembered(read)) = Len(all) - first + 1
      /\ \A i \in 1 .. Len(all) - first + 1 : Remembered(read)[i] = all[first + i - 1]
  <2> SUFFICES ASSUME NEW n \in Int, n = Len(all), NEW m \in Int, m = first
               PROVE  /\ Remembered(read) \in Seq(ReadKinds)
                      /\ Len(Remembered(read)) = n - m + 1
                      /\ \A i \in 1 .. n - m + 1 : Remembered(read)[i] = all[m + i - 1]
    BY <1>3
  <2>1. Remembered(read) = SubSeq(all, m, n)
    BY <1>5
  <2>2. m <= n /\ \A i \in m .. n : all[i] \in ReadKinds
    BY <1>3, <1>4
  <2> QED
    BY <2>1, <2>2, SubSeqIs
<1> QED
  BY <1>1, <1>2, <1>3, <1>6

-----------------------------------------------------------------------------
(* What the loop makes of a read that answered.                            *)

LEMMA SettleTimeIs == SettleTime \in Nat /\ SettleTime <= Timeout /\ Timeout \in Nat \ {0}
BY TimesAssumption DEF SettleTime

LEMMA MergedTyped ==
  ASSUME NEW r \in [Contexts -> States], NEW s \in [Contexts -> States]
  PROVE  Merged(r, s) \in [Contexts -> States]
BY DEF Merged

LEMMA ResultTyped ==
  ASSUME NEW outcome \in {"none", "green", "failed", "stalled", "unverified", "thrown"},
         NEW timedOut \in BOOLEAN, NEW failed \in SUBSET Contexts
  PROVE  [outcome |-> outcome, timedOut |-> timedOut, failed |-> failed] \in Results
BY DEF Results

LEMMA NoChecksTyped == NoChecks \in [Contexts -> States]
BY DEF NoChecks, States

(* A check that the gate waits for runs.                                   *)
Runs(checks) == \E c \in Contexts : checks[c] = "running" /\ (required = {} \/ c \in required)

(* The gate is open because a check of its is running or missing.          *)
LEMMA UnsettledIs ==
  ASSUME NEW checks \in [Contexts -> States], required \in SUBSET Contexts,
         ~Settled(checks), ~Stalled(checks)
  PROVE  Runs(checks)
BY DEF Settled, Stalled, Runs, Gating, Present, Completed, States

(* Judge has five answers, and each has its reason.                        *)
LEMMA JudgeIs ==
  ASSUME NEW checks \in [Contexts -> States], required \in SUBSET Contexts, now \in Nat,
         Judge(checks)
  PROVE  \/ /\ Return("green", FALSE, Failing(checks))
            /\ Settled(checks) /\ Failing(checks) = {} /\ ~MayBeLate(checks)
         \/ /\ Return("failed", FALSE, Failing(checks))
            /\ Settled(checks) /\ Failing(checks) # {}
         \/ /\ Return("stalled", FALSE, Failing(checks))
            /\ ~Settled(checks) /\ Stalled(checks)
         \/ /\ Return("failed", TRUE, Failing(checks))
            /\ now >= Timeout /\ Runs(checks)
         \/ /\ Sleep
            /\ now < Timeout /\ (now >= SettleTime => Runs(checks))
<1>1. CASE Settled(checks) /\ Failing(checks) = {}
  <2>1. Decision(checks) = "green"
    BY <1>1 DEF Decision
  <2>2. CASE ~MayBeLate(checks)
    BY <1>1, <2>1, <2>2 DEF Judge
  <2>3. CASE MayBeLate(checks)
    <3>1. /\ now < Timeout /\ ~(now >= Timeout)
          /\ ~(now >= SettleTime)
      BY <2>3, SettleTimeIs DEF MayBeLate
    <3>2. Sleep
      BY <2>1, <2>3, <3>1 DEF Judge
    <3> QED
      BY <3>1, <3>2
  <2> QED
    BY <2>2, <2>3
<1>2. CASE Settled(checks) /\ Failing(checks) # {}
  <2>1. Decision(checks) = "failed"
    BY <1>2 DEF Decision
  <2>2. ~MayBeLate(checks)
    BY <1>2 DEF MayBeLate, Failing
  <2> QED
    BY <1>2, <2>1, <2>2 DEF Judge
<1>3. CASE ~Settled(checks)
  <2>1. Decision(checks) = "pending"
    BY <1>3 DEF Decision
  <2>2. CASE Stalled(checks) /\ now >= SettleTime
    BY <1>3, <2>1, <2>2 DEF Judge
  <2>3. CASE ~(Stalled(checks) /\ now >= SettleTime)
    <3>1. now >= SettleTime => Runs(checks)
      BY <1>3, <2>3, UnsettledIs
    <3>2. CASE now >= Timeout
      <4>1. now >= SettleTime
        BY <3>2, SettleTimeIs
      <4>2. Return("failed", TRUE, Failing(checks))
        BY <2>1, <2>3, <3>2 DEF Judge
      <4> QED
        BY <3>1, <3>2, <4>1, <4>2
    <3>3. CASE ~(now >= Timeout)
      <4>1. now < Timeout
        BY <3>3, SettleTimeIs
      <4>2. Sleep
        BY <2>1, <2>3, <3>3 DEF Judge
      <4> QED
        BY <3>1, <4>1, <4>2
    <3> QED
      BY <3>2, <3>3
  <2> QED
    BY <2>2, <2>3
<1> QED
  BY <1>1, <1>2, <1>3

-----------------------------------------------------------------------------
(* The inductive invariant.                                                *)

(* The latest reads failed: as many of them as there are consecutive       *)
(* errors.                                                                 *)
ErrorRow ==
  /\ errors <= Len(reads)
  /\ \A i \in 1 .. Len(reads) : i > Len(reads) - errors => reads[i] = "error"

(* The wait is undecided until it is done; it goes to sleep only with time *)
(* left, and goes on only with errors left.                                *)
Undecided ==
  /\ pc # "done" => result = NoResult /\ errors < MaxErrors
  /\ pc = "done" => result.outcome # "none"
  /\ pc = "sleep" => now < Timeout

WaitInd == TypeOK /\ Undecided /\ ErrorRow

LEMMA InitWaitInd == Init => WaitInd
<1> SUFFICES ASSUME Init
             PROVE  WaitInd
  OBVIOUS
<1>1. << >> \in Seq(ReadKinds) /\ Len(<< >>) = 0
  BY EmptySeq
<1>2. TypeOK
  BY <1>1, NoChecksTyped, TimesAssumption DEF Init, TypeOK, NoResult, ReadKinds
<1> QED
  BY <1>1, <1>2, TimesAssumption DEF Init, WaitInd, Undecided, ErrorRow

LEMMA NextWaitInd == WaitInd /\ [Next]_vars => WaitInd'
<1> SUFFICES ASSUME WaitInd, [Next]_vars
             PROVE  WaitInd'
  OBVIOUS
<1> USE DEF WaitInd, github, history
<1>0. /\ TypeOK /\ Undecided /\ ErrorRow
      /\ reads \in Seq(ReadKinds) /\ Len(reads) \in Nat /\ Len(reads) <= MaxErrors
      /\ MaxErrors \in Nat \ {0} /\ MaxDelay \in Nat /\ Timeout \in Nat \ {0}
      /\ errors \in Nat
  BY TimesAssumption, LenProperties DEF TypeOK, ReadKinds
<1>1. CASE ReadThrows
  <2>1. /\ Remembered("error") \in Seq(ReadKinds)
        /\ Len(Remembered("error")) \in 1 .. MaxErrors
    BY <1>0, RememberedIs DEF ReadKinds
  <2>2. /\ pc = "runs" /\ result = NoResult /\ errors < MaxErrors
        /\ reads' = Remembered("error") /\ errors' = errors + 1 /\ steady' \in BOOLEAN
        /\ UNCHANGED <<now, runsRead, required, runs, statuses, seen>>
    BY <1>0, <1>1 DEF ReadThrows, Undecided
  <2>3. \/ /\ pc' = "done"
           /\ result' = [outcome |-> "thrown", timedOut |-> FALSE, failed |-> {}]
        \/ pc' = "sleep" /\ result' = result /\ errors + 1 < MaxErrors /\ now < Timeout
    BY <1>0, <1>1, <2>2 DEF ReadThrows, Return, Sleep, TypeOK
  <2>4. TypeOK'
    <3>1. [outcome |-> "thrown", timedOut |-> FALSE, failed |-> {}] \in Results
      BY ResultTyped
    <3>2. result' \in Results
      BY <1>0, <2>3, <3>1 DEF TypeOK, Results
    <3> QED
      BY <1>0, <2>1, <2>2, <2>3, <3>2 DEF TypeOK, ReadKinds, Results
  <2>5. Undecided'
    BY <1>0, <2>2, <2>3 DEF Undecided
  <2>6. ErrorRow'
    <3> DEFINE dropped == IF Len(reads) = MaxErrors THEN 1 ELSE 0
    <3>1. /\ Len(reads') = Len(reads) + 1 - dropped /\ dropped \in {0, 1}
          /\ \A i \in 1 .. Len(reads) - dropped : reads'[i] = reads[i + dropped]
          /\ reads'[Len(reads')] = "error"
      BY <1>0, <2>2, RememberedIs DEF ReadKinds
    <3>2. errors' <= Len(reads')
      BY <1>0, <2>2, <3>1 DEF ErrorRow
    <3>3. ASSUME NEW i \in 1 .. Len(reads'), i > Len(reads') - errors'
          PROVE  reads'[i] = "error"
      <4>1. CASE i = Len(reads')
        BY <3>1, <4>1
      <4>2. CASE i # Len(reads')
        <5> HIDE DEF dropped
        <5>1. i \in 1 .. Len(reads) - dropped /\ i + dropped \in 1 .. Len(reads)
          BY <1>0, <3>1, <3>3, <4>2
        <5>2. i + dropped > Len(reads) - errors
          BY <1>0, <2>2, <3>1, <3>3, <4>2
        <5> QED
          BY <1>0, <3>1, <5>1, <5>2 DEF ErrorRow
      <4> QED
        BY <4>1, <4>2
    <3> QED
      BY <3>2, <3>3 DEF ErrorRow
  <2> QED
    BY <2>4, <2>5, <2>6
<1>2. CASE ReadForbidden
  <2>1. /\ Remembered("forbidden") \in Seq(ReadKinds)
        /\ Len(Remembered("forbidden")) \in 1 .. MaxErrors
    BY <1>0, RememberedIs DEF ReadKinds
  <2>2. /\ pc = "runs" /\ result = NoResult
        /\ reads' = Remembered("forbidden") /\ errors' = 0 /\ steady' \in BOOLEAN
        /\ UNCHANGED <<now, runsRead, required, runs, statuses, seen>>
    BY <1>0, <1>2 DEF ReadForbidden, Undecided
  <2>3. \/ /\ pc' = "done"
           /\ result' = [outcome |-> "unverified", timedOut |-> FALSE, failed |-> {}]
        \/ pc' = "sleep" /\ result' = result /\ now < Timeout
    BY <1>0, <1>2, SettleTimeIs DEF ReadForbidden, Return, Sleep, TypeOK
  <2>4. TypeOK'
    <3>1. [outcome |-> "unverified", timedOut |-> FALSE, failed |-> {}] \in Results
      BY ResultTyped
    <3>2. result' \in Results
      BY <1>0, <2>3, <3>1 DEF TypeOK, Results
    <3> QED
      BY <1>0, <2>1, <2>2, <2>3, <3>2 DEF TypeOK, ReadKinds, Results
  <2>5. Undecided'
    BY <1>0, <2>2, <2>3 DEF Undecided
  <2>6. ErrorRow'
    BY <1>0, <2>1, <2>2 DEF ErrorRow
  <2> QED
    BY <2>4, <2>5, <2>6
<1>3. CASE ReadRuns
  BY <1>0, <1>3 DEF ReadRuns, TypeOK, Undecided, ErrorRow
<1>4. CASE ReadStatuses
  <2>1. /\ Remembered("ok") \in Seq(ReadKinds)
        /\ Len(Remembered("ok")) \in 1 .. MaxErrors
    BY <1>0, RememberedIs DEF ReadKinds
  <2>2. /\ pc = "statuses" /\ reads' = Remembered("ok") /\ errors' = 0 /\ now' = now
        /\ required' = required /\ runs' = runs /\ statuses' = statuses
        /\ runsRead' = NoChecks /\ steady' \in BOOLEAN /\ seen' \in [Contexts -> States]
    BY <1>0, <1>4, MergedTyped, NoChecksTyped DEF ReadStatuses, TypeOK
  <2>3. Judge(seen') /\ now \in Nat /\ required \in SUBSET Contexts /\ pc = "statuses"
    BY <1>0, <1>4 DEF ReadStatuses, TypeOK
  <2>4. \/ /\ pc' = "done"
           /\ \E o \in {"green", "failed", "stalled"}, t \in BOOLEAN :
                result' = [outcome |-> o, timedOut |-> t, failed |-> Failing(seen')]
        \/ pc' = "sleep" /\ result' = result /\ now < Timeout
    BY <2>2, <2>3, JudgeIs DEF Return, Sleep
  <2>5. Failing(seen') \in SUBSET Contexts
    BY <2>3 DEF Failing, Gating, Present
  <2>6. TypeOK'
    BY <1>0, <2>1, <2>2, <2>4, <2>5, NoChecksTyped DEF TypeOK, ReadKinds
  <2>7. Undecided'
    BY <1>0, <2>2, <2>4 DEF Undecided
  <2>8. ErrorRow'
    BY <1>0, <2>1, <2>2 DEF ErrorRow
  <2> QED
    BY <2>6, <2>7, <2>8
<1>5. CASE Wake
  BY <1>0, <1>5 DEF Wake, TypeOK, Undecided, ErrorRow
<1>6. CASE RunMoves
  <2>1. runs' \in [Contexts -> States]
    BY <1>0, <1>6 DEF RunMoves, TypeOK, Moves, States
  <2> QED
    BY <1>0, <1>6, <2>1 DEF RunMoves, waiting, TypeOK, Undecided, ErrorRow
<1>7. CASE StatusMoves
  <2>1. statuses' \in [Contexts -> States]
    BY <1>0, <1>7 DEF StatusMoves, TypeOK, Moves, States
  <2> QED
    BY <1>0, <1>7, <2>1 DEF StatusMoves, waiting, TypeOK, Undecided, ErrorRow
<1>8. CASE UNCHANGED vars
  BY <1>0, <1>8 DEF vars, waiting, TypeOK, Undecided, ErrorRow
<1> QED
  BY <1>1, <1>2, <1>3, <1>4, <1>5, <1>6, <1>7, <1>8 DEF Next, Wait

LEMMA WaitInvariant == Spec => []WaitInd
<1> QED
  BY InitWaitInd, NextWaitInd, PTL DEF Spec

(* The wait's state keeps its types; its clock never passes the timeout by *)
(* more than one sleep that wakes late, however its reads fail.            *)
THEOREM WaitTyped == Spec => []TypeOK
<1>1. WaitInd => TypeOK
  BY DEF WaitInd
<1> QED
  BY <1>1, WaitInvariant, PTL

-----------------------------------------------------------------------------
(* Verdicts that are earned.                                               *)

(* The latest read is the one just remembered.                             *)
LEMMA LastReadIs ==
  ASSUME WaitInd, NEW read \in ReadKinds, reads' = Remembered(read)
  PROVE  LastRead' = read
<1>1. /\ reads' \in Seq(ReadKinds) /\ Len(reads') >= 1
      /\ reads'[Len(reads')] = read
  BY RememberedIs DEF WaitInd, TypeOK, ReadKinds
<1>2. reads' # << >>
  BY <1>1, EmptySeq
<1> QED
  BY <1>1, <1>2 DEF LastRead, Last

(* A gate that settled with nothing failed has only passed checks.         *)
LEMMA GreenIs ==
  ASSUME NEW checks \in [Contexts -> States], required \in SUBSET Contexts, now \in Nat,
         Settled(checks), Failing(checks) = {}, ~MayBeLate(checks)
  PROVE  /\ \A c \in required : checks[c] = "passed"
         /\ required = {} => /\ \A c \in Contexts : checks[c] \in {"absent", "passed"}
                             /\ checks = NoChecks => now >= SettleTime
<1>1. ASSUME NEW c \in required
      PROVE  checks[c] = "passed"
  BY <1>1 DEF Settled, Failing, Gating, Present, Completed
<1>2. ASSUME required = {}, NEW c \in Contexts
      PROVE  checks[c] \in {"absent", "passed"}
  BY <1>2 DEF Settled, Failing, Gating, Present, Completed
<1>3. ASSUME required = {}, checks = NoChecks
      PROVE  now >= SettleTime
  <2>1. Gating(checks) = {}
    BY <1>3 DEF Gating, Present, NoChecks
  <2>2. ~(now < SettleTime)
    BY <1>3, <2>1 DEF MayBeLate
  <2> QED
    BY <2>2, SettleTimeIs
<1> QED
  BY <1>1, <1>2, <1>3

LEMMA NextVerdict == WaitInd /\ VerdictIsEarned /\ [Next]_vars => VerdictIsEarned'
<1> SUFFICES ASSUME WaitInd, VerdictIsEarned, [Next]_vars
             PROVE  VerdictIsEarned'
  OBVIOUS
<1>0. /\ TypeOK /\ Undecided /\ MaxErrors \in Nat /\ Timeout \in Nat
      /\ required \in SUBSET Contexts /\ now \in Nat /\ errors \in Nat
      /\ GreenIsEarned /\ RedIsActionable /\ ThrowIsEarned /\ WaitsForSomething
  BY TimesAssumption DEF WaitInd, TypeOK, VerdictIsEarned
<1> USE DEF VerdictIsEarned
<1>1. CASE ReadThrows
  <2>1. pc = "runs" /\ result.outcome = "none" /\ reads' = Remembered("error")
        /\ errors' = errors + 1 /\ now' = now
    BY <1>0, <1>1 DEF ReadThrows, Undecided, NoResult
  <2>2. \/ /\ pc' = "done" /\ result'.outcome = "thrown"
           /\ errors + 1 >= MaxErrors \/ now >= Timeout
        \/ pc' = "sleep" /\ result' = result
    BY <1>1, <2>1 DEF ReadThrows, Return, Sleep
  <2>3. LastRead' = "error"
    BY <2>1, LastReadIs DEF ReadKinds
  <2>4. ASSUME errors + 1 >= MaxErrors
        PROVE  Len(reads') = MaxErrors /\ \A i \in DOMAIN reads' : reads'[i] = "error"
    <3>1. WaitInd'
      BY NextWaitInd
    <3>2. reads' \in Seq(ReadKinds) /\ Len(reads') \in Nat
      BY <3>1, LenProperties DEF WaitInd, TypeOK, ReadKinds
    <3>3. errors' >= Len(reads') /\ Len(reads') = MaxErrors
      BY <1>0, <2>1, <2>4, <3>1, <3>2 DEF WaitInd, TypeOK, ErrorRow
    <3>4. \A i \in 1 .. Len(reads') : i > Len(reads') - errors'
      BY <1>0, <2>1, <3>2, <3>3
    <3>5. DOMAIN reads' = 1 .. Len(reads')
      BY <3>2, LenProperties
    <3> QED
      BY <3>1, <3>3, <3>4, <3>5 DEF WaitInd, ErrorRow
  <2>5. ThrowIsEarned'
    BY <2>1, <2>2, <2>3, <2>4 DEF ThrowIsEarned
  <2> QED
    BY <2>1, <2>2, <2>3, <2>5 DEF GreenIsEarned, RedIsActionable, WaitsForSomething
<1>2. CASE ReadForbidden
  <2>1. result.outcome = "none" /\ now' = now
    BY <1>0, <1>2 DEF ReadForbidden, Undecided, NoResult
  <2>2. \/ pc' = "done" /\ result'.outcome = "unverified"
        \/ pc' = "sleep" /\ result' = result /\ ~(now >= SettleTime)
    BY <1>0, <1>2, SettleTimeIs DEF ReadForbidden, Return, Sleep
  <2>3. SettleTime' = SettleTime
    BY DEF SettleTime
  <2> QED
    BY <2>1, <2>2, <2>3 DEF GreenIsEarned, RedIsActionable, ThrowIsEarned, WaitsForSomething
<1>3. CASE ReadRuns
  BY <1>0, <1>3 DEF ReadRuns, Undecided, NoResult,
     GreenIsEarned, RedIsActionable, ThrowIsEarned, WaitsForSomething
<1>4. CASE ReadStatuses
  <2>1. /\ reads' = Remembered("ok") /\ now' = now /\ required' = required
        /\ seen' \in [Contexts -> States] /\ Judge(seen') /\ result.outcome = "none"
    BY <1>0, <1>4, MergedTyped, NoChecksTyped
       DEF ReadStatuses, TypeOK, Undecided, NoResult
  <2>2. LastRead' = "ok"
    BY <2>1, LastReadIs DEF ReadKinds
  <2>3. SettleTime' = SettleTime /\ NoChecks' = NoChecks
    BY DEF SettleTime, NoChecks
  <2>4. CASE /\ Return("green", FALSE, Failing(seen'))
             /\ Settled(seen') /\ Failing(seen') = {} /\ ~MayBeLate(seen')
    <3>1. pc' = "done" /\ result'.outcome = "green"
      BY <2>4 DEF Return
    <3>2. GreenIsEarned'
      BY <1>0, <2>1, <2>2, <2>3, <2>4, GreenIs DEF GreenIsEarned
    <3> QED
      BY <3>1, <3>2 DEF RedIsActionable, ThrowIsEarned, WaitsForSomething
  <2>5. CASE /\ Return("failed", FALSE, Failing(seen'))
             /\ Settled(seen') /\ Failing(seen') # {}
    <3>1. pc' = "done" /\ result'.outcome = "failed" /\ result'.failed = Failing(seen')
      BY <2>5 DEF Return
    <3>2. \A c \in Failing(seen') : seen'[c] = "failed"
      BY DEF Failing
    <3> QED
      BY <2>5, <3>1, <3>2 DEF GreenIsEarned, RedIsActionable, ThrowIsEarned, WaitsForSomething
  <2>6. CASE /\ Return("stalled", FALSE, Failing(seen'))
             /\ ~Settled(seen') /\ Stalled(seen')
    <3>1. pc' = "done" /\ result'.outcome = "stalled"
      BY <2>6 DEF Return
    <3> QED
      BY <3>1 DEF GreenIsEarned, RedIsActionable, ThrowIsEarned, WaitsForSomething
  <2>7. CASE /\ Return("failed", TRUE, Failing(seen'))
             /\ now >= Timeout /\ Runs(seen')
    <3>1. pc' = "done" /\ result'.outcome = "failed" /\ result'.timedOut
      BY <2>7 DEF Return
    <3>2. GateRuns' /\ now' >= Timeout
      BY <2>1, <2>7 DEF Runs, GateRuns
    <3> QED
      BY <3>1, <3>2 DEF GreenIsEarned, RedIsActionable, ThrowIsEarned, WaitsForSomething
  <2>8. CASE /\ Sleep
             /\ now < Timeout /\ (now >= SettleTime => Runs(seen'))
    <3>1. pc' = "sleep" /\ result' = result
      BY <2>8 DEF Sleep
    <3>2. now' >= SettleTime' => GateRuns'
      BY <2>1, <2>3, <2>8 DEF Runs, GateRuns
    <3> QED
      BY <2>1, <3>1, <3>2 DEF GreenIsEarned, RedIsActionable, ThrowIsEarned, WaitsForSomething
  <2> QED
    BY <1>0, <2>1, <2>4, <2>5, <2>6, <2>7, <2>8, JudgeIs
<1>5. CASE Wake
  BY <1>0, <1>5 DEF Wake, history, Undecided, NoResult,
     GreenIsEarned, RedIsActionable, ThrowIsEarned, WaitsForSomething
<1>6. CASE RunMoves \/ StatusMoves \/ UNCHANGED vars
  <2>1. /\ UNCHANGED <<pc, now, result, required, seen, reads>>
    BY <1>6 DEF RunMoves, StatusMoves, vars, waiting, history
  <2>2. LastRead' = LastRead /\ GateRuns' = GateRuns /\ SettleTime' = SettleTime
        /\ NoChecks' = NoChecks
    BY <2>1 DEF LastRead, GateRuns, SettleTime, NoChecks
  <2> QED
    BY <1>0, <2>1, <2>2 DEF GreenIsEarned, RedIsActionable, ThrowIsEarned, WaitsForSomething
<1> QED
  BY <1>1, <1>2, <1>3, <1>4, <1>5, <1>6 DEF Next, Wait

(* Whatever the wait answers has its reason in what it read of the head: a *)
(* green one that every gating check passed, a red one that one failed or  *)
(* that time ran out with one running, a throw that MaxErrors reads in a   *)
(* row failed or the last one with the time up.  And it polls on, past the *)
(* settle window, for a running check or a failed read only.               *)
THEOREM VerdictEarned == Spec => []VerdictIsEarned
<1>1. Init => VerdictIsEarned
  BY DEF Init, NoResult, VerdictIsEarned,
     GreenIsEarned, RedIsActionable, ThrowIsEarned, WaitsForSomething
<1> QED
  BY <1>1, NextVerdict, WaitInvariant, PTL DEF Spec

-----------------------------------------------------------------------------
(* Checks that stand still.                                                *)

(* The check runs of a read in progress are still the head's.              *)
SteadyInd == steady /\ pc = "statuses" => runsRead = runs

(* Judge's answer to checks as they are is the verdict, timed out if and   *)
(* only if one of them runs.                                               *)
LEMMA JudgeIsVerdict ==
  ASSUME WaitInd, runs' = runs, statuses' = statuses, required' = required,
         seen' = Merged(runs, statuses), pc # "done", pc' = "done", Judge(seen')
  PROVE  result'.outcome = Verdict' /\ (result'.timedOut <=> GateRuns')
<1> DEFINE checks == Merged(runs, statuses)
           gate   == IF required = {} THEN Present(checks) ELSE required
           found  == {checks[c] : c \in gate}
<1>1. checks \in [Contexts -> States] /\ required \in SUBSET Contexts /\ now \in Nat
  BY MergedTyped, TimesAssumption DEF WaitInd, TypeOK
<1>2. Verdict' = IF "running" \in found THEN "failed"
                 ELSE IF found \subseteq {"passed"} THEN "green"
                 ELSE IF found \subseteq Completed THEN "failed"
                 ELSE "stalled"
  BY DEF Verdict, Merged, Present, Completed
<1>3. GateRuns' <=> Runs(checks)
  BY DEF GateRuns, Runs
<1>4. Runs(checks) <=> "running" \in found
  BY <1>1 DEF Runs, Present
<1>5. gate \subseteq Contexts
  BY <1>1 DEF Present
<1>6. Settled(checks) <=> found \subseteq Completed
  BY DEF Settled, Gating
<1>7. Settled(checks) => ("failed" \in found <=> Failing(checks) # {})
  BY <1>1, <1>5 DEF Settled, Failing, Gating, Present, Completed
<1>8. Stalled(checks) => ~Runs(checks)
  BY <1>1 DEF Stalled, Runs
<1>9. seen' = checks
  OBVIOUS
<1> HIDE DEF checks, found
<1>10. CASE /\ Return("green", FALSE, Failing(checks))
            /\ Settled(checks) /\ Failing(checks) = {} /\ ~MayBeLate(checks)
  <2>1. found \subseteq {"passed"} /\ ~("running" \in found)
    BY <1>6, <1>7, <1>10 DEF Completed
  <2> QED
    BY <1>2, <1>3, <1>4, <1>10, <2>1 DEF Return
<1>11. CASE /\ Return("failed", FALSE, Failing(checks))
            /\ Settled(checks) /\ Failing(checks) # {}
  <2>1. /\ ~("running" \in found) /\ ~(found \subseteq {"passed"})
        /\ found \subseteq Completed
    BY <1>6, <1>7, <1>11 DEF Completed
  <2> QED
    BY <1>2, <1>3, <1>4, <1>11, <2>1 DEF Return
<1>12. CASE /\ Return("stalled", FALSE, Failing(checks))
            /\ ~Settled(checks) /\ Stalled(checks)
  <2>1. /\ ~("running" \in found) /\ ~(found \subseteq Completed)
        /\ ~(found \subseteq {"passed"})
    BY <1>4, <1>6, <1>8, <1>12 DEF Completed
  <2> QED
    BY <1>2, <1>3, <1>4, <1>12, <2>1 DEF Return
<1>13. CASE /\ Return("failed", TRUE, Failing(checks))
            /\ now >= Timeout /\ Runs(checks)
  BY <1>2, <1>3, <1>4, <1>13 DEF Return
<1>14. ~Sleep
  BY DEF Sleep
<1> QED
  BY <1>1, <1>9, <1>10, <1>11, <1>12, <1>13, <1>14, JudgeIs

LEMMA NextSteady ==
  WaitInd /\ SteadyInd /\ SteadyVerdict /\ [Next]_vars => SteadyInd' /\ SteadyVerdict'
<1> SUFFICES ASSUME WaitInd, SteadyInd, SteadyVerdict, [Next]_vars
             PROVE  SteadyInd' /\ SteadyVerdict'
  OBVIOUS
<1> USE DEF SteadyInd, SteadyVerdict
<1>1. CASE ReadThrows \/ ReadForbidden \/ RunMoves \/ StatusMoves
  <2>1. ~steady'
    BY <1>1 DEF ReadThrows, ReadForbidden, RunMoves, StatusMoves
  <2> QED
    BY <2>1
<1>2. CASE ReadRuns
  BY <1>2 DEF ReadRuns, github
<1>3. CASE ReadStatuses
  <2>1. /\ pc = "statuses" /\ required' = required /\ runs' = runs /\ statuses' = statuses
        /\ Judge(seen')
    BY <1>3 DEF ReadStatuses, github
  <2>2. pc' # "statuses"
    BY <2>1 DEF Judge, Return, Sleep
  <2>3. ASSUME steady'
        PROVE  seen' = Merged(runs, statuses)
    BY <1>3, <2>1, <2>3 DEF ReadStatuses
  <2> QED
    BY <2>1, <2>2, <2>3, JudgeIsVerdict
<1>4. CASE Wake
  BY <1>4 DEF Wake
<1>5. CASE UNCHANGED vars
  <2>1. UNCHANGED <<pc, required, runsRead, result, runs, statuses, seen, steady>>
    BY <1>5 DEF vars, waiting, github, history
  <2>2. Verdict' = Verdict /\ GateRuns' = GateRuns
    BY <2>1 DEF Verdict, GateRuns, Merged, Present
  <2> QED
    BY <2>1, <2>2
<1> QED
  BY <1>1, <1>2, <1>3, <1>4, <1>5 DEF Next, Wait

(* On checks that never move, read without a fault, the wait returns the   *)
(* verdict defined without the loop, whatever the sleeps; it times out if  *)
(* and only if a check of the gate still runs.                             *)
THEOREM SteadyVerdictHolds == Spec => []SteadyVerdict
<1>1. Init => SteadyInd /\ SteadyVerdict
  BY DEF Init, SteadyInd, SteadyVerdict
<1> QED
  BY <1>1, NextSteady, WaitInvariant, PTL DEF Spec

=============================================================================
