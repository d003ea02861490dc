------------------------------- MODULE CiWait -------------------------------
(***************************************************************************)
(* The wait for a pushed head's checks: waitForRequiredChecks              *)
(* (packages/action/src/ci-poll.ts), the gate decision it polls            *)
(* (packages/core/src/ci-gate.ts) and the read it makes of GitHub          *)
(* (getChecksForRef, github-api.ts), which is two calls: the head's check  *)
(* runs, then its commit statuses.                                         *)
(*                                                                         *)
(* Time counts poll intervals.  Checks register, finish and are run again  *)
(* at any moment, between the two calls of a read too.                     *)
(***************************************************************************)
EXTENDS Integers, SequencesExt

CONSTANTS
  Contexts,        \* names of check runs and commit statuses
  StatusContexts,  \* those that may have a commit status
  Timeout,         \* params.timeoutMs, in poll intervals
  MaxErrors,       \* params.maxPollErrors
  Faults,          \* which reads may fail
  MaxDelay         \* bound: how late a sleep may wake

FaultKinds == {"error", "forbidden", "statuses"}

ASSUME ContextsAssumption == StatusContexts \subseteq Contexts
ASSUME TimesAssumption    == {Timeout, MaxErrors} \subseteq Nat \ {0} /\ MaxDelay \in Nat
ASSUME FaultsAssumption   == Faults \subseteq FaultKinds

VARIABLES
  pc,        \* the await it stands at: "runs", "statuses", "sleep", "done"
  now,       \* clock.now() - start
  errors,    \* consecutiveErrors
  runsRead,  \* the check runs of the read in progress
  result,    \* what the wait returned or threw
  required,  \* params.required.contexts; {} when unreadable
  runs,      \* GitHub: the head's check run of each name
  statuses,  \* GitHub: the head's commit status of each name
  seen,      \* history: the checks of the last read that answered
  reads,     \* history: how the latest reads went, MaxErrors of them
  steady     \* history: no check moved and no read failed so far

waiting == <<pc, now, errors, runsRead, result>>
github  == <<runs, statuses>>
history == <<seen, reads, steady>>
vars    == <<waiting, required, github, history>>

-----------------------------------------------------------------------------
(* Checks.  "passed" is a completed check whose conclusion is none of      *)
(* isFailureConclusion's, "failed" one whose conclusion is.                *)

States    == {"absent", "running", "passed", "failed"}
Completed == {"passed", "failed"}
NoChecks  == [c \in Contexts |-> "absent"]
NoResult  == [outcome |-> "none", timedOut |-> FALSE, failed |-> {}]

SettleTime == IF Timeout < 2 THEN Timeout ELSE 2

(* getChecksForRef: a commit status only fills a name no check run covers, *)
(* and none do when their read failed.                                     *)
Merged(checkRuns, commitStatuses) ==
  [c \in Contexts |-> IF checkRuns[c] = "absent" THEN commitStatuses[c] ELSE checkRuns[c]]

Present(checks) == {c \in Contexts : checks[c] # "absent"}

(* gatingChecks.                                                           *)
Gating(checks) == IF required = {} THEN Present(checks) ELSE Present(checks) \cap required

(* failedChecks.                                                           *)
Failing(checks) == {c \in Gating(checks) : checks[c] = "failed"}

(* A gate has settled when every required context is there and completed,  *)
(* or, with no required set to read, when no check is still running.       *)
Settled(checks) ==
  \A c \in (IF required = {} THEN Gating(checks) ELSE required) : checks[c] \in Completed

(* Mutant: a failing check decides while others still run.                 *)
Decision_FailsFast(checks) ==
  IF Failing(checks) # {} THEN "failed"
  ELSE IF Settled(checks) THEN "green" ELSE "pending"

(* evaluateGate.                                                           *)
Decision(checks) ==
  IF ~Settled(checks) THEN "pending"
  ELSE IF Failing(checks) # {} THEN "failed" ELSE "green"

(* requiredContextsStalled: a required context is missing and none runs.   *)
Stalled(checks) ==
  /\ \E c \in required : checks[c] = "absent"
  /\ \A c \in required : checks[c] # "running"

-----------------------------------------------------------------------------
(* The wait.                                                               *)

Init ==
  /\ pc = "runs" /\ now = 0 /\ errors = 0 /\ runsRead = NoChecks /\ result = NoResult
  /\ required \in SUBSET Contexts
  /\ runs \in [Contexts -> States]
  /\ statuses \in [Contexts -> States]
  /\ \A c \in Contexts \ StatusContexts : statuses[c] = "absent"
  /\ seen = NoChecks /\ reads = << >> /\ steady = TRUE

Remembered(read) == LET all == Append(reads, read)
                    IN SubSeq(all, IF Len(all) > MaxErrors THEN 2 ELSE 1, Len(all))

Return(outcome, timedOut, failed) ==
  /\ pc' = "done"
  /\ result' = [outcome |-> outcome, timedOut |-> timedOut, failed |-> failed]

Sleep == pc' = "sleep" /\ UNCHANGED result

May(fault) == fault \in Faults

(* Mutant: only a row of errors ends the wait, not the clock.              *)
ReadThrows_Untimed ==
  /\ pc = "runs" /\ May("error")
  /\ errors' = errors + 1
  /\ IF errors' >= MaxErrors THEN Return("thrown", FALSE, {}) ELSE Sleep
  /\ reads' = Remembered("error") /\ steady' = FALSE
  /\ UNCHANGED <<now, runsRead, required, github, seen>>

(* The check runs cannot be read now: absorbed, until there are too many   *)
(* errors in a row or the time is up.                                      *)
ReadThrows ==
  /\ pc = "runs" /\ May("error")
  /\ errors' = errors + 1
  /\ IF errors' >= MaxErrors \/ now >= Timeout THEN Return("thrown", FALSE, {}) ELSE Sleep
  /\ reads' = Remembered("error") /\ steady' = FALSE
  /\ UNCHANGED <<now, runsRead, required, github, seen>>

(* The credential may not read check runs: unverified, after settling.     *)
ReadForbidden ==
  /\ pc = "runs" /\ May("forbidden")
  /\ errors' = 0
  /\ IF now < SettleTime THEN Sleep ELSE Return("unverified", FALSE, {})
  /\ reads' = Remembered("forbidden") /\ steady' = FALSE
  /\ UNCHANGED <<now, runsRead, required, github, seen>>

ReadRuns ==
  /\ pc = "runs"
  /\ runsRead' = runs
  /\ pc' = "statuses"
  /\ UNCHANGED <<now, errors, result, required, github, history>>

(* A head with no check yet may only be early: CI may still register.      *)
MayBeLate(checks) == required = {} /\ Gating(checks) = {} /\ now < SettleTime

(* What a read leads to, in the order the loop asks.                       *)
Judge(checks) ==
  LET decision == Decision(checks)
  IN IF decision # "pending" /\ ~MayBeLate(checks)
       THEN Return(decision, FALSE, Failing(checks))
     ELSE IF decision = "pending" /\ now >= SettleTime /\ Stalled(checks)
       THEN Return("stalled", FALSE, Failing(checks))
     ELSE IF now >= Timeout
       THEN Return("failed", TRUE, Failing(checks))
     ELSE Sleep

(* Mutant: a read that answers does not end a row of errors.               *)
ReadStatuses_KeepsErrors ==
  /\ pc = "statuses"
  /\ \E answered \in BOOLEAN :
       /\ answered \/ May("statuses")
       /\ seen' = Merged(runsRead, IF answered THEN statuses ELSE NoChecks)
       /\ steady' = (steady /\ answered)
  /\ Judge(seen')
  /\ UNCHANGED errors
  /\ reads' = Remembered("ok") /\ runsRead' = NoChecks
  /\ UNCHANGED <<now, required, github>>

(* The commit statuses answer or, silently, do not; then the loop decides. *)
ReadStatuses ==
  /\ pc = "statuses"
  /\ \E answered \in BOOLEAN :
       /\ answered \/ May("statuses")
       /\ seen' = Merged(runsRead, IF answered THEN statuses ELSE NoChecks)
       /\ steady' = (steady /\ answered)
  /\ Judge(seen')
  /\ errors' = 0
  /\ reads' = Remembered("ok") /\ runsRead' = NoChecks
  /\ UNCHANGED <<now, required, github>>

(* Mutant: the clock starts again at every poll.                           *)
Wake_Restarts ==
  /\ pc = "sleep"
  /\ \E delay \in 0 .. MaxDelay : now' = 1 + delay
  /\ pc' = "runs"
  /\ UNCHANGED <<errors, runsRead, result, required, github, history>>

(* clock.sleep(pollMs), which may wake late.                               *)
Wake ==
  /\ pc = "sleep"
  /\ \E delay \in 0 .. MaxDelay : now' = now + 1 + delay
  /\ pc' = "runs"
  /\ UNCHANGED <<errors, runsRead, result, required, github, history>>

Wait == ReadThrows \/ ReadForbidden \/ ReadRuns \/ ReadStatuses \/ Wake

-----------------------------------------------------------------------------
(* GitHub and people.                                                      *)

(* Registering, finishing and being run again are every way a check moves. *)
Moves(state) == CASE state = "absent"  -> {"running", "passed", "failed"}
                  [] state = "running" -> {"passed", "failed"}
                  [] OTHER             -> {"running"}

RunMoves ==
  /\ pc # "done"
  /\ \E c \in Contexts : \E s \in Moves(runs[c]) : runs' = [runs EXCEPT ![c] = s]
  /\ steady' = FALSE
  /\ UNCHANGED <<waiting, required, statuses, seen, reads>>

StatusMoves ==
  /\ pc # "done"
  /\ \E c \in StatusContexts : \E s \in Moves(statuses[c]) :
       statuses' = [statuses EXCEPT ![c] = s]
  /\ steady' = FALSE
  /\ UNCHANGED <<waiting, required, runs, seen, reads>>

Next == Wait \/ RunMoves \/ StatusMoves

Spec     == Init /\ [][Next]_vars
FairSpec == Spec /\ WF_vars(Wait)

-----------------------------------------------------------------------------
(* Properties.                                                             *)

(* A check the gate waits for was running at the last read that answered.  *)
GateRuns == \E c \in Contexts : seen[c] = "running" /\ (required = {} \/ c \in required)

LastRead == IF reads = << >> THEN "none" ELSE Last(reads)

(* The state's types.  The clock's range says more: no poll begins once    *)
(* the time is up, however reads fail, so the wait overruns timeoutMs by   *)
(* one sleep at most.                                                      *)
TypeOK ==
  /\ pc \in {"runs", "statuses", "sleep", "done"}
  /\ now \in 0 .. (Timeout + MaxDelay)
  /\ errors \in 0 .. MaxErrors
  /\ runsRead \in [Contexts -> States]
  /\ result \in [outcome  : {"none", "green", "failed", "stalled", "unverified", "thrown"},
                 timedOut : BOOLEAN, failed : SUBSET Contexts]
  /\ required \in SUBSET Contexts
  /\ runs \in [Contexts -> States] /\ statuses \in [Contexts -> States]
  /\ seen \in [Contexts -> States]
  /\ reads \in Seq({"ok", "error", "forbidden"}) /\ Len(reads) <= MaxErrors
  /\ steady \in BOOLEAN

(* A pull request that turns ready as CI-green was: the last read          *)
(* answered, no check it gates on was failing, running or missing, and an  *)
(* empty one counted only once the settle window had passed.  The loop     *)
(* must keep the three apart over reads that fail and checks that come     *)
(* late.                                                                   *)
GreenIsEarned ==
  result.outcome = "green" =>
    /\ LastRead = "ok"
    /\ \A c \in required : seen[c] = "passed"
    /\ required = {} => /\ \A c \in Contexts : seen[c] \in {"absent", "passed"}
                        /\ seen = NoChecks => now >= SettleTime

(* A red verdict gives the agent something to do: a failing check to fix,  *)
(* or else the time ran out with a check that had still to finish.  A head *)
(* whose last read is green is never failed for being late.                *)
RedIsActionable ==
  result.outcome = "failed" =>
    \/ result.failed # {} /\ \A c \in result.failed : seen[c] = "failed"
    \/ /\ result.timedOut /\ now >= Timeout
       /\ GateRuns

(* A read error never loses the issue alone: the wait throws only after    *)
(* MaxErrors reads in a row failed, none of those between answering, or    *)
(* when the last read failed with the time up.                             *)
ThrowIsEarned ==
  result.outcome = "thrown" =>
    /\ LastRead = "error"
    /\ \/ Len(reads) = MaxErrors /\ \A i \in DOMAIN reads : reads[i] = "error"
       \/ now >= Timeout

(* Past the settle window the wait never polls on with nothing to wait     *)
(* for: a check it gates on was running, or the last read failed.          *)
WaitsForSomething ==
  pc = "sleep" /\ now >= SettleTime =>
    \/ LastRead = "error"
    \/ GateRuns

(* Whatever the wait answers, and its waiting on too, has its reason in    *)
(* what it read of the head.                                               *)
VerdictIsEarned == GreenIsEarned /\ RedIsActionable /\ ThrowIsEarned /\ WaitsForSomething

(* What the verdict must be when nothing moves and every read answers,     *)
(* stated without the loop.                                                *)
Verdict ==
  LET checks == Merged(runs, statuses)
      gate   == IF required = {} THEN Present(checks) ELSE required
      found  == {checks[c] : c \in gate}
  IN IF "running" \in found THEN "failed"
     ELSE IF found \subseteq {"passed"} THEN "green"
     ELSE IF found \subseteq Completed THEN "failed"
     ELSE "stalled"

(* On checks that stand still, the wait returns exactly that verdict,      *)
(* whatever the sleeps: timed out if and only if a check still runs.       *)
SteadyVerdict ==
  steady /\ pc = "done" =>
    /\ result.outcome = Verdict
    /\ result.timedOut <=> GateRuns

(* Every wait ends: its own steps keep running, and it needs no check, no  *)
(* read and nobody to come round.                                          *)
WaitEnds == <>(pc = "done")
=============================================================================
