---------------------------- MODULE ScheduledSlot ---------------------------
(***************************************************************************)
(* Who starts the night, and who may: GitHub's cron, the host scheduler    *)
(* (packages/cli/src/commands/host-scheduler.ts) and people create runs of *)
(* the workflow, the workflow's concurrency group queues them, and each    *)
(* scheduled one asks guardScheduledSlot                                   *)
(* (packages/core/src/fallback-dispatch.ts) at its start whether the slot  *)
(* is taken.                                                               *)
(*                                                                         *)
(* Time is in ticks of a day of Day of them.  The cron is due at the       *)
(* multiples of Day, which divide time into occurrences; UTC midnight is   *)
(* at another tick of the day.  A run's id is its place in `runs'.         *)
(***************************************************************************)
EXTENDS Integers, SequencesExt

CONSTANTS
  Day,        \* ticks from one occurrence to the next
  Midnight,   \* the tick of the day at which the UTC date changes
  Triggers,   \* the values of schedule_trigger to try
  Faults,     \* what may go wrong: list (the guard's listing of runs fails),
              \* host (the host scheduler's dispatch)
  MaxFires,   \* bound: how often launchd fires within one occurrence
  MaxRuns,    \* bound: runs created
  Horizon     \* bound: the last tick

ASSUME TimeAssumption == Day \in Nat \ {0} /\ Midnight \in 0 .. Day - 1 /\ Horizon \in Nat
ASSUME TriggersAssumption == Triggers \subseteq {"github-cron", "host-scheduler", "both"}
ASSUME FaultsAssumption == Faults \subseteq {"list", "host"}
ASSUME BoundsAssumption == MaxFires \in Nat /\ MaxRuns \in Nat

VARIABLES
  trigger,    \* schedule_trigger
  now,        \* the time
  cronSpent,  \* GitHub fired, or dropped, the cron of this occurrence
  fires,      \* how often launchd fired in this occurrence
  host,       \* the host scheduler: idle, or about to dispatch
  checked,    \* a check of this occurrence went through
  runs        \* the workflow's runs, oldest first; of each also, as history,
              \* whether a night began, and whether the guard could tell then:
              \* with the list of runs, in the occurrence of its creation

vars == <<trigger, now, cronSpent, fires, host, checked, runs>>

Init ==
  /\ trigger \in Triggers
  /\ now = 0
  /\ cronSpent = (trigger = "host-scheduler")
  /\ fires = 0
  /\ host = "idle"
  /\ checked = FALSE
  /\ runs = << >>

-----------------------------------------------------------------------------
(* Windows.                                                                *)

(* anchorOccurrence: the last time the cron was due.                       *)
Anchor(time) == time - (time % Day)

SameUtcDay(a, b) == (a + Day - Midnight) \div Day = (b + Day - Midnight) \div Day

(* Created since the occurrence began; without a cron schedule to anchor   *)
(* to, on the same UTC day.                                                *)
Current(run, anchored) ==
  IF anchored THEN run.created >= Anchor(now) ELSE SameUtcDay(run.created, now)

(* Mutant: the marker of the host scheduler's runs is not recognised.      *)
SlotRun_CronOnly(run) == run.by = "cron"

(* isScheduledSlotRun: the cron's runs and the host scheduler's.           *)
SlotRun(run) == run.by \in {"cron", "host"}

Completed(run) == run.status = "completed"

(* Mutant: a run that failed consumed the slot.                            *)
CoversSlot_AnyConclusion(run) == TRUE

(* coversScheduledSlot: succeeded, or may yet.                             *)
CoversSlot(run) == Completed(run) => run.conclusion = "success"

-----------------------------------------------------------------------------
(* The concurrency group that the workflow puts all its runs in: one run   *)
(* holds it, one more may wait for it, and a newer one takes that one's    *)
(* place.                                                                  *)

Holding == {i \in DOMAIN runs : runs[i].status \in {"queued", "in_progress"}}
Waiting == {i \in DOMAIN runs : runs[i].status = "pending"}

Finished(run, conclusion) == [run EXCEPT !.status = "completed", !.conclusion = conclusion]

(* Mutant: the runs share no group.                                        *)
Arrival_NoGroup == "queued"

(* The one group, with cancel-in-progress off: a run waits behind the one  *)
(* that holds it.                                                          *)
Arrival == IF Holding = {} THEN "queued" ELSE "pending"

Create(by) ==
  /\ Len(runs) < MaxRuns
  /\ runs' = Append([i \in DOMAIN runs |->
                       IF i \in Waiting THEN Finished(runs[i], "cancelled") ELSE runs[i]],
                    [by |-> by, created |-> now, night |-> "none",
                     status |-> Arrival, conclusion |-> "none"])

(* A run gives the group up, to the one that waits.                        *)
Release(i, run) ==
  runs' = [j \in DOMAIN runs |->
             IF j = i THEN run
             ELSE IF j \in Waiting THEN [runs[j] EXCEPT !.status = "queued"] ELSE runs[j]]

-----------------------------------------------------------------------------
(* The triggers.                                                           *)

(* Time passes.  A run may wait for the group or its runner into another   *)
(* occurrence; the host's check and its dispatch are seconds apart.        *)
Tick ==
  /\ now < Horizon
  /\ now' = now + 1
  /\ IF now' = Anchor(now')
       THEN /\ host = "idle"
            /\ cronSpent' = (trigger = "host-scheduler")
            /\ fires' = 0
            /\ checked' = FALSE
       ELSE UNCHANGED <<cronSpent, fires, checked>>
  /\ UNCHANGED <<trigger, host, runs>>

(* GitHub's cron is best effort: it fires sometime in the occurrence, or   *)
(* not at all.                                                             *)
CronFires ==
  /\ ~cronSpent
  /\ cronSpent' = TRUE
  /\ Create("cron")
  /\ UNCHANGED <<trigger, now, fires, host, checked>>

ManualDispatch ==
  /\ Create("manual")
  /\ UNCHANGED <<trigger, now, cronSpent, fires, host, checked>>

(* decideFallbackDispatch looks for a cron run, decidePrimaryDispatch for  *)
(* any scheduled one, both since the current occurrence, in any state.     *)
NightExists ==
  \E i \in DOMAIN runs :
    /\ Current(runs[i], TRUE)
    /\ IF trigger = "both" THEN runs[i].by = "cron" ELSE SlotRun(runs[i])

(* launchd fires - on schedule, or as a fallback some time after - and the *)
(* check lists the runs and decides.                                       *)
HostChecks ==
  /\ trigger \in {"host-scheduler", "both"}
  /\ host = "idle"
  /\ fires < MaxFires
  /\ trigger = "both" => now # Anchor(now)
  /\ fires' = fires + 1
  /\ IF NightExists
       THEN checked' = TRUE /\ UNCHANGED host
       ELSE host' = "dispatching" /\ UNCHANGED checked
  /\ UNCHANGED <<trigger, now, cronSpent, runs>>

(* What the check saw may be past by then.                                 *)
HostDispatches ==
  /\ host = "dispatching"
  /\ Create("host")
  /\ host' = "idle"
  /\ checked' = TRUE
  /\ UNCHANGED <<trigger, now, cronSpent, fires>>

HostFails ==
  /\ "host" \in Faults
  /\ host = "dispatching"
  /\ host' = "idle"
  /\ UNCHANGED <<trigger, now, cronSpent, fires, checked, runs>>

-----------------------------------------------------------------------------
(* A run.                                                                  *)

(* guardScheduledSlot: an older scheduled run of this occurrence covers    *)
(* the slot.  A workflow without a cron does not pass its schedule.        *)
Superseded(i) ==
  /\ SlotRun(runs[i])
  /\ \E j \in DOMAIN runs :
       /\ j < i
       /\ Current(runs[j], trigger # "host-scheduler")
       /\ SlotRun(runs[j])
       /\ CoversSlot(runs[j])

(* The runner takes the run and its night begins; a failing listing lets   *)
(* it.                                                                     *)
NightBegins(i) ==
  /\ runs[i].status = "queued"
  /\ \E listed \in BOOLEAN :
       /\ IF listed THEN ~Superseded(i) ELSE "list" \in Faults
       /\ runs' = [runs EXCEPT ![i].status = "in_progress",
                       ![i].night = IF listed /\ Anchor(now) = Anchor(runs[i].created)
                                      THEN "guarded" ELSE "unguarded"]
  /\ UNCHANGED <<trigger, now, cronSpent, fires, host, checked>>

(* Or it stands down, which is a success.                                  *)
StandsDown(i) ==
  /\ runs[i].status = "queued"
  /\ Superseded(i)
  /\ Release(i, Finished(runs[i], "success"))
  /\ UNCHANGED <<trigger, now, cronSpent, fires, host, checked>>

(* The run ends before the action starts: its setup failed, or someone     *)
(* cancelled it.                                                           *)
SetupFails(i) ==
  /\ runs[i].status = "queued"
  /\ Release(i, Finished(runs[i], "failure"))
  /\ UNCHANGED <<trigger, now, cronSpent, fires, host, checked>>

(* The night is over: a success, or a failed job (a wipeout, a throw, the  *)
(* job's timeout).                                                         *)
NightEnds(i) ==
  /\ runs[i].status = "in_progress"
  /\ \E conclusion \in {"success", "failure"} : Release(i, Finished(runs[i], conclusion))
  /\ UNCHANGED <<trigger, now, cronSpent, fires, host, checked>>

-----------------------------------------------------------------------------
Trigger == CronFires \/ ManualDispatch \/ HostChecks \/ HostDispatches \/ HostFails

Run == \E i \in DOMAIN runs : NightBegins(i) \/ StandsDown(i) \/ SetupFails(i) \/ NightEnds(i)

Next == Tick \/ Trigger \/ Run

Spec == Init /\ [][Next]_vars

-----------------------------------------------------------------------------
(* Properties.                                                             *)

Statuses == {"queued", "pending", "in_progress", "completed"}
Conclusions == {"none", "success", "failure", "cancelled"}

(* The types; and of all the runs, whoever started them, no two are at     *)
(* work on the repository at once, for the workflow puts them in one       *)
(* group.                                                                  *)
TypeOK ==
  /\ trigger \in Triggers
  /\ now \in 0 .. Horizon
  /\ cronSpent \in BOOLEAN
  /\ fires \in 0 .. MaxFires
  /\ host \in {"idle", "dispatching"}
  /\ checked \in BOOLEAN
  /\ runs \in Seq([by : {"cron", "host", "manual"}, created : 0 .. Horizon,
                   night : {"none", "guarded", "unguarded"},
                   status : Statuses, conclusion : Conclusions])
  /\ Cardinality(Holding) <= 1
  /\ Cardinality(Waiting) <= 1
  /\ Waiting # {} => Holding # {}

(* The night that run i did: a success that did not just stand down.       *)
Worked(i) == runs[i].night # "none" /\ runs[i].conclusion = "success"

StoodDown(i) == runs[i].night = "none" /\ runs[i].conclusion = "success"

(* One night a day: of the scheduled runs created in one occurrence, by    *)
(* cron or by host and however their checks interleave, none begins its    *)
(* night in that occurrence, with the list of runs before its guard, after *)
(* another has done it.                                                    *)
OncePerOccurrence ==
  \A i, j \in DOMAIN runs :
    /\ i < j
    /\ runs[i].by # "manual" /\ runs[j].by # "manual"
    /\ Anchor(runs[i].created) = Anchor(runs[j].created)
    => ~(Worked(i) /\ runs[j].night = "guarded")

(* Run j stood down for a scheduled run that did the night of j's own      *)
(* occurrence.                                                             *)
Earned(j) ==
  /\ runs[j].by # "manual"
  /\ \E i \in 1 .. j - 1 : /\ Worked(i)
                           /\ runs[i].by # "manual"
                           /\ Anchor(runs[i].created) = Anchor(runs[j].created)

(* With a cron in the workflow no night is lost to the guard: a run stands *)
(* down only when it is a scheduled one and an older scheduled run did     *)
(* that night - not one that failed, was cancelled, or itself stood down   *)
(* for nothing.                                                            *)
StandDownIsEarned ==
  trigger # "host-scheduler" => \A j \in DOMAIN runs : StoodDown(j) => Earned(j)

(* Once a check of the host scheduler went through, this occurrence has a  *)
(* scheduled run: neither a run of the day before nor a manual one         *)
(* suppresses the dispatch.                                                *)
NightIsTriggered ==
  checked => \E i \in DOMAIN runs : runs[i].by # "manual" /\ Anchor(runs[i].created) = Anchor(now)

(* No night is lost, neither to the guard of a run that stands down nor to *)
(* a check that finds the night already triggered.                         *)
NoNightIsLost == StandDownIsEarned /\ NightIsTriggered

=============================================================================
