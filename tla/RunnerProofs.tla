---------------------------- MODULE RunnerProofs ----------------------------
(***************************************************************************)
(* Proofs about RunnerLifecycle, for every set of hosts.                   *)
(***************************************************************************)
EXTENDS RunnerLifecycle, TLAPS

-----------------------------------------------------------------------------
(* Where the steps stand.  The proofs below use these facts and leave Plan closed. *)

LEMMA JobsAre ==
  Jobs = {"provision", "register", "start", "stop", "deregister", "agent", "noagent"}
BY DEF Jobs, Plan

LEMMA PlanIs ==
  /\ Plan["provision"] = <<"install", "github", "disk">>
  /\ Plan["register"] = <<"install", "github", "disk", "svcinstall", "svcstart", "online">>
  /\ Plan["start"] = <<"install", "configured", "svcinstall", "svcstart", "online">>
  /\ Plan["stop"] = <<"svcstop">>
  /\ Plan["deregister"] = <<"svcstop", "svcuninstall", "remove", "delete", "rmdir">>
  /\ Plan["agent"] = <<"legacyout", "legacyrm", "plist", "out", "bootstrap">>
  /\ Plan["noagent"] = <<"out", "rm", "legacyout", "legacyrm">>
BY DEF Plan

LEMMA PlanLengths == \A j \in Jobs : Len(Plan[j]) \in Nat \ {0}
BY JobsAre, PlanIs

\* The step a host is at is one of its job's.
LEMMA AtJob ==
  ASSUME TypeOK, NEW h \in Hosts, NEW s, At(h, s)
  PROVE  /\ job[h] \in Jobs /\ step[h] \in 1 .. Len(Plan[job[h]])
         /\ Plan[job[h]][step[h]] = s
BY DEF At, Idle, TypeOK

\* At(h, s) for the steps that set up, in terms of the job and its position.
LEMMA SetupPlaces ==
  ASSUME TypeOK, NEW h \in Hosts
  PROVE  /\ At(h, "install") => step[h] = 1 /\ job[h] \in {"provision", "register", "start"}
         /\ At(h, "configured") => job[h] = "start" /\ step[h] = 2
         /\ At(h, "github") => job[h] \in {"provision", "register"} /\ step[h] = 2
         /\ At(h, "disk") => job[h] \in {"provision", "register"} /\ step[h] = 3
         /\ At(h, "svcinstall") =>
              (job[h] = "register" /\ step[h] = 4) \/ (job[h] = "start" /\ step[h] = 3)
         /\ At(h, "svcstart") =>
              (job[h] = "register" /\ step[h] = 5) \/ (job[h] = "start" /\ step[h] = 4)
<1>0. CASE Idle(h)
  BY <1>0 DEF At
<1>1. CASE job[h] = "provision"
  BY <1>1, AtJob, PlanIs
<1>2. CASE job[h] = "register"
  BY <1>2, AtJob, PlanIs
<1>3. CASE job[h] = "start"
  BY <1>3, AtJob, PlanIs
<1>4. CASE job[h] = "stop"
  BY <1>4, AtJob, PlanIs
<1>5. CASE job[h] = "deregister"
  BY <1>5, AtJob, PlanIs
<1>6. CASE job[h] = "agent"
  BY <1>6, AtJob, PlanIs
<1>7. CASE job[h] = "noagent"
  BY <1>7, AtJob, PlanIs
<1> QED
  BY <1>0, <1>1, <1>2, <1>3, <1>4, <1>5, <1>6, <1>7, JobsAre DEF TypeOK, Idle

LEMMA OnlinePlace ==
  ASSUME TypeOK, NEW h \in Hosts, At(h, "online")
  PROVE  (job[h] = "register" /\ step[h] = 6) \/ (job[h] = "start" /\ step[h] = 5)
<1>1. job[h] \in Jobs /\ step[h] \in 1 .. Len(Plan[job[h]]) /\ Plan[job[h]][step[h]] = "online"
  BY AtJob
<1> QED
  BY <1>1, JobsAre, PlanIs

\* The same for the steps that tear down.
LEMMA TeardownPlaces ==
  ASSUME TypeOK, NEW h \in Hosts
  PROVE  /\ At(h, "svcstop") => job[h] \in {"stop", "deregister"} /\ step[h] = 1
         /\ At(h, "svcuninstall") => job[h] = "deregister" /\ step[h] = 2
         /\ At(h, "remove") => job[h] = "deregister" /\ step[h] = 3
         /\ At(h, "delete") => job[h] = "deregister" /\ step[h] = 4
         /\ At(h, "rmdir") => job[h] = "deregister" /\ step[h] = 5
<1>0. CASE Idle(h)
  BY <1>0 DEF At
<1>1. CASE job[h] = "provision"
  BY <1>1, AtJob, PlanIs
<1>2. CASE job[h] = "register"
  BY <1>2, AtJob, PlanIs
<1>3. CASE job[h] = "start"
  BY <1>3, AtJob, PlanIs
<1>4. CASE job[h] = "stop"
  BY <1>4, AtJob, PlanIs
<1>5. CASE job[h] = "deregister"
  BY <1>5, AtJob, PlanIs
<1>6. CASE job[h] = "agent"
  BY <1>6, AtJob, PlanIs
<1>7. CASE job[h] = "noagent"
  BY <1>7, AtJob, PlanIs
<1> QED
  BY <1>0, <1>1, <1>2, <1>3, <1>4, <1>5, <1>6, <1>7, JobsAre DEF TypeOK, Idle

\* And for those of the host scheduler's agent.
LEMMA AgentPlaces ==
  ASSUME TypeOK, NEW h \in Hosts
  PROVE  /\ At(h, "legacyout") =>
              (job[h] = "agent" /\ step[h] = 1) \/ (job[h] = "noagent" /\ step[h] = 3)
         /\ At(h, "legacyrm") =>
              (job[h] = "agent" /\ step[h] = 2) \/ (job[h] = "noagent" /\ step[h] = 4)
         /\ At(h, "plist") => job[h] = "agent" /\ step[h] = 3
         /\ At(h, "out") =>
              (job[h] = "agent" /\ step[h] = 4) \/ (job[h] = "noagent" /\ step[h] = 1)
         /\ At(h, "bootstrap") => job[h] = "agent" /\ step[h] = 5
         /\ At(h, "rm") => job[h] = "noagent" /\ step[h] = 2
<1>0. CASE Idle(h)
  BY <1>0 DEF At
<1>1. CASE job[h] = "provision"
  BY <1>1, AtJob, PlanIs
<1>2. CASE job[h] = "register"
  BY <1>2, AtJob, PlanIs
<1>3. CASE job[h] = "start"
  BY <1>3, AtJob, PlanIs
<1>4. CASE job[h] = "stop"
  BY <1>4, AtJob, PlanIs
<1>5. CASE job[h] = "deregister"
  BY <1>5, AtJob, PlanIs
<1>6. CASE job[h] = "agent"
  BY <1>6, AtJob, PlanIs
<1>7. CASE job[h] = "noagent"
  BY <1>7, AtJob, PlanIs
<1> QED
  BY <1>0, <1>1, <1>2, <1>3, <1>4, <1>5, <1>6, <1>7, JobsAre DEF TypeOK, Idle

\* What moving on does to the jobs: the host's goes one step on or ends, the others stay.
Moved(h) ==
  /\ job' \in [Hosts -> Jobs \cup {"none", "cut"}] /\ step' \in [Hosts -> Nat]
  /\ \A g \in Hosts \ {h} : job'[g] = job[g] /\ step'[g] = step[g]
  /\ \/ job'[h] \in {"none", "cut"} /\ step'[h] = 0
     \/ /\ job'[h] = job[h] /\ job[h] \notin {"none", "cut"}
        /\ step'[h] = step[h] + 1 /\ step'[h] \in 1 .. Len(Plan[job[h]])

LEMMA EndsMoves ==
  ASSUME TypeOK, NEW h \in Hosts, Ends(h) \/ Cuts(h)
  PROVE  Moved(h) /\ job'[h] \in {"none", "cut"}
<1>1. CASE Ends(h)
  BY <1>1 DEF TypeOK, Ends, Moved
<1>2. CASE Cuts(h)
  BY <1>2 DEF TypeOK, Cuts, Moved
<1> QED
  BY <1>1, <1>2

LEMMA RebootMoves ==
  ASSUME TypeOK, NEW h \in Hosts, Reboot(h)
  PROVE  Moved(h) /\ job'[h] \in {"none", "cut"}
<1>1. CASE Idle(h)
  BY <1>1 DEF TypeOK, Reboot, Idle, Moved
<1>2. CASE ~Idle(h)
  BY <1>2, EndsMoves DEF Reboot
<1> QED
  BY <1>1, <1>2

LEMMA GoesMoves ==
  ASSUME TypeOK, NEW h \in Hosts, NEW s, At(h, s), Goes(h)
  PROVE  Moved(h)
<1>1. CASE step[h] = Len(Plan[job[h]])
  BY <1>1, EndsMoves DEF Goes
<1>2. CASE step[h] # Len(Plan[job[h]])
  <2>1. job[h] \in Jobs /\ step[h] \in 1 .. Len(Plan[job[h]])
    BY AtJob
  <2>2. Len(Plan[job[h]]) \in Nat
    BY <2>1, PlanLengths
  <2>3. step[h] + 1 \in 1 .. Len(Plan[job[h]])
    BY <1>2, <2>1, <2>2
  <2>4. step' = [step EXCEPT ![h] = step[h] + 1] /\ job' = job
    BY <1>2 DEF Goes
  <2>5. job[h] \notin {"none", "cut"}
    BY DEF At, Idle
  <2> QED
    BY <2>1, <2>3, <2>4, <2>5 DEF Moved, TypeOK
<1> QED
  BY <1>1, <1>2

-----------------------------------------------------------------------------
(* The runner.  What a step finds on its host is what the steps before it  *)
(* left there, since a host runs one command at a time.                    *)

\* What a registration rests on; a cut removal may have taken the binaries from under it.
Configurable(h) == ("config.sh" \in dir[h] /\ "bin" \in dir[h]) \/ h \in torn

HostInd(h) ==
  /\ dot[h] => Configurable(h)
  /\ svc[h] # "none" => dot[h] /\ "svc.sh" \in dir[h]
  /\ job[h] \in {"provision", "register"} /\ step[h] = 3 => Configurable(h)
  /\ job[h] = "register" /\ step[h] > 3 => dot[h]
  /\ job[h] = "start" /\ step[h] > 2 => dot[h]
  /\ job[h] = "deregister" /\ step[h] > 2 => svc[h] = "none"
  /\ job[h] = "deregister" /\ step[h] = 5 => held # h

RunnerInd == TypeOK /\ \A h \in Hosts : HostInd(h)

LEMMA InitRunnerInd == Init => RunnerInd
BY HostsAssumption DEF Init, RunnerInd, HostInd, TypeOK, Dirs, Labels, Idle

\* A host's step leaves the other hosts' runners alone, but may take GitHub's registration.
LEMMA OthersKeep ==
  ASSUME RunnerInd, NEW h \in Hosts, Moved(h), held' \in {held, h, NoHost},
         \A g \in Hosts \ {h} : dir'[g] = dir[g] /\ dot'[g] = dot[g] /\ svc'[g] = svc[g]
                             /\ (g \in torn' <=> g \in torn)
  PROVE  \A g \in Hosts \ {h} : HostInd(g)'
<1> TAKE g \in Hosts \ {h}
<1>1. HostInd(g) /\ job'[g] = job[g] /\ step'[g] = step[g]
  BY DEF RunnerInd, Moved
<1>2. held # g => held' # g
  BY HostsAssumption
<1>3. Configurable(g) => Configurable(g)'
  BY DEF Configurable
<1> QED
  BY <1>1, <1>2, <1>3 DEF HostInd

\* Steps that leave the runner of their host as it is.
LEMMA QuietMoves ==
  ASSUME RunnerInd, NEW h \in Hosts, Moved(h), TypeOK', UNCHANGED <<machine, held>>,
         job'[h] \notin {"none", "cut"} => /\ ~(job[h] \in {"provision", "register"} /\ step[h] \in {2, 3})
                             /\ ~(job[h] = "start" /\ step[h] = 2)
                             /\ ~(job[h] = "deregister" /\ step[h] \in {2, 4})
  PROVE  RunnerInd'
<1>0. HostInd(h) /\ (Configurable(h) => Configurable(h)')
  BY DEF RunnerInd, Configurable, machine
<1>1. HostInd(h)'
  <2>1. dot'[h] = dot[h] /\ svc'[h] = svc[h] /\ dir'[h] = dir[h] /\ held' = held
    BY DEF machine
  <2>2. CASE job'[h] \in {"none", "cut"}
    BY <1>0, <2>1, <2>2 DEF HostInd
  <2>3. CASE job'[h] \notin {"none", "cut"}
    <3>1. job'[h] = job[h] /\ step'[h] = step[h] + 1 /\ step[h] \in Nat
      BY <2>3 DEF Moved, RunnerInd, TypeOK
    <3>2. /\ ~(job[h] \in {"provision", "register"} /\ step[h] \in {2, 3})
          /\ ~(job[h] = "start" /\ step[h] = 2)
          /\ ~(job[h] = "deregister" /\ step[h] \in {2, 4})
      BY <2>3
    <3> QED
      BY <1>0, <2>1, <3>1, <3>2 DEF HostInd
  <2> QED
    BY <2>2, <2>3
<1>2. \A g \in Hosts \ {h} : HostInd(g)'
  BY OthersKeep DEF machine
<1> QED
  BY <1>1, <1>2 DEF RunnerInd

\* A step that moves on keeps the types if what it writes has them.
LEMMA MovedTyped ==
  ASSUME TypeOK, NEW h \in Hosts, Moved(h),
         dir' \in [Hosts -> Dirs], dot' \in [Hosts -> BOOLEAN],
         svc' \in [Hosts -> {"none", "stopped", "running"}],
         held' \in Hosts \cup {NoHost}, admin' \in BOOLEAN,
         plists' \in [Macs -> SUBSET Labels], loaded' \in [Macs -> SUBSET Labels],
         torn' \subseteq Hosts, refused' \in [Macs -> SUBSET Labels]
  PROVE  TypeOK'
<1>1. \A g \in Hosts : IF job'[g] \in {"none", "cut"} THEN step'[g] = 0
                       ELSE step'[g] \in 1 .. Len(Plan[job'[g]])
  <2> TAKE g \in Hosts
  <2>1. CASE g = h
    BY <2>1 DEF Moved
  <2>2. CASE g # h
    <3>1. job'[g] = job[g] /\ step'[g] = step[g]
      BY <2>2 DEF Moved
    <3> QED
      BY <3>1 DEF TypeOK, Idle
  <2> QED
    BY <2>1, <2>2
<1> QED
  BY <1>1 DEF Moved, TypeOK, Idle

LEMMA PartsAreDirs == Parts \in Dirs /\ {} \in Dirs
BY DEF Parts, Dirs

LEMMA StepTyped ==
  ASSUME TypeOK, NEW h \in Hosts, Step(h)
  PROVE  TypeOK' /\ Moved(h)
<1> USE DEF TypeOK, machine, agents
<1>1. ASSUME Installs(h) PROVE TypeOK' /\ Moved(h)
  <2>1. Moved(h)
    BY <1>1, GoesMoves, EndsMoves DEF Installs
  <2>2. \A parts \in Dirs \ {{}} : dir[h] \cup parts \in Dirs
    BY DEF Dirs
  <2>3. dir' \in [Hosts -> Dirs] /\ torn' \subseteq Hosts
    BY <1>1, <2>2, PartsAreDirs DEF Installs
  <2>4. UNCHANGED <<dot, svc, held, admin, agents>>
    BY <1>1 DEF Installs
  <2> QED
    BY <2>1, <2>3, <2>4, MovedTyped
<1>2. ASSUME Configured(h) PROVE TypeOK' /\ Moved(h)
  <2>1. Moved(h)
    BY <1>2, GoesMoves, EndsMoves DEF Configured
  <2> QED
    BY <1>2, <2>1, MovedTyped DEF Configured
<1>3. ASSUME ConfigureOnGitHub(h) PROVE TypeOK' /\ Moved(h)
  <2>1. Moved(h)
    BY <1>3, GoesMoves DEF ConfigureOnGitHub
  <2> QED
    BY <1>3, <2>1, MovedTyped DEF ConfigureOnGitHub
<1>4. ASSUME ConfigureOnDisk(h) PROVE TypeOK' /\ Moved(h)
  <2>1. Moved(h)
    BY <1>4, GoesMoves DEF ConfigureOnDisk
  <2> QED
    BY <1>4, <2>1, MovedTyped DEF ConfigureOnDisk
<1>5. ASSUME SvcInstall(h) \/ SvcStart(h) \/ SvcStop(h) \/ SvcUninstall(h) PROVE TypeOK' /\ Moved(h)
  <2>1. Moved(h)
    BY <1>5, GoesMoves DEF SvcInstall, SvcStart, SvcStop, SvcUninstall
  <2>2. svc' \in [Hosts -> {"none", "stopped", "running"}]
    BY <1>5 DEF SvcInstall, SvcStart, SvcStop, SvcUninstall
  <2>3. UNCHANGED <<dir, dot, torn, held, admin, agents>>
    BY <1>5 DEF SvcInstall, SvcStart, SvcStop, SvcUninstall
  <2> QED
    BY <2>1, <2>2, <2>3, MovedTyped
<1>6. ASSUME ReportOnline(h) PROVE TypeOK' /\ Moved(h)
  <2>1. Moved(h)
    BY <1>6, GoesMoves DEF ReportOnline
  <2> QED
    BY <1>6, <2>1, MovedTyped DEF ReportOnline
<1>7. ASSUME RemoveRunnerConfig(h) \/ DeleteRunner(h) \/ RemoveDir(h) PROVE TypeOK' /\ Moved(h)
  <2>1. Moved(h)
    BY <1>7, GoesMoves, EndsMoves DEF RemoveRunnerConfig, DeleteRunner, RemoveDir
  <2>2. /\ dir' \in [Hosts -> Dirs] /\ dot' \in [Hosts -> BOOLEAN]
        /\ held' \in Hosts \cup {NoHost} /\ torn' \subseteq Hosts
    BY <1>7, PartsAreDirs DEF RemoveRunnerConfig, DeleteRunner, RemoveDir
  <2>3. UNCHANGED <<svc, admin, agents>>
    BY <1>7 DEF RemoveRunnerConfig, DeleteRunner, RemoveDir
  <2> QED
    BY <2>1, <2>2, <2>3, MovedTyped
<1>8. ASSUME UninstallLegacy(h) \/ UninstallAgent(h) \/ InstallAgent(h) PROVE TypeOK' /\ Moved(h)
  <2>1. Moved(h)
    BY <1>8, GoesMoves, EndsMoves DEF UninstallLegacy, UninstallAgent, InstallAgent, BootsOut, Writes
  <2>2. UNCHANGED <<machine, held, admin>>
    BY <1>8 DEF UninstallLegacy, UninstallAgent, InstallAgent, BootsOut, Writes
  <2>3. plists' \in [Macs -> SUBSET Labels] /\ loaded' \in [Macs -> SUBSET Labels]
        /\ refused' \in [Macs -> SUBSET Labels]
    <3> DEFINE Typed == /\ plists' \in [Macs -> SUBSET Labels] /\ loaded' \in [Macs -> SUBSET Labels]
                        /\ refused' \in [Macs -> SUBSET Labels]
    <3>1. ASSUME NEW label \in Labels, BootsOut(h, label) PROVE Typed
      BY <3>1 DEF BootsOut
    <3>2. ASSUME NEW labels, h \in Macs => labels \subseteq Labels, Writes(h, labels) PROVE Typed
      BY <3>2 DEF Writes
    <3>3. ASSUME UNCHANGED <<plists, refused>>,
                 UNCHANGED loaded \/ loaded' = [loaded EXCEPT ![h] = @ \cup {"host-scheduler"}]
          PROVE  Typed
      BY <3>3 DEF Labels
    <3>4. {"fallback", "host-scheduler"} \subseteq Labels
      BY DEF Labels
    <3>5. h \in Macs => plists[h] \subseteq Labels
      OBVIOUS
    <3>6. CASE UninstallLegacy(h)
      BY <3>1, <3>2, <3>4, <3>5, <3>6 DEF UninstallLegacy
    <3>7. CASE UninstallAgent(h)
      BY <3>2, <3>5, <3>7 DEF UninstallAgent
    <3>8. CASE InstallAgent(h)
      BY <3>1, <3>2, <3>3, <3>4, <3>5, <3>8 DEF InstallAgent
    <3> QED
      BY <1>8, <3>6, <3>7, <3>8
  <2> QED
    BY <2>1, <2>2, <2>3, MovedTyped
<1> QED
  BY <1>1, <1>2, <1>3, <1>4, <1>5, <1>6, <1>7, <1>8 DEF Step

LEMMA NextRunnerInd == RunnerInd /\ [Next]_vars => RunnerInd'
<1> SUFFICES ASSUME RunnerInd, [Next]_vars PROVE RunnerInd'
  OBVIOUS
<1>0. TypeOK
  BY DEF RunnerInd
<1>1. ASSUME NEW h \in Hosts, NEW j \in Jobs, Begins(h, j) PROVE RunnerInd'
  <2>1. /\ job' = [job EXCEPT ![h] = j] /\ step' = [step EXCEPT ![h] = 1]
        /\ UNCHANGED <<machine, held, admin, agents>>
    BY <1>1 DEF Begins
  <2>2. 1 \in 1 .. Len(Plan[j])
    BY PlanLengths
  <2>3. TypeOK'
    BY <1>0, <2>1, <2>2, JobsAre DEF TypeOK, Idle, machine, agents
  <2> QED
    BY <1>0, <2>1, <2>3 DEF RunnerInd, HostInd, Configurable, TypeOK, machine
<1>2. ASSUME NEW h \in Hosts, Step(h) PROVE RunnerInd'
  <2> USE <1>0
  <2>0. TypeOK' /\ Moved(h) /\ HostInd(h)
    BY <1>2, StepTyped DEF RunnerInd
  <2>1. ASSUME Installs(h) PROVE RunnerInd'
    <3>1. step[h] = 1 /\ dir[h] \subseteq dir'[h]
      BY <2>0, <2>1, <1>0, SetupPlaces DEF Installs, TypeOK, Dirs, Parts
    <3>2. Configurable(h) => Configurable(h)'
      BY <2>1, <3>1, <1>0 DEF Installs, Configurable, TypeOK, Parts
    <3>4. HostInd(h)'
      BY <2>0, <2>1, <3>1, <3>2 DEF Installs, HostInd, Moved
    <3>3. \A g \in Hosts \ {h} : HostInd(g)'
      BY <2>0, <2>1, OthersKeep DEF Installs, TypeOK
    <3> QED
      BY <2>0, <3>3, <3>4 DEF RunnerInd
  <2>2. ASSUME Configured(h) PROVE RunnerInd'
    <3>1. job[h] = "start" /\ step[h] = 2 /\ (dot[h] \/ job'[h] \in {"none", "cut"})
      BY <2>2, SetupPlaces, EndsMoves DEF Configured
    <3>2. HostInd(h)'
      BY <2>0, <2>2, <3>1 DEF Configured, HostInd, Configurable, Moved, machine
    <3>3. \A g \in Hosts \ {h} : HostInd(g)'
      BY <2>0, <2>2, OthersKeep DEF Configured, machine
    <3> QED
      BY <2>0, <3>2, <3>3 DEF RunnerInd
  <2>3. ASSUME ConfigureOnGitHub(h) PROVE RunnerInd'
    <3>1. job[h] \in {"provision", "register"} /\ step[h] = 2 /\ Configurable(h)
      BY <2>0, <2>3, SetupPlaces DEF ConfigureOnGitHub, CanConfigure, Configurable, HostInd
    <3>2. HostInd(h)'
      BY <2>0, <2>3, <3>1 DEF ConfigureOnGitHub, HostInd, Configurable, Moved, machine
    <3>3. \A g \in Hosts \ {h} : HostInd(g)'
      BY <2>0, <2>3, OthersKeep DEF ConfigureOnGitHub, machine
    <3> QED
      BY <2>0, <3>2, <3>3 DEF RunnerInd
  <2>4. ASSUME ConfigureOnDisk(h) PROVE RunnerInd'
    <3>1. job[h] \in {"provision", "register"} /\ step[h] = 3 /\ dot'[h]
      BY <2>4, SetupPlaces DEF ConfigureOnDisk, TypeOK
    <3>2. HostInd(h)'
      BY <2>0, <2>4, <3>1 DEF ConfigureOnDisk, HostInd, Configurable, Moved
    <3>3. \A g \in Hosts \ {h} : HostInd(g)'
      BY <2>0, <2>4, OthersKeep DEF ConfigureOnDisk, TypeOK
    <3> QED
      BY <2>0, <3>2, <3>3 DEF RunnerInd
  <2>5. ASSUME SvcInstall(h) \/ SvcStart(h) PROVE RunnerInd'
    <3>1. \/ job[h] = "register" /\ step[h] \in {4, 5}
          \/ job[h] = "start" /\ step[h] \in {3, 4}
      BY <2>5, SetupPlaces DEF SvcInstall, SvcStart
    <3>2. HostInd(h)'
      BY <2>0, <2>5, <3>1 DEF SvcInstall, SvcStart, HasSvc, HostInd, Configurable, Moved
    <3>3. \A g \in Hosts \ {h} : HostInd(g)'
      BY <2>0, <2>5, OthersKeep DEF SvcInstall, SvcStart, TypeOK
    <3> QED
      BY <2>0, <3>2, <3>3 DEF RunnerInd
  <2>6. ASSUME SvcStop(h) \/ SvcUninstall(h) PROVE RunnerInd'
    <3>1. \/ job[h] \in {"stop", "deregister"} /\ step[h] = 1
          \/ job[h] = "deregister" /\ step[h] = 2 /\ svc'[h] = "none"
      BY <2>6, TeardownPlaces DEF SvcStop, SvcUninstall, TypeOK
    <3>2. svc'[h] # "none" => svc[h] # "none"
      BY <2>6 DEF SvcStop, SvcUninstall, TypeOK
    <3>3. HostInd(h)'
      BY <2>0, <2>6, <3>1, <3>2 DEF SvcStop, SvcUninstall, HostInd, Configurable, Moved
    <3>4. \A g \in Hosts \ {h} : HostInd(g)'
      BY <2>0, <2>6, OthersKeep DEF SvcStop, SvcUninstall, TypeOK
    <3> QED
      BY <2>0, <3>3, <3>4 DEF RunnerInd
  <2>7. CASE ReportOnline(h)
    BY <2>0, <2>7, OnlinePlace, QuietMoves DEF ReportOnline
  <2>8. ASSUME RemoveRunnerConfig(h) PROVE RunnerInd'
    <3>1. job[h] = "deregister" /\ step[h] = 3 /\ (dot'[h] => dot[h])
      BY <2>8, TeardownPlaces DEF RemoveRunnerConfig, TypeOK
    <3>2. HostInd(h)'
      BY <2>0, <2>8, <3>1 DEF RemoveRunnerConfig, HostInd, Configurable, Moved
    <3>3. \A g \in Hosts \ {h} : HostInd(g)'
      BY <2>0, <2>8, OthersKeep DEF RemoveRunnerConfig, TypeOK
    <3> QED
      BY <2>0, <3>2, <3>3 DEF RunnerInd
  <2>9. ASSUME DeleteRunner(h) PROVE RunnerInd'
    <3>1. job[h] = "deregister" /\ step[h] = 4 /\ held' # h
      BY <2>9, TeardownPlaces, HostsAssumption DEF DeleteRunner
    <3>2. HostInd(h)'
      BY <2>0, <2>9, <3>1 DEF DeleteRunner, HostInd, Configurable, Moved, machine
    <3>3. \A g \in Hosts \ {h} : HostInd(g)'
      BY <2>0, <2>9, OthersKeep DEF DeleteRunner, machine
    <3> QED
      BY <2>0, <3>2, <3>3 DEF RunnerInd
  <2>10. ASSUME RemoveDir(h) PROVE RunnerInd'
    <3>1. job[h] = "deregister" /\ step[h] = 5 /\ svc[h] = "none"
      BY <2>0, <2>10, TeardownPlaces DEF RemoveDir, HostInd
    <3>2. dot'[h] => h \in torn'
      BY <2>10 DEF RemoveDir, TypeOK
    <3>3. job'[h] \in {"none", "cut"}
      BY <2>10, <3>1, PlanIs DEF RemoveDir, Goes, Ends, Cuts, TypeOK
    <3>4. HostInd(h)'
      BY <2>10, <3>1, <3>2, <3>3 DEF RemoveDir, HostInd, Configurable
    <3>5. \A g \in Hosts \ {h} : HostInd(g)'
      <4>1. \A g \in Hosts \ {h} : dir'[g] = dir[g] /\ dot'[g] = dot[g] /\ svc'[g] = svc[g]
                                   /\ (g \in torn' <=> g \in torn)
        BY <2>10 DEF RemoveDir, TypeOK
      <4> QED
        BY <2>0, <2>10, <4>1, OthersKeep DEF RemoveDir
    <3> QED
      BY <2>0, <3>4, <3>5 DEF RunnerInd
  <2>11. CASE UninstallLegacy(h) \/ UninstallAgent(h) \/ InstallAgent(h)
    <3>1. UNCHANGED <<machine, held>>
      BY <2>11 DEF UninstallLegacy, UninstallAgent, InstallAgent, BootsOut, Writes
    <3>2. job[h] \in {"agent", "noagent"}
      BY <2>11, AgentPlaces DEF UninstallLegacy, UninstallAgent, InstallAgent
    <3> QED
      BY <2>0, <3>1, <3>2, QuietMoves
  <2> QED
    BY <1>2, <2>1, <2>2, <2>3, <2>4, <2>5, <2>6, <2>7, <2>8, <2>9, <2>10, <2>11 DEF Step
<1>3. ASSUME NEW h \in Hosts, Fails(h) PROVE RunnerInd'
  <2>1. Moved(h) /\ job'[h] \in {"none", "cut"}
    BY <1>0, <1>3, EndsMoves DEF Fails
  <2>2. TypeOK'
    BY <1>0, <1>3, <2>1, MovedTyped DEF Fails, TypeOK, machine, agents
  <2> QED
    BY <1>3, <2>1, <2>2, QuietMoves DEF Fails, machine
<1>4. ASSUME NEW h \in Hosts, Reboot(h) PROVE RunnerInd'
  <2>1. Moved(h) /\ job'[h] \in {"none", "cut"}
    BY <1>0, <1>4, RebootMoves
  <2>2. svc' \in [Hosts -> {"none", "stopped", "running"}] /\ loaded' \in [Macs -> SUBSET Labels]
    BY <1>0, <1>4 DEF Reboot, TypeOK
  <2>3. TypeOK'
    BY <1>0, <1>4, <2>1, <2>2, MovedTyped DEF Reboot, TypeOK
  <2>4. HostInd(h)'
    BY <1>0, <1>4, <2>1 DEF Reboot, RunnerInd, HostInd, Configurable, TypeOK
  <2>5. \A g \in Hosts \ {h} : HostInd(g)'
    BY <1>0, <1>4, <2>1, OthersKeep DEF Reboot, TypeOK
  <2> QED
    BY <2>3, <2>4, <2>5 DEF RunnerInd
<1>5. CASE AdminToken \/ RegistrationGoes
  <2>1. TypeOK'
    BY <1>0, <1>5 DEF AdminToken, RegistrationGoes, TypeOK, Idle, machine, agents
  <2> QED
    BY <1>0, <1>5, <2>1, HostsAssumption
    DEF AdminToken, RegistrationGoes, RunnerInd, HostInd, Configurable, machine, agents
<1>6. CASE UNCHANGED vars
  BY <1>6 DEF vars, machine, agents, RunnerInd, HostInd, Configurable, TypeOK, Idle
<1> QED
  BY <1>1, <1>2, <1>3, <1>4, <1>5, <1>6 DEF Next

LEMMA RunnerInvariant == Spec => []RunnerInd
BY InitRunnerInd, NextRunnerInd, PTL DEF Spec

(* The machines, the registration and every command's position have their types: a command never *)
(* runs past its last step (commands/start.ts, commands/stop.ts).                                *)
THEOREM RunnerTyped == Spec => []TypeOK
<1>1. RunnerInd => TypeOK
  BY DEF RunnerInd
<1> QED
  BY <1>1, RunnerInvariant, PTL

(* Whatever is cut, taken over or rebooted, on any number of hosts: an installed service has its *)
(* registration and its svc.sh, and the whole runner unless the removal of its directory was cut *)
(* (install.ts, launchd.ts, stop.ts).                                                            *)
THEOREM ServicesHaveRunners == Spec => []ServiceHasRunner
<1>1. RunnerInd => ServiceHasRunner
  <2> SUFFICES ASSUME RunnerInd, NEW h \in Hosts, svc[h] # "none"
               PROVE  dot[h] /\ HasSvc(h) /\ (dir[h] = Parts \/ h \in torn)
    BY DEF ServiceHasRunner
  <2>1. dot[h] /\ "svc.sh" \in dir[h] /\ Configurable(h) /\ dir[h] \in Dirs
    BY DEF RunnerInd, HostInd, TypeOK
  <2>2. CASE h \notin torn
    BY <2>1, <2>2 DEF HasSvc, Configurable, Dirs, Parts
  <2> QED
    BY <2>1, <2>2 DEF HasSvc
<1> QED
  BY <1>1, RunnerInvariant, PTL

(* No part of the directory is removed before the service is gone and the registration no longer *)
(* this host's, although other hosts may take the name over meanwhile (stop.ts).                 *)
THEOREM DeregisteredIsGone == Spec => DeregisteredMeansGone
<1>1. RunnerInd /\ [Next]_vars =>
        [\A h \in Hosts : ~(dir[h] \subseteq dir'[h]) => svc[h] = "none" /\ held # h]_vars
  <2> SUFFICES ASSUME RunnerInd, [Next]_vars, NEW h \in Hosts, ~(dir[h] \subseteq dir'[h])
               PROVE  svc[h] = "none" /\ held # h
    OBVIOUS
  <2>0. TypeOK /\ HostInd(h)
    BY DEF RunnerInd
  <2>1. PICK g \in Hosts : Installs(g) \/ RemoveDir(g)
    <3>1. ~ UNCHANGED dir
      OBVIOUS
    <3> QED
      BY <3>1
      DEF Next, vars, machine, Begins, Fails, Reboot, AdminToken, RegistrationGoes, Step,
          Configured, ConfigureOnGitHub, ConfigureOnDisk, SvcInstall, SvcStart, ReportOnline,
          SvcStop, SvcUninstall, RemoveRunnerConfig, DeleteRunner, UninstallLegacy,
          UninstallAgent, InstallAgent, BootsOut, Writes
  <2>2. CASE Installs(g)
    BY <2>0, <2>2 DEF Installs, TypeOK, Dirs
  <2>3. CASE RemoveDir(g)
    <3>1. g = h
      BY <2>0, <2>3 DEF RemoveDir, TypeOK
    <3> QED
      BY <2>0, <2>3, <3>1, TeardownPlaces DEF RemoveDir, HostInd
  <2> QED
    BY <2>1, <2>2, <2>3
<1> QED
  BY <1>1, RunnerInvariant, PTL DEF Spec, DeregisteredMeansGone

-----------------------------------------------------------------------------
(* The host scheduler's agent. *)

AgentOk(h) ==
  /\ plists[h] # Labels /\ (loaded[h] = Labels => "fallback" \in refused[h])
  /\ job[h] = "agent" /\ step[h] > 1 => "fallback" \notin loaded[h] \ refused[h]
  /\ job[h] = "agent" /\ step[h] > 2 => "fallback" \notin plists[h]

AgentInd == \A h \in Macs : AgentOk(h)

LEMMA InitAgentInd == Init => AgentInd
<1> SUFFICES ASSUME Init, NEW h \in Macs PROVE AgentOk(h)
  BY DEF AgentInd
<1>1. loaded = plists /\ job[h] = "none"
  BY HostsAssumption DEF Init
<1>2. plists[h] \in {{}, {"fallback"}}
  BY DEF Init
<1>3. plists[h] # Labels
  BY <1>2 DEF Labels
<1> QED
  BY <1>1, <1>3 DEF AgentOk

\* Moving on keeps it where the agents stay as they are, except past the two removals.
LEMMA AgentsKept ==
  ASSUME TypeOK, AgentInd, NEW h \in Hosts, Moved(h), UNCHANGED agents,
         job'[h] \notin {"none", "cut"} => ~(job[h] = "agent" /\ step[h] \in {1, 2})
  PROVE  AgentInd'
<1> SUFFICES ASSUME NEW g \in Macs PROVE AgentOk(g)'
  BY DEF AgentInd
<1>1. g \in Hosts /\ AgentOk(g)
  BY HostsAssumption DEF AgentInd
<1>2. CASE g = h
  BY <1>1, <1>2 DEF AgentOk, Moved, agents, TypeOK
<1>3. CASE g # h
  BY <1>1, <1>3 DEF AgentOk, Moved, agents
<1> QED
  BY <1>2, <1>3

LEMMA NextAgentInd == TypeOK /\ AgentInd /\ [Next]_vars => AgentInd'
<1> SUFFICES ASSUME TypeOK, AgentInd, [Next]_vars PROVE AgentInd'
  OBVIOUS
<1>1. ASSUME NEW h \in Hosts, NEW j \in Jobs, Begins(h, j) PROVE AgentInd'
  BY <1>1, HostsAssumption DEF Begins, AgentInd, AgentOk, TypeOK, agents
<1>2. ASSUME NEW h \in Hosts, Step(h) PROVE AgentInd'
  <2>0. Moved(h)
    BY <1>2, StepTyped
  <2>1. CASE \/ Installs(h) \/ Configured(h) \/ ConfigureOnGitHub(h) \/ ConfigureOnDisk(h)
             \/ SvcInstall(h) \/ SvcStart(h) \/ ReportOnline(h)
             \/ SvcStop(h) \/ SvcUninstall(h) \/ RemoveRunnerConfig(h) \/ DeleteRunner(h)
             \/ RemoveDir(h)
    <3>1. UNCHANGED agents /\ job[h] # "agent"
      BY <2>1, SetupPlaces, OnlinePlace, TeardownPlaces
      DEF Installs, Configured, ConfigureOnGitHub, ConfigureOnDisk, SvcInstall, SvcStart,
          ReportOnline, SvcStop, SvcUninstall, RemoveRunnerConfig, DeleteRunner, RemoveDir
    <3> QED
      BY <2>0, <3>1, AgentsKept
  <2>2. ASSUME UninstallLegacy(h) \/ UninstallAgent(h) \/ InstallAgent(h) PROVE AgentInd'
    <3>1. \A g \in Macs \ {h} : AgentOk(g)'
      BY <2>0, <2>2, HostsAssumption
      DEF UninstallLegacy, UninstallAgent, InstallAgent, BootsOut, Writes, AgentInd, AgentOk, Moved, TypeOK
    <3>2. ASSUME h \in Macs PROVE AgentOk(h)'
      <4>0. AgentOk(h)
        BY <3>2 DEF AgentInd
      <4>1. CASE UninstallLegacy(h)
        BY <2>0, <3>2, <4>0, <4>1, AgentPlaces
        DEF UninstallLegacy, BootsOut, Writes, AgentOk, Moved, TypeOK, Labels
      <4>2. CASE UninstallAgent(h)
        BY <2>0, <3>2, <4>0, <4>2, AgentPlaces
        DEF UninstallAgent, Writes, AgentOk, Moved, TypeOK, Labels
      <4>3. CASE InstallAgent(h)
        BY <2>0, <3>2, <4>0, <4>3, AgentPlaces
        DEF InstallAgent, BootsOut, Writes, AgentOk, Moved, TypeOK, Labels
      <4> QED
        BY <2>2, <4>1, <4>2, <4>3
    <3> QED
      BY <3>1, <3>2 DEF AgentInd
  <2> QED
    BY <1>2, <2>1, <2>2 DEF Step
<1>3. ASSUME NEW h \in Hosts, Fails(h) PROVE AgentInd'
  BY <1>3, EndsMoves, AgentsKept DEF Fails
<1>4. ASSUME NEW h \in Hosts, Reboot(h) PROVE AgentInd'
  <2>1. Moved(h) /\ job'[h] \in {"none", "cut"}
    BY <1>4, RebootMoves
  <2> QED
    BY <1>4, <2>1, HostsAssumption DEF Reboot, AgentInd, AgentOk, Moved, TypeOK
<1>5. CASE AdminToken \/ RegistrationGoes \/ UNCHANGED vars
  BY <1>5 DEF AdminToken, RegistrationGoes, vars, agents, AgentInd, AgentOk
<1> QED
  BY <1>1, <1>2, <1>3, <1>4, <1>5 DEF Next

(* However often the agent is installed, migrated from its old label and removed, wherever that  *)
(* is cut and whatever launchd refuses: the lists of both labels are never on disk together, and *)
(* both agents are loaded only where launchd kept the old one (host-scheduler.ts:198).           *)
THEOREM AgentsAreOne == Spec => []OneAgent
<1>1. AgentInd => OneAgent
  BY DEF AgentInd, AgentOk, OneAgent
<1> QED
  BY <1>1, RunnerTyped, InitAgentInd, NextAgentInd, PTL DEF Spec

=============================================================================
