--------------------------- MODULE RunnerLifecycle ---------------------------
(***************************************************************************)
(* The self-hosted runner of one repository on several hosts               *)
(* (cli/src/runner/install.ts, register.ts, launchd.ts and the commands    *)
(* provision, start, stop), against the one registration GitHub keeps      *)
(* under the runner's name, which does not hold the host's; and the        *)
(* launchd agent of the host scheduler (host-scheduler-launchd.ts).        *)
(*                                                                         *)
(* A command is a list of steps on a host, one command at a time per host; *)
(* any step may fail or be cut, which ends the command and undoes nothing; *)
(* a step that cannot go on waits for that end.  People revoke and restore *)
(* the admin token, delete the registration on GitHub, and reboot.         *)
(***************************************************************************)
EXTENDS Naturals, Sequences

CONSTANTS
  Hosts,    \* the machines that share the configuration
  Macs,     \* those with launchd: the host scheduler's agent is macOS-only
  NoHost,
  Guests    \* bound: machines on which only provision runs, which takes the name over

ASSUME HostsAssumption ==
  Macs \subseteq Hosts /\ NoHost \notin Hosts /\ Guests \subseteq Hosts

VARIABLES
  dir,      \* what the runner's directory on each host holds
  dot,      \* its `.runner' file, which makes it "registered" here
  svc,      \* the platform service
  held,     \* the host whose credentials GitHub's registration accepts
  admin,    \* the admin token is configured and good
  plists,   \* the agents' property lists on disk, by label
  loaded,   \* the agents launchd runs, by label
  job,      \* the command that runs on each host, or how the last one ended
  step,     \* its next step
  torn,     \* history: the hosts where removing the directory was cut
  refused   \* history: the labels launchd kept loaded when asked to boot them out

machine == <<dir, dot, svc, torn>>
agents == <<plists, loaded, refused>>
vars == <<machine, held, admin, agents, job, step>>

\* The directory itself, the two scripts that are called, and the binaries behind them.
Parts == {"dir", "config.sh", "svc.sh", "bin"}
Dirs == {parts \in SUBSET Parts : parts # {} => "dir" \in parts}
Labels == {"host-scheduler", "fallback"}

\* isRunnerInstalled looks for config.sh only, and svc.sh is called without looking.
IsRunnerInstalled(h) == "config.sh" \in dir[h]
HasSvc(h) == "svc.sh" \in dir[h]
CanConfigure(h) == {"config.sh", "bin"} \subseteq dir[h]

Plan_ConfigFirst ==
  [provision  |-> <<"install", "github", "disk">>,
   register   |-> <<"install", "github", "disk", "svcinstall", "svcstart", "online">>,
   start      |-> <<"install", "configured", "svcinstall", "svcstart", "online">>,
   stop       |-> <<"svcstop">>,
   deregister |-> <<"remove", "svcstop", "svcuninstall", "delete", "rmdir">>,
   agent      |-> <<"legacyout", "legacyrm", "plist", "out", "bootstrap">>,
   noagent    |-> <<"out", "rm", "legacyout", "legacyrm">>]
Plan_LegacyLast ==
  [provision  |-> <<"install", "github", "disk">>,
   register   |-> <<"install", "github", "disk", "svcinstall", "svcstart", "online">>,
   start      |-> <<"install", "configured", "svcinstall", "svcstart", "online">>,
   stop       |-> <<"svcstop">>,
   deregister |-> <<"svcstop", "svcuninstall", "remove", "delete", "rmdir">>,
   agent      |-> <<"plist", "out", "bootstrap", "legacyout", "legacyrm">>,
   noagent    |-> <<"out", "rm", "legacyout", "legacyrm">>]

\* The steps of each command, in the code's order.
Plan ==
  [provision  |-> <<"install", "github", "disk">>,
   register   |-> <<"install", "github", "disk", "svcinstall", "svcstart", "online">>,
   start      |-> <<"install", "configured", "svcinstall", "svcstart", "online">>,
   stop       |-> <<"svcstop">>,
   deregister |-> <<"svcstop", "svcuninstall", "remove", "delete", "rmdir">>,
   agent      |-> <<"legacyout", "legacyrm", "plist", "out", "bootstrap">>,
   noagent    |-> <<"out", "rm", "legacyout", "legacyrm">>]

Jobs == DOMAIN Plan
Idle(h) == job[h] \in {"none", "cut"}
At(h, s) == ~Idle(h) /\ Plan[job[h]][step[h]] = s

TypeOK ==
  /\ dir \in [Hosts -> Dirs] /\ dot \in [Hosts -> BOOLEAN]
  /\ svc \in [Hosts -> {"none", "stopped", "running"}]
  /\ held \in Hosts \cup {NoHost} /\ admin \in BOOLEAN
  /\ plists \in [Macs -> SUBSET Labels] /\ loaded \in [Macs -> SUBSET Labels]
  /\ torn \subseteq Hosts /\ refused \in [Macs -> SUBSET Labels]
  /\ job \in [Hosts -> Jobs \cup {"none", "cut"}]
  /\ step \in [Hosts -> Nat]
  /\ \A h \in Hosts : IF Idle(h) THEN step[h] = 0 ELSE step[h] \in 1 .. Len(Plan[job[h]])

\* A Mac set up before the rename has the agent under its old label.
Init ==
  /\ dir = [h \in Hosts |-> {}] /\ dot = [h \in Hosts |-> FALSE]
  /\ svc = [h \in Hosts |-> "none"] /\ torn = {}
  /\ held = NoHost /\ admin = TRUE
  /\ plists \in [Macs -> {{}, {"fallback"}}] /\ loaded = plists
  /\ refused = [m \in Macs |-> {}]
  /\ job = [h \in Hosts |-> "none"] /\ step = [h \in Hosts |-> 0]

-----------------------------------------------------------------------------
(* Commands and their steps. *)

Ends(h) == job' = [job EXCEPT ![h] = "none"] /\ step' = [step EXCEPT ![h] = 0]
Cuts(h) == job' = [job EXCEPT ![h] = "cut"] /\ step' = [step EXCEPT ![h] = 0]
Goes(h) == IF step[h] = Len(Plan[job[h]])
             THEN Ends(h)
             ELSE step' = [step EXCEPT ![h] = @ + 1] /\ UNCHANGED job

\* The setup commands ask for the admin token first; stop does nothing without a directory.
Begins(h, j) ==
  /\ Idle(h)
  /\ j \in {"provision", "register"} => admin
  /\ j \in {"stop", "deregister"} => dir[h] # {}
  /\ j \in {"agent", "noagent"} => h \in Macs
  /\ h \in Guests => j = "provision" /\ ~dot[h]
  /\ job' = [job EXCEPT ![h] = j] /\ step' = [step EXCEPT ![h] = 1]
  /\ UNCHANGED <<machine, held, admin, agents>>

\* A failure or a kill, between any two steps.
Fails(h) ==
  /\ ~Idle(h)
  /\ Cuts(h)
  /\ UNCHANGED <<machine, held, admin, agents>>

\* ensureRunnerInstalled: download, check the sum, extract; config.sh there means done.
Installs(h) ==
  /\ At(h, "install")
  /\ IF IsRunnerInstalled(h)
       THEN Goes(h) /\ UNCHANGED <<dir, torn>>
       ELSE \/ /\ dir' = [dir EXCEPT ![h] = Parts] /\ torn' = torn \ {h}
               /\ Goes(h)
            \/ \E parts \in Dirs \ {{}} :
                 /\ dir' = [dir EXCEPT ![h] = @ \cup parts] /\ UNCHANGED torn
                 /\ Cuts(h)
  /\ UNCHANGED <<dot, svc, held, admin, agents>>

\* A routine start goes on only with a runner registered here.
Configured(h) ==
  /\ At(h, "configured")
  /\ IF dot[h] THEN Goes(h) ELSE Ends(h)
  /\ UNCHANGED <<machine, held, admin, agents>>

\* config.sh --replace takes the name on GitHub over, whoever holds it, then writes `.runner'.
ConfigureOnGitHub(h) ==
  /\ At(h, "github")
  /\ \/ /\ ~dot[h] /\ admin /\ CanConfigure(h)
        /\ held' = h
     \/ dot[h] /\ UNCHANGED held
  /\ Goes(h)
  /\ UNCHANGED <<machine, admin, agents>>
ConfigureOnDisk(h) ==
  /\ At(h, "disk")
  /\ dot' = [dot EXCEPT ![h] = TRUE]
  /\ Goes(h)
  /\ UNCHANGED <<dir, svc, torn, held, admin, agents>>

SvcInstall(h) ==
  /\ At(h, "svcinstall") /\ HasSvc(h)
  /\ svc' = [svc EXCEPT ![h] = IF @ = "none" THEN "stopped" ELSE @]
  /\ Goes(h)
  /\ UNCHANGED <<dir, dot, torn, held, admin, agents>>
SvcStart(h) ==
  /\ At(h, "svcstart") /\ HasSvc(h)
  /\ svc' = [svc EXCEPT ![h] = "running"]
  /\ Goes(h)
  /\ UNCHANGED <<dir, dot, torn, held, admin, agents>>

\* reportOnlineStatus only says what it finds, and says so when it cannot look.
ReportOnline_Fatal(h) ==
  /\ At(h, "online") /\ admin
  /\ Goes(h)
  /\ UNCHANGED <<machine, held, admin, agents>>
ReportOnline(h) ==
  /\ At(h, "online")
  /\ Goes(h)
  /\ UNCHANGED <<machine, held, admin, agents>>

\* svc.sh is asked for the state first: without the script no stop gets any further.
SvcStop(h) ==
  /\ At(h, "svcstop") /\ HasSvc(h)
  /\ svc' = [svc EXCEPT ![h] = IF @ = "running" THEN "stopped" ELSE @]
  /\ Goes(h)
  /\ UNCHANGED <<dir, dot, torn, held, admin, agents>>
SvcUninstall(h) ==
  /\ At(h, "svcuninstall") /\ HasSvc(h)
  /\ svc' = [svc EXCEPT ![h] = "none"]
  /\ Goes(h)
  /\ UNCHANGED <<dir, dot, torn, held, admin, agents>>

\* config.sh remove needs a token and a registration of its own; its failure is only reported.
RemoveRunnerConfig_Fatal(h) ==
  /\ At(h, "remove")
  /\ \/ /\ dot[h] /\ admin /\ held = h /\ CanConfigure(h)
        /\ dot' = [dot EXCEPT ![h] = FALSE] /\ held' = NoHost
     \/ ~dot[h] /\ UNCHANGED <<dot, held>>
  /\ Goes(h)
  /\ UNCHANGED <<dir, svc, torn, admin, agents>>
RemoveRunnerConfig(h) ==
  /\ At(h, "remove")
  /\ \/ /\ dot[h] /\ admin /\ held = h /\ CanConfigure(h)
        /\ dot' = [dot EXCEPT ![h] = FALSE] /\ held' = NoHost
     \/ UNCHANGED <<dot, held>>
  /\ Goes(h)
  /\ UNCHANGED <<dir, svc, torn, admin, agents>>

\* Whatever GitHub has under the runner's name is deleted; this one needs the admin token.
DeleteRunner_BestEffort(h) ==
  /\ At(h, "delete")
  /\ held' = IF admin THEN NoHost ELSE held
  /\ Goes(h)
  /\ UNCHANGED <<machine, admin, agents>>
DeleteRunner(h) ==
  /\ At(h, "delete") /\ admin
  /\ held' = NoHost
  /\ Goes(h)
  /\ UNCHANGED <<machine, admin, agents>>

\* The recursive removal, which may be cut with any of the entries left.
RemoveDir(h) ==
  /\ At(h, "rmdir")
  /\ \/ /\ dir' = [dir EXCEPT ![h] = {}] /\ dot' = [dot EXCEPT ![h] = FALSE]
        /\ torn' = torn \ {h}
        /\ Goes(h)
     \/ /\ \E left \in Dirs \ {{}}, runner \in {dot[h], FALSE} :
             /\ left \subseteq dir[h]
             /\ dir' = [dir EXCEPT ![h] = left] /\ dot' = [dot EXCEPT ![h] = runner]
        /\ torn' = torn \cup {h}
        /\ Cuts(h)
  /\ UNCHANGED <<svc, held, admin, agents>>

-----------------------------------------------------------------------------
(* The host scheduler's agent. *)

\* launchctl bootout: launchd may refuse, which the code takes for "not loaded" and goes on.
BootsOut(h, label) ==
  /\ \/ /\ loaded' = [loaded EXCEPT ![h] = @ \ {label}]
        /\ refused' = [refused EXCEPT ![h] = @ \ {label}]
     \/ /\ label \in loaded[h]
        /\ refused' = [refused EXCEPT ![h] = @ \cup {label}]
        /\ UNCHANGED loaded
  /\ Goes(h)
  /\ UNCHANGED <<machine, held, admin, plists>>

Writes(h, labels) ==
  /\ plists' = [plists EXCEPT ![h] = labels]
  /\ Goes(h)
  /\ UNCHANGED <<machine, held, admin, loaded, refused>>

\* The agent is booted out; its list on disk is another step.
UninstallLegacy(h) ==
  \/ At(h, "legacyout") /\ BootsOut(h, "fallback")
  \/ At(h, "legacyrm") /\ Writes(h, plists[h] \ {"fallback"})
UninstallAgent(h) == At(h, "rm") /\ Writes(h, plists[h] \ {"host-scheduler"})

\* The list is written, the old agent booted out, the new one bootstrapped, which fails over
\* one of its label that is still loaded.
InstallAgent(h) ==
  \/ At(h, "plist") /\ Writes(h, plists[h] \cup {"host-scheduler"})
  \/ At(h, "out") /\ BootsOut(h, "host-scheduler")
  \/ /\ At(h, "bootstrap")
     /\ IF "host-scheduler" \in loaded[h]
          THEN Cuts(h) /\ UNCHANGED loaded
          ELSE loaded' = [loaded EXCEPT ![h] = @ \cup {"host-scheduler"}] /\ Goes(h)
     /\ UNCHANGED <<machine, held, admin, plists, refused>>

-----------------------------------------------------------------------------
(* People, GitHub and the machines. *)

\* The documented advice: revoke the admin token after setup, restore it to set up again.
AdminToken ==
  /\ admin' = ~admin
  /\ UNCHANGED <<machine, held, agents, job, step>>

\* A person deletes the runner on GitHub, or GitHub one that was long offline.
RegistrationGoes ==
  /\ held # NoHost
  /\ held' = NoHost
  /\ UNCHANGED <<machine, admin, agents, job, step>>

\* launchd runs every list it finds and starts every installed service.
Reboot(h) ==
  /\ IF Idle(h) THEN UNCHANGED <<job, step>> ELSE Cuts(h)
  /\ svc' = [svc EXCEPT ![h] = IF @ = "none" THEN "none" ELSE "running"]
  /\ loaded' = [m \in Macs |-> IF m = h THEN plists[m] ELSE loaded[m]]
  /\ refused' = [m \in Macs |-> IF m = h THEN {} ELSE refused[m]]
  /\ UNCHANGED <<dir, dot, torn, held, admin, plists>>

Step(h) ==
  \/ Installs(h) \/ Configured(h) \/ ConfigureOnGitHub(h) \/ ConfigureOnDisk(h)
  \/ SvcInstall(h) \/ SvcStart(h) \/ ReportOnline(h)
  \/ SvcStop(h) \/ SvcUninstall(h) \/ RemoveRunnerConfig(h) \/ DeleteRunner(h) \/ RemoveDir(h)
  \/ UninstallLegacy(h) \/ UninstallAgent(h) \/ InstallAgent(h)

Next ==
  \/ \E h \in Hosts : (\E j \in Jobs : Begins(h, j)) \/ Step(h) \/ Fails(h) \/ Reboot(h)
  \/ AdminToken \/ RegistrationGoes

Spec == Init /\ [][Next]_vars

\* A command that can go on does so, or ends.
FairSpec == Spec /\ \A h \in Hosts \ Guests : WF_vars(Step(h))

-----------------------------------------------------------------------------
(* Properties. *)

\* Whatever was cut: a service on a host has its registration and its svc.sh under it, so that
\* stop and deregister reach it, and the whole runner, unless what was cut was the removal of the
\* directory, which may leave config.sh and `.runner' behind without the binaries.
ServiceHasRunner ==
  \A h \in Hosts : svc[h] # "none" => dot[h] /\ HasSvc(h) /\ (dir[h] = Parts \/ h \in torn)

\* The old and the new agent would never both run after a reboot, and run side by side before it
\* only where launchd refused to boot the old one out: each would dispatch the night.
OneAgent ==
  \A m \in Macs : plists[m] # Labels /\ (loaded[m] = Labels => "fallback" \in refused[m])

\* A deregistration removes no part of the directory before the service is uninstalled and the
\* registration no longer this host's, whoever took the name over meanwhile.
DeregisteredMeansGone ==
  [][\A h \in Hosts : ~(dir[h] \subseteq dir'[h]) => svc[h] = "none" /\ held # h]_vars

\* A routine start of a runner registered here gets its service to run and ends, with or without
\* the admin token and whoever holds the registration, unless it is cut.
StartGetsThere ==
  \A h \in Hosts \ Guests :
    job[h] = "start" /\ dot[h] /\ dir[h] = Parts
      ~> job[h] = "cut" \/ (job[h] = "none" /\ svc[h] = "running")

\* A deregistration gets to its end from wherever an earlier one was cut and whatever GitHub has
\* made of the registration since, if svc.sh is there and the admin token good.
DeregisterClears ==
  \A h \in Hosts \ Guests :
    job[h] = "deregister" /\ HasSvc(h) ~> dir[h] = {} \/ job[h] = "cut" \/ ~admin
=============================================================================
