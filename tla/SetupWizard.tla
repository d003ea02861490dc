----------------------------- MODULE SetupWizard -----------------------------
(***************************************************************************)
(* `fixowl init' (cli/src/commands/init.ts): the questions, the creation   *)
(* of the GitHub App through its manifest (cli/src/github/app-manifest.ts, *)
(* manifest-server.ts), the two files on the host, then validation,        *)
(* and provisioning.  The wizard may be cut at any question, and run       *)
(* again; `fixowl provision' may be run between.                           *)
(*                                                                         *)
(* Data: an App number stands for its id, its installation and its key.    *)
(* One repository; the answers about it are the next version of the        *)
(* configuration.                                                          *)
(***************************************************************************)
EXTENDS Provisioning

VARIABLES
  mem,        \* the wizard's memory: the secrets and the answers so far
  created,    \* Apps that exist on GitHub
  redirects,  \* GitHub's redirects on their way to a capture server
  code,       \* the App whose code the capture server took, 0 for none
  ours,       \* history: the Apps made from this capture's own page
  torn,       \* history: a wizard was cut between its two writes
  ahead       \* history: a key was saved after the configuration was last written

wizardVars == <<mem, created, redirects, code, ours>>
vars == <<pvars, wizardVars, torn, ahead>>

NoMem == [secrets |-> [key |-> 0, agent |-> FALSE, fallback |-> FALSE],
          app |-> 0, cloud |-> FALSE, fallback |-> FALSE, typed |-> FALSE]

\* The process is over: nothing is remembered.
Forget == mem' = NoMem /\ redirects' = {} /\ code' = 0 /\ ours' = {}

WizardSteps == {"choice", "tokens", "appmode", "capture", "exchange", "persist", "existing",
                "detect", "mode", "agentstep", "repos", "hosttoken", "writecfg", "writesec",
                "validate", "pause"}

TypeOK ==
  /\ ProvTypeOK
  /\ pc \in WizardSteps \cup ProvSteps \cup {"idle", "done"}
  /\ mem \in [secrets : Secrets, app : App, cloud : BOOLEAN, fallback : BOOLEAN, typed : BOOLEAN]
  /\ created \in App /\ code \in App /\ ours \subseteq App
  /\ redirects \subseteq [app : App, mine : BOOLEAN]
  /\ torn \in BOOLEAN /\ ahead \in BOOLEAN
  /\ pc \notin WizardSteps => mem = NoMem
  /\ redirects # {} => pc \in {"capture", "exchange"}

Init ==
  /\ ProvInit
  /\ pc = "idle" /\ mem = NoMem
  /\ created = 0 /\ redirects = {} /\ code = 0 /\ ours = {}
  /\ torn = FALSE /\ ahead = FALSE

-----------------------------------------------------------------------------
(* The questions. *)

\* The wizard goes on to step s; nothing outside its memory changes.
Ask(s) ==
  /\ pc' = s
  /\ UNCHANGED <<files, remote, provVars, abandoned,
                 created, redirects, code, ours, torn, ahead>>

\* An existing configuration is kept, answered anew, or left (Cancels).
InitCommand ==
  /\ pc = "idle"
  /\ mem' = [NoMem EXCEPT !.secrets = secrets]
  /\ Ask(IF config.there THEN "choice" ELSE "tokens")

KeepConfig == pc = "choice" /\ Ask("validate") /\ UNCHANGED mem
StartOver == pc = "choice" /\ Ask("tokens") /\ UNCHANGED mem

\* The admin token: asked for again only while GitHub rejects it and the person wants to try
\* again, so what is taken may be a rejected one.  The token is not part of the state: with a
\* bad one the calls of the provisioning fail, and each of them may fail here (Stops).
StepTokens == pc = "tokens" /\ Ask("appmode") /\ UNCHANGED mem

\* The loopback server listens.
ChooseBrowser == pc = "appmode" /\ Ask("capture") /\ UNCHANGED mem

\* The capture is over and its server closed: a late redirect finds nobody, and a later
\* capture has a state of its own.
LeaveCapture_StillListening(s) ==
  /\ code' = 0 /\ ours' = {}
  /\ pc' = s
  /\ UNCHANGED <<files, remote, provVars, abandoned, redirects, created, torn, ahead>>
LeaveCapture(s) ==
  /\ redirects' = {} /\ code' = 0 /\ ours' = {}
  /\ pc' = s
  /\ UNCHANGED <<files, remote, provVars, abandoned, created, torn, ahead>>

\* A person submits a manifest page: this capture's, or one left open elsewhere that some
\* other program answers on the same port.
CreateApp(mine) ==
  /\ pc = "capture" /\ created < MaxApps
  /\ created' = created + 1
  /\ ours' = IF mine THEN ours \cup {created + 1} ELSE ours
  /\ redirects' = redirects \cup {[app |-> created + 1, mine |-> mine]}
  /\ UNCHANGED <<files, remote, pc, provVars, abandoned, mem, code, torn, ahead>>

\* GET /callback: a redirect with another state is refused and the wait goes on.
Callback(r) ==
  /\ pc = "capture" /\ r \in redirects
  /\ redirects' = redirects \ {r}
  /\ IF r.mine THEN code' = r.app /\ pc' = "exchange"
               ELSE UNCHANGED <<code, pc>>
  /\ UNCHANGED <<files, remote, provVars, abandoned, mem, created, ours, torn, ahead>>

\* The wait for the browser ends after a quarter of an hour, back at the choice of modes.
CaptureTimesOut == pc = "capture" /\ LeaveCapture("appmode") /\ UNCHANGED mem

\* Headless: the page is opened elsewhere and its code is pasted.
PasteCode ==
  /\ pc = "appmode" /\ created < MaxApps
  /\ created' = created + 1
  /\ code' = created + 1 /\ ours' = {created + 1}
  /\ pc' = "exchange"
  /\ UNCHANGED <<files, remote, provVars, abandoned, mem, redirects, torn, ahead>>

\* The code is good for one exchange; when that fails the App is left without its key.
ExchangeManifestCode ==
  /\ pc = "exchange"
  /\ mem' = [mem EXCEPT !.secrets.key = code, !.app = code, !.typed = FALSE]
  /\ LeaveCapture("persist")
ExchangeFails == pc = "exchange" /\ LeaveCapture("appmode") /\ UNCHANGED mem

\* An existing App: its id and key are typed, the key saved before being offered again.
EnterExistingApp ==
  /\ pc \in {"appmode", "existing"}
  /\ \E a \in 1 .. created, k \in 1 .. created \cup ({mem.secrets.key} \ {0}) :
       mem' = [mem EXCEPT !.secrets.key = k, !.app = a, !.typed = TRUE]
  /\ Ask("persist")

\* The key is written to secrets.env at once: GitHub hands it out only once.
PersistKey_Later ==
  /\ pc = "persist"
  /\ ahead' = TRUE
  /\ pc' = "detect"
  /\ UNCHANGED <<files, remote, provVars, abandoned, wizardVars, torn>>
PersistKey ==
  /\ pc = "persist"
  /\ secrets' = mem.secrets
  /\ ahead' = TRUE
  /\ pc' = "detect"
  /\ UNCHANGED <<config, remote, provVars, abandoned, wizardVars, torn>>

\* The installation is found or typed and the App checked as the App itself: with a key of
\* another App, or an App not yet installed, the check fails.  An App that was made here goes on
\* all the same; one that was typed may be typed again.
VerifyApp == mem.app = mem.secrets.key
DetectAndVerify ==
  /\ pc = "detect"
  /\ UNCHANGED mem
  /\ \/ Ask("agentstep")
     \/ mem.typed /\ Ask("existing")

StepAgent ==
  /\ pc = "agentstep"
  /\ mem' = [mem EXCEPT !.secrets.agent = TRUE]
  /\ Ask("mode")

StepRunnerMode ==
  /\ pc = "mode"
  /\ \E cloud \in BOOLEAN : mem' = [mem EXCEPT !.cloud = cloud]
  /\ Ask("repos")

\* The repository and its settings; its selector labels may be made at once.  GitHub's runner
\* goes with GitHub's cron, so nothing on this host dispatches.
StepRepos ==
  /\ pc = "repos"
  /\ pc' \in (IF mem.cloud THEN {"writecfg"} ELSE {"writecfg", "hosttoken"})
  /\ UNCHANGED <<files, remote, provVars, abandoned, wizardVars, torn, ahead>>

\* The dispatch token is stored, or left for later; the configuration then does not name it.
StepHostSchedulerToken ==
  /\ pc = "hosttoken"
  /\ \E now \in BOOLEAN :
       mem' = [mem EXCEPT !.fallback = now, !.secrets.fallback = @ \/ now]
  /\ Ask("writecfg")

-----------------------------------------------------------------------------
(* The files. *)

WriteConfig ==
  /\ pc = "writecfg" /\ config.want < MaxWant
  /\ config' = [there |-> TRUE, app |-> mem.app, want |-> config.want + 1,
                fallback |-> mem.fallback, paired |-> VerifyApp]
  /\ ahead' = FALSE
  /\ pc' = "writesec"
  /\ UNCHANGED <<secrets, remote, provVars, abandoned, wizardVars, torn>>

WriteSecrets ==
  /\ pc = "writesec"
  /\ secrets' = mem.secrets
  /\ torn' = FALSE
  /\ pc' = "validate"
  /\ UNCHANGED <<config, remote, provVars, abandoned, wizardVars, ahead>>

\* The answers are no longer needed and the files are read back; a reference without its value ends the wizard, and so does a failed
\* check: the App's own identity, its installation, the agent's secret, or a call that fails.
Validate_AnyApp ==
  /\ pc = "validate"
  /\ Loads /\ secrets.agent
  /\ BeginProvision("wizard") /\ Forget
  /\ UNCHANGED <<files, remote, abandoned, created, torn, ahead>>
Validate ==
  /\ pc = "validate"
  /\ Loads /\ secrets.agent
  /\ config.app = secrets.key
  /\ BeginProvision("wizard") /\ Forget
  /\ UNCHANGED <<files, remote, abandoned, created, torn, ahead>>

\* The end of a run: the wizard waits when it has a workflow pull request to show.
ProvisionEnds ==
  /\ pc = "done"
  /\ pc' = IF by = "wizard" /\ "workflow" \in prs THEN "pause" ELSE "idle"
  /\ by' = "command" /\ prs' = {}
  /\ UNCHANGED <<files, remote, abandoned, wizardVars, torn, ahead>>

\* Enter is taken as the word that it was merged; the offer to start the runner follows.
PressEnter == pc = "pause" /\ Ask("idle") /\ UNCHANGED mem

\* Ctrl-C, a kill, "Cancel", or a check that fails: memory is gone, the files stay.
WizardStops ==
  /\ pc \in WizardSteps
  /\ torn' = (torn \/ pc = "writesec")
  /\ pc' = "idle"
  /\ Forget
  /\ UNCHANGED <<files, remote, provVars, abandoned, created, ahead>>

-----------------------------------------------------------------------------

Wizard ==
  \/ InitCommand \/ KeepConfig \/ StartOver \/ StepTokens
  \/ ChooseBrowser \/ CaptureTimesOut \/ PasteCode
  \/ \E mine \in BOOLEAN : CreateApp(mine)
  \/ \E r \in redirects : Callback(r)
  \/ ExchangeManifestCode \/ ExchangeFails \/ EnterExistingApp \/ PersistKey
  \/ DetectAndVerify \/ StepAgent \/ StepRunnerMode \/ StepRepos \/ StepHostSchedulerToken
  \/ WriteConfig \/ WriteSecrets \/ Validate \/ ProvisionEnds \/ PressEnter
  \/ WizardStops

Provision ==
  /\ ProvisionCommand \/ ProvisionStep \/ Stops
  /\ UNCHANGED <<wizardVars, torn, ahead>>

OnGitHub == People /\ UNCHANGED <<wizardVars, torn, ahead>>

Next == Wizard \/ Provision \/ OnGitHub

Spec == Init /\ [][Next]_vars

-----------------------------------------------------------------------------
(* Properties. *)

\* The App a configuration names has its key on disk, whenever the wizard is cut: unless its
\* check had failed, or a later key was saved by a wizard that did not get to the configuration.
KeyBesideConfig ==
  config.there /\ config.paired /\ ~ahead => secrets.key = config.app

\* What the wizard wrote can be read back, unless it was cut between its two writes.
OwnOutputLoads ==
  config.there /\ ~torn /\ pc # "writesec" => Loads

\* The configuration, the secrets it refers to and the App it names fit, wherever a wizard was cut.
FilesFit == KeyBesideConfig /\ OwnOutputLoads

\* The wizard never leaves a repository with the id of one App and the key of another; the
\* command alone would, since only the wizard validates first.
WizardSealsOneApp ==
  pc = "done" /\ by = "wizard" => \A m, n \in Trio : sealed[m] = sealed[n]

\* Only an App made from the page of this very capture is taken over.
OwnAppOnly == pc = "exchange" => code \in ours

\* The App that is taken over and sealed into the repository is the person's own, and one App.
AppIsOurs == WizardSealsOneApp /\ OwnAppOnly

=============================================================================
