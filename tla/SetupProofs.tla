----------------------------- MODULE SetupProofs -----------------------------
(***************************************************************************)
(* Proofs about SetupWizard and Provisioning, for all numbers of Apps and  *)
(* of versions of the configuration, and about ConfigEdit, for all sets of *)
(* repositories and any number of edits.                                   *)
(***************************************************************************)
EXTENDS SetupWizard, ConfigEdit, TLAPS

(* The steps that hold the answers in memory, those at which the key is on *)
(* the host, and those at which the wizard knows one.                      *)
Questions == WizardSteps \ {"validate", "pause"}
KeySaved == {"detect", "existing", "agentstep", "mode", "repos", "hosttoken",
             "writecfg", "writesec"}
KeyKnown == KeySaved \cup {"persist"}

(* The key of the wizard's memory is the key on the host once it is saved. *)
KeyOnHost == pc \in KeySaved => mem.secrets.key = secrets.key

(* What the wizard remembers is never less than what is on the host.       *)
Memory ==
  /\ pc = "pause" => mem = NoMem
  /\ pc \in Questions /\ secrets.fallback => mem.secrets.fallback
  /\ mem.fallback => mem.secrets.fallback
  /\ pc \in KeyKnown => mem.secrets.key # 0
  /\ pc = "writesec" /\ config.fallback => mem.fallback

(* The redirects of this capture's page are of its Apps.                   *)
Capturing ==
  /\ \A r \in redirects : r.app # 0 /\ (r.mine => r.app \in ours)
  /\ pc = "exchange" => code # 0 /\ code \in ours

(* A text on the workflow branch is proposed, except between the write and *)
(* the proposal, or somebody abandoned it.                                 *)
Branches ==
  /\ wf.pr => wf.there
  /\ pc # "propose" /\ Unproposed => abandoned

(* After the upsert the branch holds the wanted text; after the workflow   *)
(* is surfaced or proposed, it is merged, reported or abandoned.           *)
FileSteps == {"files", "filespr"}
EndSteps == FileSteps \cup {"starter", "done"}

Told ==
  /\ pc = "surface" /\ wf.there => wf.holds = config.want
  /\ pc = "surface" => wf.pr \/ main.wf = config.want \/ abandoned
  /\ pc \in EndSteps => "workflow" \in prs \/ main.wf = config.want \/ abandoned
  /\ pc \in EndSteps /\ wf.pr => "workflow" \in prs
  /\ pc \in FileSteps => ~st.pr

(* The trio is sealed in order, and the wizard seals the App whose key it  *)
(* found on the host.                                                      *)
AfterKey == (ProvSteps \ (Trio \cup {"labels"})) \cup {"done"}
AfterInstallation == AfterKey \cup {"key"}
AfterId == AfterInstallation \cup {"installation"}

Sealing ==
  /\ pc \in ProvSteps \cup {"done"} /\ by = "wizard" => config.app = secrets.key
  /\ pc \in AfterId => sealed["id"] = config.app
  /\ pc \in AfterInstallation => sealed["installation"] = config.app
  /\ pc \in AfterKey => sealed["key"] = secrets.key

(* The inductive invariant.                                                *)
SetupInd ==
  /\ TypeOK
  /\ KeyOnHost
  /\ Memory
  /\ Capturing
  /\ Branches
  /\ Told
  /\ Sealing
  /\ FilesFit
  /\ NothingDropped

-----------------------------------------------------------------------------

(* The answers in memory. *)
Memories == [secrets : Secrets, app : App, cloud : BOOLEAN, fallback : BOOLEAN, typed : BOOLEAN]

LEMMA NoMemTyped == NoMem \in Memories
<1>1. 0 \in App
  BY BoundsAssumption DEF App
<1> SUFFICES ASSUME NEW f \in BOOLEAN, f = FALSE
             PROVE  [secrets |-> [key |-> 0, agent |-> f, fallback |-> f],
                     app |-> 0, cloud |-> f, fallback |-> f, typed |-> f] \in Memories
  BY Zenon DEF NoMem
<1> QED
  BY <1>1 DEF Memories, Secrets

(* The four changes of it, by name. *)
Keyed(m, k, a, t) == [m EXCEPT !.secrets.key = k, !.app = a, !.typed = t]
AgentGiven(m, t)  == [m EXCEPT !.secrets.agent = t]
ModeChosen(m, t)  == [m EXCEPT !.cloud = t]
Stored(m, t, u)   == [m EXCEPT !.fallback = t, !.secrets.fallback = u]

LEMMA KeyedIs ==
  ASSUME NEW m \in Memories, NEW k \in App, NEW a \in App, NEW t \in BOOLEAN
  PROVE  /\ Keyed(m, k, a, t) \in Memories
         /\ Keyed(m, k, a, t).secrets.key = k
         /\ m.secrets.fallback => Keyed(m, k, a, t).secrets.fallback
         /\ Keyed(m, k, a, t).fallback => m.fallback
BY DEF Memories, Secrets, Keyed

LEMMA AgentGivenIs ==
  ASSUME NEW m \in Memories, NEW t \in BOOLEAN
  PROVE  /\ AgentGiven(m, t) \in Memories
         /\ AgentGiven(m, t).secrets.key = m.secrets.key
         /\ m.secrets.fallback => AgentGiven(m, t).secrets.fallback
         /\ AgentGiven(m, t).fallback => m.fallback
BY DEF Memories, Secrets, AgentGiven

LEMMA ModeChosenIs ==
  ASSUME NEW m \in Memories, NEW t \in BOOLEAN
  PROVE  /\ ModeChosen(m, t) \in Memories
         /\ ModeChosen(m, t).secrets = m.secrets
         /\ ModeChosen(m, t).fallback => m.fallback
BY DEF Memories, Secrets, ModeChosen

LEMMA StoredIs ==
  ASSUME NEW m \in Memories, NEW t \in BOOLEAN, NEW u \in BOOLEAN
  PROVE  /\ Stored(m, t, u) \in Memories
         /\ Stored(m, t, u).secrets.key = m.secrets.key
         /\ Stored(m, t, u).secrets.fallback <=> u
         /\ Stored(m, t, u).fallback <=> t
BY DEF Memories, Secrets, Stored

(* What a step makes of the memory. *)
MemoryStep ==
  \/ mem' = mem
  \/ pc = "idle" /\ mem' = [NoMem EXCEPT !.secrets = secrets]
  \/ mem' = NoMem
  \/ \E k, a \in App, t \in BOOLEAN : k # 0 /\ mem' = Keyed(mem, k, a, t)
  \/ \E t \in BOOLEAN : mem' = AgentGiven(mem, t) \/ mem' = ModeChosen(mem, t)
  \/ \E t, u \in BOOLEAN : (u <=> (mem.secrets.fallback \/ t)) /\ mem' = Stored(mem, t, u)

(* The secret that comes after one of the trio.                            *)
LEMMA SealIs ==
  ASSUME NEW i \in 1 .. Len(SealSteps), SealRuntimeCredential(i)
  PROVE  /\ UNCHANGED <<files, main, wf, st, provVars, abandoned>>
         /\ \/ pc = "id" /\ pc' = "installation" /\ sealed' = [sealed EXCEPT !["id"] = config.app]
            \/ /\ pc = "installation" /\ pc' = "key"
               /\ sealed' = [sealed EXCEPT !["installation"] = config.app]
            \/ pc = "key" /\ pc' = "agent" /\ sealed' = [sealed EXCEPT !["key"] = secrets.key]
<1>1. i \in 1 .. 3 /\ Len(SealSteps) = 3
  BY DEF SealSteps
<1>2. SealSteps[1] = "id" /\ SealSteps[2] = "installation" /\ SealSteps[3] = "key"
  BY DEF SealSteps
<1>3. CASE i = 1
  <2>1. SealSteps[i] = "id" /\ SealSteps[i + 1] = "installation" /\ i # Len(SealSteps)
    BY <1>1, <1>2, <1>3
  <2> QED
    BY <2>1 DEF SealRuntimeCredential
<1>4. CASE i = 2
  <2>1. SealSteps[i] = "installation" /\ SealSteps[i + 1] = "key" /\ i # Len(SealSteps)
    BY <1>1, <1>2, <1>4
  <2> QED
    BY <2>1 DEF SealRuntimeCredential
<1>5. CASE i = 3
  BY <1>1, <1>2, <1>5 DEF SealRuntimeCredential
<1> QED
  BY <1>1, <1>3, <1>4, <1>5 DEF SealRuntimeCredential


LEMMA WfTyped ==
  ASSUME NEW t \in BOOLEAN, NEW p \in BOOLEAN, NEW v \in Version
  PROVE  [there |-> t, holds |-> v, pr |-> p] \in WfBranch
BY DEF WfBranch

LEMMA StTyped ==
  ASSUME NEW t \in BOOLEAN, NEW p \in BOOLEAN, NEW s \in SUBSET Starter
  PROVE  [there |-> t, holds |-> s, pr |-> p] \in StBranch
BY DEF StBranch

LEMMA ChangedTyped ==
  /\ \A b \in WfBranch, p \in BOOLEAN, v \in Version :
        [b EXCEPT !.pr = p] \in WfBranch /\ [b EXCEPT !.holds = v] \in WfBranch
  /\ \A b \in StBranch, p \in BOOLEAN, s \in SUBSET Starter :
        [b EXCEPT !.pr = p] \in StBranch /\ [b EXCEPT !.holds = s] \in StBranch
BY DEF WfBranch, StBranch

LEMMA ConfigTyped ==
  ASSUME NEW t \in BOOLEAN, NEW f \in BOOLEAN, NEW p \in BOOLEAN,
         NEW a \in App, NEW v \in Version
  PROVE  [there |-> t, app |-> a, want |-> v, fallback |-> f, paired |-> p] \in Config
BY DEF Config

LEMMA NoBranchTyped == NoBranch \in WfBranch /\ NoFiles \in StBranch /\ 0 \in App /\ 0 \in Version
<1>1. 0 \in App /\ 0 \in Version
  BY BoundsAssumption DEF App, Version
<1> QED
  BY <1>1, WfTyped, StTyped, Zenon DEF NoBranch, NoFiles

LEMMA InitTypes == Init => TypeOK
<1> SUFFICES ASSUME Init PROVE TypeOK
  OBVIOUS
<1>1. config \in Config
  BY NoBranchTyped, ConfigTyped, Zenon DEF Init, ProvInit
<1>2. secrets \in Secrets
  <2>1. NoMem.secrets \in Secrets
    BY NoMemTyped DEF Memories
  <2> QED
    BY <2>1 DEF Init, ProvInit, NoMem
<1>3. mem \in Memories /\ wf \in WfBranch /\ st \in StBranch
  BY NoMemTyped, NoBranchTyped DEF Init, ProvInit
<1>4. /\ sealed \in [Trio -> App] /\ main \in [wf : Version, files : SUBSET Starter]
      /\ by \in {"wizard", "command"} /\ prs \subseteq {"workflow", "starter"}
  BY NoBranchTyped DEF Init, ProvInit
<1>5. abandoned \in BOOLEAN /\ torn \in BOOLEAN /\ ahead \in BOOLEAN
  BY Zenon DEF Init, ProvInit
<1> QED
  BY <1>1, <1>2, <1>3, <1>4, <1>5, NoBranchTyped DEF Init, TypeOK, ProvTypeOK, Memories

-----------------------------------------------------------------------------
(* Types. *)

LEMMA KeyedStep ==
  SetupInd /\ (ExchangeManifestCode \/ EnterExistingApp)
    => \E k, a \in App, t \in BOOLEAN : k # 0 /\ mem' = Keyed(mem, k, a, t)
<1> SUFFICES ASSUME SetupInd, ExchangeManifestCode \/ EnterExistingApp
             PROVE  \E k, a \in App, t \in BOOLEAN : k # 0 /\ mem' = Keyed(mem, k, a, t)
  OBVIOUS
<1>1. mem \in Memories /\ code \in App /\ created \in App /\ App = 0 .. MaxApps
  BY DEF SetupInd, TypeOK, Memories, App
<1>2. CASE ExchangeManifestCode
  <2>1. PICK t \in BOOLEAN : mem' = Keyed(mem, code, code, t)
    BY <1>2, Zenon DEF ExchangeManifestCode, Keyed
  <2>2. code # 0
    BY <1>2 DEF ExchangeManifestCode, SetupInd, Capturing
  <2> QED
    BY <1>1, <2>1, <2>2
<1>3. CASE EnterExistingApp
  <2>1. PICK a \in 1 .. created, k \in 1 .. created \cup ({mem.secrets.key} \ {0}) :
          mem' = [mem EXCEPT !.secrets.key = k, !.app = a, !.typed = TRUE]
    BY <1>3 DEF EnterExistingApp
  <2>2. a \in App /\ k \in App /\ k # 0
    BY <1>1, BoundsAssumption DEF Memories, Secrets
  <2>3. \E t \in BOOLEAN : mem' = Keyed(mem, k, a, t)
    BY <2>1, Zenon DEF Keyed
  <2> QED
    BY <2>2, <2>3
<1> QED
  BY <1>2, <1>3

LEMMA AnswerStep ==
  SetupInd => /\ StepAgent => \E t \in BOOLEAN : mem' = AgentGiven(mem, t)
              /\ StepRunnerMode => \E t \in BOOLEAN : mem' = ModeChosen(mem, t)
              /\ StepHostSchedulerToken =>
                   \E t, u \in BOOLEAN : /\ u <=> (mem.secrets.fallback \/ t)
                                         /\ mem' = Stored(mem, t, u)
<1> SUFFICES ASSUME SetupInd
             PROVE  /\ StepAgent => \E t \in BOOLEAN : mem' = AgentGiven(mem, t)
                    /\ StepRunnerMode => \E t \in BOOLEAN : mem' = ModeChosen(mem, t)
                    /\ StepHostSchedulerToken =>
                         \E t, u \in BOOLEAN : /\ u <=> (mem.secrets.fallback \/ t)
                                               /\ mem' = Stored(mem, t, u)
  OBVIOUS
<1>1. mem \in Memories
  BY DEF SetupInd, TypeOK, Memories
<1>2. StepAgent => \E t \in BOOLEAN : mem' = AgentGiven(mem, t)
  BY Zenon DEF StepAgent, AgentGiven
<1>3. StepRunnerMode => \E t \in BOOLEAN : mem' = ModeChosen(mem, t)
  BY Zenon DEF StepRunnerMode, ModeChosen
<1>4. ASSUME StepHostSchedulerToken
      PROVE  \E t, u \in BOOLEAN : (u <=> (mem.secrets.fallback \/ t)) /\ mem' = Stored(mem, t, u)
  <2>1. PICK now \in BOOLEAN :
          mem' = [mem EXCEPT !.fallback = now, !.secrets.fallback = mem.secrets.fallback \/ now]
    BY <1>4 DEF StepHostSchedulerToken
  <2>2. PICK u \in BOOLEAN : u <=> (mem.secrets.fallback \/ now)
    BY Zenon
  <2>3. (mem.secrets.fallback \/ now) = u
    BY <1>1, <2>2 DEF Memories, Secrets
  <2> QED
    BY <2>1, <2>2, <2>3, Zenon DEF Stored
<1> QED
  BY <1>2, <1>3, <1>4

LEMMA NextMemoryStep == SetupInd /\ [Next]_vars => MemoryStep
<1> SUFFICES ASSUME SetupInd, [Next]_vars
             PROVE  MemoryStep
  OBVIOUS
<1>1. CASE ExchangeManifestCode \/ EnterExistingApp
  BY <1>1, KeyedStep DEF MemoryStep
<1>2. CASE StepAgent \/ StepRunnerMode \/ StepHostSchedulerToken
  BY <1>2, AnswerStep DEF MemoryStep
<1>3. CASE InitCommand
  BY <1>3 DEF InitCommand, MemoryStep
<1>4. CASE Validate \/ WizardStops
  BY <1>4 DEF Validate, WizardStops, Forget, MemoryStep
<1>5. CASE \/ KeepConfig \/ StartOver \/ StepTokens \/ ChooseBrowser \/ CaptureTimesOut \/ PasteCode
           \/ \E mine \in BOOLEAN : CreateApp(mine)
           \/ \E r \in redirects : Callback(r)
           \/ ExchangeFails \/ PersistKey \/ DetectAndVerify \/ StepRepos
           \/ WriteConfig \/ WriteSecrets \/ ProvisionEnds \/ PressEnter
           \/ Provision \/ OnGitHub \/ UNCHANGED vars
  BY <1>5 DEF KeepConfig, StartOver, StepTokens, ChooseBrowser, CaptureTimesOut, PasteCode,
     CreateApp, Callback, ExchangeFails, PersistKey, DetectAndVerify, StepRepos, WriteConfig,
     WriteSecrets, ProvisionEnds, PressEnter, Provision, OnGitHub, vars, wizardVars, MemoryStep
<1> QED
  BY <1>1, <1>2, <1>3, <1>4, <1>5 DEF Next, Wizard

LEMMA NextMemTyped == SetupInd /\ [Next]_vars => mem' \in Memories
<1> SUFFICES ASSUME SetupInd, [Next]_vars
             PROVE  mem' \in Memories
  OBVIOUS
<1>1. mem \in Memories /\ secrets \in Secrets
  BY DEF SetupInd, TypeOK, ProvTypeOK, Memories
<1>2. [NoMem EXCEPT !.secrets = secrets] \in Memories
  BY <1>1, NoMemTyped DEF Memories
<1> QED
  BY <1>1, <1>2, NextMemoryStep, NoMemTyped, KeyedIs, AgentGivenIs, ModeChosenIs, StoredIs DEF MemoryStep

LEMMA NextBranchesTyped == SetupInd /\ [Next]_vars => wf' \in WfBranch /\ st' \in StBranch
<1> SUFFICES ASSUME SetupInd, [Next]_vars
             PROVE  wf' \in WfBranch /\ st' \in StBranch
  OBVIOUS
<1>1. /\ wf \in WfBranch /\ st \in StBranch /\ config.want \in Version
      /\ main.wf \in Version /\ main.files \in SUBSET Starter
      /\ wf.holds \in Version /\ st.holds \in SUBSET Starter
  BY DEF SetupInd, TypeOK, ProvTypeOK, WfBranch, StBranch, Config
<1>2. TRUE \in BOOLEAN /\ FALSE \in BOOLEAN
  BY Zenon
<1>3. CASE WorkflowBranch
  BY <1>1, <1>2, <1>3, WfTyped, Zenon DEF WorkflowBranch
<1>4. CASE UpsertWorkflow
  BY <1>1, <1>4, ChangedTyped, Zenon DEF UpsertWorkflow
<1>5. CASE Propose \/ ProposeStarter
  BY <1>1, <1>2, <1>5, ChangedTyped, Zenon DEF Propose, ProposeStarter
<1>6. CASE StarterFiles
  BY <1>1, <1>2, <1>6, StTyped, Zenon DEF StarterFiles
<1>7. CASE \E f \in Starter : WriteStarter(f)
  <2>1. PICK f \in Starter : st' = [st EXCEPT !.holds = st.holds \cup {f}] /\ wf' = wf
    BY <1>7 DEF WriteStarter
  <2>2. st.holds \cup {f} \in SUBSET Starter
    BY <1>1
  <2> QED
    BY <1>1, <2>1, <2>2, ChangedTyped, Zenon
<1>8. CASE People
  BY <1>1, <1>2, <1>8, ChangedTyped, NoBranchTyped, Zenon
     DEF People, MergeWorkflow, CloseWorkflow, MergeStarter, CloseStarter, DeleteWorkflowBranch
<1>9. CASE ~(ProvisionStep \/ People)
  <2>1. CASE Wizard
    BY <1>1, <2>1 DEF Wizard, InitCommand, KeepConfig, StartOver, StepTokens, ChooseBrowser,
       CaptureTimesOut, LeaveCapture, PasteCode, CreateApp, Callback, ExchangeManifestCode,
       ExchangeFails, EnterExistingApp, PersistKey, DetectAndVerify, StepAgent, StepRunnerMode,
       StepRepos, StepHostSchedulerToken, Ask, WriteConfig, WriteSecrets, Validate, ProvisionEnds,
       PressEnter, WizardStops, remote
  <2>2. CASE ProvisionCommand \/ Stops \/ UNCHANGED vars
    BY <1>1, <2>2 DEF ProvisionCommand, Stops, vars, pvars, remote
  <2> QED
    BY <1>9, <2>1, <2>2 DEF Next, Provision, OnGitHub
<1>10. CASE \/ EnsureLabels \/ \E i \in 1 .. Len(SealSteps) : SealRuntimeCredential(i)
            \/ SealAgentEnv \/ Surface
  BY <1>1, <1>10 DEF EnsureLabels, SealRuntimeCredential, SealAgentEnv, Surface, remote
<1> QED
  BY <1>3, <1>4, <1>5, <1>6, <1>7, <1>8, <1>9, <1>10 DEF ProvisionStep



(* The files change only where they are written. *)
LEMMA FilesLeft ==
  [Next]_vars => /\ WriteConfig \/ config' = config
                 /\ PersistKey \/ WriteSecrets \/ secrets' = secrets
<1> SUFFICES ASSUME [Next]_vars
             PROVE  /\ WriteConfig \/ config' = config
                    /\ PersistKey \/ WriteSecrets \/ secrets' = secrets
  OBVIOUS
<1>1. CASE Wizard
  BY <1>1 DEF Wizard, InitCommand, KeepConfig, StartOver, StepTokens,
     ChooseBrowser, CaptureTimesOut, LeaveCapture, PasteCode, CreateApp, Callback,
     ExchangeManifestCode, ExchangeFails, EnterExistingApp, PersistKey, DetectAndVerify, StepAgent,
     StepRunnerMode, StepRepos, StepHostSchedulerToken, Ask, WriteConfig, WriteSecrets, Validate,
     ProvisionEnds, PressEnter, WizardStops, files
<1>2. CASE ProvisionCommand \/ Stops \/ UNCHANGED vars
  BY <1>2 DEF ProvisionCommand, Stops, vars, pvars, files
<1>3. CASE ProvisionStep
  BY <1>3 DEF ProvisionStep, EnsureLabels, SealRuntimeCredential, SealAgentEnv, WorkflowBranch,
     UpsertWorkflow, Surface, Propose, StarterFiles, WriteStarter, ProposeStarter, files
<1>4. CASE People
  BY <1>4 DEF People, MergeWorkflow, CloseWorkflow, MergeStarter, CloseStarter,
     DeleteWorkflowBranch, files
<1> QED
  BY <1>1, <1>2, <1>3, <1>4 DEF Next, Provision, OnGitHub

(* The wizard changes no secret of the repository and not its default branch. *)
LEMMA WizardLeaves == Wizard => UNCHANGED remote
BY DEF Wizard, InitCommand, KeepConfig, StartOver, StepTokens,
   ChooseBrowser, CaptureTimesOut, LeaveCapture, PasteCode, CreateApp, Callback,
   ExchangeManifestCode, ExchangeFails, EnterExistingApp, PersistKey, DetectAndVerify, StepAgent,
   StepRunnerMode, StepRepos, StepHostSchedulerToken, Ask, WriteConfig, WriteSecrets, Validate,
   ProvisionEnds, PressEnter, WizardStops

(* `fixowl provision' goes through its own steps and leaves the host's files. *)
LEMMA ProvisionGoes ==
  Provision => /\ UNCHANGED <<files, wizardVars, torn, ahead>>
               /\ UNCHANGED <<mem, created, redirects, code, ours>>
               /\ pc \in ProvSteps \cup {"idle"} /\ pc' \in ProvSteps \cup {"idle", "done"}
<1> SUFFICES ASSUME Provision
             PROVE  /\ UNCHANGED <<files, wizardVars, torn, ahead>>
                    /\ UNCHANGED <<mem, created, redirects, code, ours>>
                    /\ pc \in ProvSteps \cup {"idle"} /\ pc' \in ProvSteps \cup {"idle", "done"}
  OBVIOUS
<1>1. UNCHANGED <<wizardVars, torn, ahead>> /\ UNCHANGED <<mem, created, redirects, code, ours>>
  BY DEF Provision, wizardVars
<1>2. CASE \E i \in 1 .. Len(SealSteps) : SealRuntimeCredential(i)
  BY <1>1, <1>2, SealIs DEF ProvSteps, Trio
<1>3. CASE ~\E i \in 1 .. Len(SealSteps) : SealRuntimeCredential(i)
  BY <1>1, <1>3 DEF Provision, ProvisionCommand, Stops, BeginProvision, ProvisionStep,
     EnsureLabels, SealAgentEnv, WorkflowBranch, UpsertWorkflow, Surface,
     Propose, StarterFiles, WriteStarter, ProposeStarter, ProvSteps, Trio
<1> QED
  BY <1>2, <1>3

(* People change nothing on the host. *)
LEMMA PeopleLeave ==
  OnGitHub => /\ UNCHANGED <<config, secrets, sealed, pc, by, prs, torn, ahead>>
              /\ UNCHANGED <<mem, created, redirects, code, ours>>
BY DEF OnGitHub, People, MergeWorkflow, CloseWorkflow, MergeStarter, CloseStarter,
   DeleteWorkflowBranch, files, provVars, wizardVars

LEMMA NextRemoteTyped ==
  SetupInd /\ [Next]_vars => /\ sealed' \in [Trio -> App]
                             /\ main' \in [wf : Version, files : SUBSET Starter]
<1> SUFFICES ASSUME SetupInd, [Next]_vars
             PROVE  /\ sealed' \in [Trio -> App]
                    /\ main' \in [wf : Version, files : SUBSET Starter]
  OBVIOUS
<1>1. /\ sealed \in [Trio -> App] /\ main \in [wf : Version, files : SUBSET Starter]
      /\ config.app \in App /\ secrets.key \in App
      /\ wf.holds \in Version /\ st.holds \in SUBSET Starter
  BY DEF SetupInd, TypeOK, ProvTypeOK, WfBranch, StBranch, Config, Secrets
<1>2. CASE Wizard
  BY <1>1, <1>2, WizardLeaves DEF remote
<1>3. CASE ProvisionCommand \/ Stops \/ UNCHANGED vars
  BY <1>1, <1>3 DEF ProvisionCommand, Stops, vars, pvars, remote
<1>4. CASE \E i \in 1 .. Len(SealSteps) : SealRuntimeCredential(i)
  BY <1>1, <1>4, SealIs
<1>5. CASE \/ EnsureLabels \/ SealAgentEnv \/ WorkflowBranch \/ UpsertWorkflow \/ Surface \/ Propose
           \/ StarterFiles \/ (\E f \in Starter : WriteStarter(f)) \/ ProposeStarter
  BY <1>1, <1>5 DEF EnsureLabels, SealAgentEnv, WorkflowBranch,
     UpsertWorkflow, Surface, Propose, StarterFiles, WriteStarter, ProposeStarter, remote
<1>6. CASE People
  BY <1>1, <1>6 DEF People, MergeWorkflow, CloseWorkflow, MergeStarter, CloseStarter,
     DeleteWorkflowBranch
<1> QED
  BY <1>2, <1>3, <1>4, <1>5, <1>6 DEF Next, Provision, ProvisionStep, OnGitHub

LEMMA NextHistoryTyped ==
  SetupInd /\ [Next]_vars => abandoned' \in BOOLEAN /\ torn' \in BOOLEAN /\ ahead' \in BOOLEAN
<1> SUFFICES ASSUME SetupInd, [Next]_vars
             PROVE  abandoned' \in BOOLEAN /\ torn' \in BOOLEAN /\ ahead' \in BOOLEAN
  OBVIOUS
<1>1. abandoned \in BOOLEAN /\ torn \in BOOLEAN /\ ahead \in BOOLEAN
  BY DEF SetupInd, TypeOK, ProvTypeOK
<1>2. CASE Wizard
  <2>1. CASE WizardStops
    BY <1>1, <2>1, Zenon DEF WizardStops
  <2>2. CASE PersistKey \/ WriteConfig \/ WriteSecrets
    BY <1>1, <2>2, Zenon DEF PersistKey, WriteConfig, WriteSecrets
  <2>3. CASE ~(PersistKey \/ WriteConfig \/ WriteSecrets \/ WizardStops)
    BY <1>1, <1>2, <2>3 DEF Wizard, InitCommand, KeepConfig, StartOver, StepTokens,
       ChooseBrowser, CaptureTimesOut, LeaveCapture, PasteCode, CreateApp, Callback,
       ExchangeManifestCode, ExchangeFails, EnterExistingApp, DetectAndVerify, StepAgent,
       StepRunnerMode, StepRepos, StepHostSchedulerToken, Ask, Validate, ProvisionEnds, PressEnter
  <2> QED
    BY <2>1, <2>2, <2>3
<1>3. CASE UNCHANGED vars
  BY <1>1, <1>3 DEF vars, pvars
<1>4. CASE Provision
  <2>1. torn' = torn /\ ahead' = ahead
    BY <1>4 DEF Provision
  <2>2. CASE ProvisionCommand \/ Stops
    BY <1>1, <2>1, <2>2, Zenon DEF ProvisionCommand, Stops
  <2>3. CASE ProvisionStep
    BY <1>1, <2>1, <2>3, Zenon DEF ProvisionStep, EnsureLabels, SealRuntimeCredential, SealAgentEnv,
       WorkflowBranch, UpsertWorkflow, Surface, Propose, StarterFiles, WriteStarter, ProposeStarter
  <2> QED
    BY <1>4, <2>2, <2>3 DEF Provision
<1>5. CASE OnGitHub
  BY <1>1, <1>5, Zenon DEF OnGitHub, People, MergeWorkflow, CloseWorkflow, MergeStarter,
     CloseStarter, DeleteWorkflowBranch
<1> QED
  BY <1>2, <1>3, <1>4, <1>5 DEF Next

LEMMA NextTypes == SetupInd /\ [Next]_vars => TypeOK'
<1> SUFFICES ASSUME SetupInd, [Next]_vars
             PROVE  TypeOK'
  OBVIOUS
<1>1. mem' \in Memories /\ wf' \in WfBranch /\ st' \in StBranch
  BY NextMemTyped, NextBranchesTyped
<1>2. mem \in Memories /\ secrets \in Secrets /\ config \in Config
  BY DEF SetupInd, TypeOK, ProvTypeOK, Memories
<1>3. config' \in Config
  <2>1. CASE WriteConfig
    <3>1. config.want + 1 \in Version
      BY <1>2, <2>1, BoundsAssumption DEF WriteConfig, Version, Config
    <3>2. mem.app \in App /\ mem.fallback \in BOOLEAN /\ VerifyApp \in BOOLEAN /\ TRUE \in BOOLEAN
      BY <1>2, Zenon DEF Memories, VerifyApp
    <3> QED
      BY <2>1, <3>1, <3>2, ConfigTyped, Zenon DEF WriteConfig
  <2> QED
    BY <1>2, <2>1, FilesLeft
<1>4. secrets' \in Secrets
  BY <1>2, FilesLeft DEF Memories, PersistKey, WriteSecrets
<1>5. pc' \in WizardSteps \cup ProvSteps \cup {"idle", "done"}
  <2>1. CASE Provision
    BY <2>1, ProvisionGoes
  <2>2. CASE Wizard
    BY <2>2 DEF Wizard, InitCommand, KeepConfig, StartOver, StepTokens,
       ChooseBrowser, CaptureTimesOut, LeaveCapture, PasteCode, CreateApp, Callback,
       ExchangeManifestCode, ExchangeFails, EnterExistingApp, PersistKey, DetectAndVerify, StepAgent,
       StepRunnerMode, StepRepos, StepHostSchedulerToken, Ask, WriteConfig, WriteSecrets, Validate,
       ProvisionEnds, PressEnter, WizardStops, BeginProvision, WizardSteps, ProvSteps, SetupInd, TypeOK
  <2>3. CASE OnGitHub \/ UNCHANGED vars
    BY <2>3, PeopleLeave DEF vars, pvars, SetupInd, TypeOK
  <2> QED
    BY <2>1, <2>2, <2>3 DEF Next
<1>6. /\ by' \in {"wizard", "command"} /\ prs' \subseteq {"workflow", "starter"}
      /\ created' \in App /\ code' \in App /\ ours' \subseteq App
      /\ redirects' \subseteq [app : App, mine : BOOLEAN]
  <2>1. /\ by \in {"wizard", "command"} /\ prs \subseteq {"workflow", "starter"}
        /\ created \in App /\ code \in App /\ ours \subseteq App
        /\ redirects \subseteq [app : App, mine : BOOLEAN]
    BY DEF SetupInd, TypeOK, ProvTypeOK
  <2>2. CASE PasteCode \/ \E mine \in BOOLEAN : CreateApp(mine)
    <3>1. created + 1 \in App
      BY <2>1, <2>2, BoundsAssumption DEF PasteCode, CreateApp, App
    <3>2. CASE PasteCode
      BY <2>1, <3>1, <3>2 DEF PasteCode, provVars
    <3>3. CASE \E mine \in BOOLEAN : CreateApp(mine)
      <4>1. PICK mine \in BOOLEAN : CreateApp(mine)
        BY <3>3
      <4>2. [app |-> created + 1, mine |-> mine] \in [app : App, mine : BOOLEAN]
        BY <3>1
      <4> QED
        BY <2>1, <3>1, <4>1, <4>2 DEF CreateApp, provVars
    <3> QED
      BY <2>2, <3>2, <3>3
  <2>3. CASE Validate \/ ProvisionEnds \/ WizardStops
    BY <2>1, <2>3, NoBranchTyped
       DEF Validate, ProvisionEnds, WizardStops, BeginProvision, Forget, wizardVars, provVars
  <2>8. CASE \E r \in redirects : Callback(r)
    BY <2>1, <2>8 DEF Callback, provVars
  <2>4. CASE \/ ExchangeManifestCode \/ ExchangeFails \/ CaptureTimesOut \/ PersistKey
             \/ WriteConfig \/ WriteSecrets
    BY <2>1, <2>4, NoBranchTyped
       DEF ExchangeManifestCode, ExchangeFails, CaptureTimesOut, LeaveCapture, PersistKey,
           WriteConfig, WriteSecrets, wizardVars, provVars
  <2>5. CASE \/ InitCommand \/ KeepConfig \/ StartOver \/ StepTokens \/ ChooseBrowser
             \/ EnterExistingApp \/ DetectAndVerify \/ StepAgent \/ StepRunnerMode \/ StepRepos
             \/ StepHostSchedulerToken \/ PressEnter
    BY <2>1, <2>5 DEF InitCommand, KeepConfig, StartOver, StepTokens, ChooseBrowser,
       EnterExistingApp, DetectAndVerify, StepAgent, StepRunnerMode, StepRepos,
       StepHostSchedulerToken, PressEnter, Ask, wizardVars, provVars
  <2>6. CASE Provision
    BY <2>1, <2>6 DEF Provision, ProvisionCommand, Stops, BeginProvision, ProvisionStep,
       EnsureLabels, SealRuntimeCredential, SealAgentEnv, WorkflowBranch, UpsertWorkflow, Surface,
       Propose, StarterFiles, WriteStarter, ProposeStarter, wizardVars, provVars
  <2>7. CASE OnGitHub \/ UNCHANGED vars
    BY <2>1, <2>7 DEF OnGitHub, People, MergeWorkflow, CloseWorkflow, MergeStarter, CloseStarter,
       DeleteWorkflowBranch, vars, pvars, wizardVars, provVars
  <2> QED
    BY <2>2, <2>3, <2>4, <2>5, <2>6, <2>7, <2>8 DEF Next, Wizard
<1>7. /\ pc' \notin WizardSteps => mem' = NoMem
      /\ redirects' # {} => pc' \in {"capture", "exchange"}
  <2>1. /\ pc \notin WizardSteps => mem = NoMem
        /\ redirects # {} => pc \in {"capture", "exchange"}
        /\ pc = "pause" => mem = NoMem
    BY DEF SetupInd, TypeOK, Memory
  <2>2. CASE PasteCode \/ \E mine \in BOOLEAN : CreateApp(mine)
    BY <2>1, <2>2 DEF PasteCode, CreateApp, WizardSteps
  <2>3. CASE Validate \/ ProvisionEnds \/ WizardStops \/ \E r \in redirects : Callback(r)
    BY <2>1, <2>3
       DEF Validate, ProvisionEnds, WizardStops, Callback, Forget, WizardSteps, wizardVars
  <2>4. CASE \/ ExchangeManifestCode \/ ExchangeFails \/ CaptureTimesOut \/ PersistKey
             \/ WriteConfig \/ WriteSecrets
    BY <2>1, <2>4
       DEF ExchangeManifestCode, ExchangeFails, CaptureTimesOut, LeaveCapture, PersistKey,
           WriteConfig, WriteSecrets, wizardVars, WizardSteps
  <2>5. CASE \/ InitCommand \/ KeepConfig \/ StartOver \/ StepTokens \/ ChooseBrowser
             \/ EnterExistingApp \/ DetectAndVerify \/ StepAgent \/ StepRunnerMode \/ StepRepos
             \/ StepHostSchedulerToken \/ PressEnter
    BY <2>1, <2>5 DEF InitCommand, KeepConfig, StartOver, StepTokens, ChooseBrowser,
       EnterExistingApp, DetectAndVerify, StepAgent, StepRunnerMode, StepRepos,
       StepHostSchedulerToken, PressEnter, Ask, wizardVars, WizardSteps
  <2>6. CASE Provision
    <3>1. UNCHANGED <<mem, redirects>> /\ pc \notin WizardSteps
      BY <2>6, ProvisionGoes DEF ProvSteps, Trio, WizardSteps
    <3> QED
      BY <2>1, <3>1 DEF WizardSteps
  <2>7. CASE OnGitHub \/ UNCHANGED vars
    BY <2>1, <2>7 DEF OnGitHub, People, MergeWorkflow, CloseWorkflow, MergeStarter, CloseStarter,
       DeleteWorkflowBranch, vars, pvars, wizardVars
  <2> QED
    BY <2>2, <2>3, <2>4, <2>5, <2>6, <2>7 DEF Next, Wizard
<1> QED
  BY <1>1, <1>3, <1>4, <1>5, <1>6, <1>7, NextRemoteTyped, NextHistoryTyped
     DEF TypeOK, ProvTypeOK, Memories

-----------------------------------------------------------------------------
(* The wizard's memory. *)

LEMMA NextMemory == SetupInd /\ [Next]_vars => KeyOnHost' /\ Memory'
<1> SUFFICES ASSUME SetupInd, [Next]_vars
             PROVE  KeyOnHost' /\ Memory'
  OBVIOUS
<1> USE DEF KeyOnHost, Memory, Questions, KeySaved, KeyKnown, WizardSteps
<1>1. /\ mem \in Memories /\ code \in App /\ created \in App /\ App = 0 .. MaxApps
      /\ pc \notin WizardSteps => mem = NoMem
      /\ KeyOnHost /\ Memory /\ Capturing
  BY DEF SetupInd, TypeOK, Memories, App
<1>2. CASE InitCommand
  <2>1. mem' = [NoMem EXCEPT !.secrets = secrets] /\ pc' \in {"choice", "tokens"} /\ secrets' = secrets
    BY <1>2 DEF InitCommand, Ask, files
  <2>2. mem'.secrets = secrets /\ ~mem'.fallback
    BY <2>1 DEF NoMem
  <2> QED
    BY <2>1, <2>2
<1>3. CASE ExchangeManifestCode \/ EnterExistingApp
  <2>1. PICK k, a \in App, t \in BOOLEAN : k # 0 /\ mem' = Keyed(mem, k, a, t)
    BY <1>3, KeyedStep
  <2>2. /\ pc \in {"exchange", "appmode", "existing"} /\ pc' = "persist"
        /\ UNCHANGED files
    BY <1>3 DEF ExchangeManifestCode, LeaveCapture, EnterExistingApp, Ask
  <2>3. /\ mem'.secrets.key = k
        /\ mem.secrets.fallback => mem'.secrets.fallback
        /\ mem'.fallback => mem.fallback
    BY <1>1, <2>1, KeyedIs
  <2> QED
    BY <1>1, <2>1, <2>2, <2>3 DEF files
<1>5. CASE StepAgent \/ StepRunnerMode \/ StepHostSchedulerToken
  <2>1. /\ pc' \in {"mode", "repos", "writecfg"} /\ pc \in {"agentstep", "mode", "hosttoken"}
        /\ UNCHANGED files
    BY <1>5 DEF StepAgent, StepRunnerMode, StepHostSchedulerToken, Ask
  <2>2. /\ mem'.secrets.key = mem.secrets.key
        /\ mem.secrets.fallback => mem'.secrets.fallback
        /\ mem'.fallback => mem'.secrets.fallback
    <3>1. CASE StepAgent
      BY <1>1, <3>1, AnswerStep, AgentGivenIs
    <3>2. CASE StepRunnerMode
      BY <1>1, <3>2, AnswerStep, ModeChosenIs
    <3>3. CASE StepHostSchedulerToken
      BY <1>1, <3>3, AnswerStep, StoredIs
    <3> QED
      BY <1>5, <3>1, <3>2, <3>3
  <2> QED
    BY <1>1, <2>1, <2>2 DEF files
<1>6. CASE Validate \/ WizardStops
  BY <1>1, <1>6 DEF Validate, WizardStops, Forget, BeginProvision, NoMem
<1>7. CASE \/ KeepConfig \/ StartOver \/ StepTokens \/ ChooseBrowser \/ CaptureTimesOut \/ ExchangeFails
           \/ PasteCode \/ (\E mine \in BOOLEAN : CreateApp(mine)) \/ (\E r \in redirects : Callback(r))
  BY <1>1, <1>7 DEF KeepConfig, StartOver, StepTokens, ChooseBrowser, CaptureTimesOut, ExchangeFails,
     LeaveCapture, PasteCode, CreateApp, Callback, Ask, files
<1>8. CASE DetectAndVerify \/ StepRepos \/ PressEnter \/ ProvisionEnds
  BY <1>1, <1>8 DEF DetectAndVerify, StepRepos, PressEnter, ProvisionEnds, Ask, files, wizardVars
<1>9. CASE PersistKey \/ WriteConfig \/ WriteSecrets
  BY <1>1, <1>9 DEF PersistKey, WriteConfig, WriteSecrets, wizardVars
<1>10. CASE Provision
  <2>1. mem' = mem /\ mem = NoMem /\ pc' \in ProvSteps \cup {"idle", "done"}
    <3>1. CASE \E i \in 1 .. Len(SealSteps) : SealRuntimeCredential(i)
      BY <1>1, <1>10, <3>1, SealIs DEF Provision, wizardVars, SetupInd, TypeOK, ProvTypeOK, ProvSteps, Trio
    <3>2. CASE ~\E i \in 1 .. Len(SealSteps) : SealRuntimeCredential(i)
      BY <1>1, <1>10, <3>2 DEF Provision, ProvisionCommand, Stops, BeginProvision, ProvisionStep,
         EnsureLabels, SealAgentEnv, WorkflowBranch, UpsertWorkflow, Surface,
         Propose, StarterFiles, WriteStarter, ProposeStarter, wizardVars, ProvSteps, Trio
    <3> QED
      BY <3>1, <3>2
  <2> QED
    BY <1>1, <2>1 DEF ProvSteps, Trio, NoMem
<1>11. CASE OnGitHub \/ UNCHANGED vars
  BY <1>1, <1>11 DEF OnGitHub, People, MergeWorkflow, CloseWorkflow, MergeStarter, CloseStarter,
     DeleteWorkflowBranch, vars, pvars, wizardVars, files
<1> QED
  BY <1>2, <1>3, <1>5, <1>6, <1>7, <1>8, <1>9, <1>10, <1>11 DEF Next, Wizard

-----------------------------------------------------------------------------
(* The capture. *)

LEMMA NextCapturing == SetupInd /\ [Next]_vars => Capturing'
<1> SUFFICES ASSUME SetupInd, [Next]_vars
             PROVE  Capturing'
  OBVIOUS
<1> USE DEF Capturing
<1>1. /\ Capturing /\ created \in App /\ App = 0 .. MaxApps
      /\ redirects # {} => pc \in {"capture", "exchange"}
      /\ redirects \subseteq [app : App, mine : BOOLEAN]
  BY DEF SetupInd, TypeOK, App
<1>2. CASE \E mine \in BOOLEAN : CreateApp(mine)
  <2>1. PICK mine \in BOOLEAN : CreateApp(mine)
    BY <1>2
  <2>2. /\ redirects' = redirects \cup {[app |-> created + 1, mine |-> mine]}
        /\ ours' = IF mine THEN ours \cup {created + 1} ELSE ours
        /\ pc = "capture" /\ pc' = pc /\ created + 1 # 0
    BY <1>1, <2>1, BoundsAssumption DEF CreateApp
  <2>3. \A r \in redirects' : r \in redirects \/ (r.app = created + 1 /\ (r.mine => mine))
    BY <2>2
  <2> QED
    BY <1>1, <2>2, <2>3
<1>3. CASE PasteCode
  BY <1>1, <1>3, BoundsAssumption DEF PasteCode
<1>4. CASE \E r \in redirects : Callback(r)
  BY <1>1, <1>4 DEF Callback
<1>5. CASE ExchangeManifestCode \/ ExchangeFails \/ CaptureTimesOut \/ Validate \/ WizardStops
  BY <1>1, <1>5 DEF ExchangeManifestCode, ExchangeFails, CaptureTimesOut, LeaveCapture,
     Validate, WizardStops, Forget, BeginProvision
<1>6. CASE \/ InitCommand \/ KeepConfig \/ StartOver \/ StepTokens \/ ChooseBrowser
           \/ EnterExistingApp \/ DetectAndVerify \/ StepAgent \/ StepRunnerMode \/ StepRepos
           \/ StepHostSchedulerToken \/ PressEnter
  BY <1>1, <1>6 DEF InitCommand, KeepConfig, StartOver, StepTokens, ChooseBrowser,
     EnterExistingApp, DetectAndVerify, StepAgent, StepRunnerMode, StepRepos,
     StepHostSchedulerToken, PressEnter, Ask, wizardVars
<1>7. CASE PersistKey \/ WriteConfig \/ WriteSecrets \/ ProvisionEnds
  BY <1>1, <1>7 DEF PersistKey, WriteConfig, WriteSecrets, ProvisionEnds, wizardVars
<1>8. CASE Provision
  <2>1. UNCHANGED <<redirects, ours>> /\ pc' # "exchange"
    BY <1>8, ProvisionGoes DEF ProvSteps, Trio
  <2> QED
    BY <1>1, <2>1
<1>9. CASE OnGitHub \/ UNCHANGED vars
  BY <1>1, <1>9, PeopleLeave DEF vars, pvars, wizardVars
<1> QED
  BY <1>2, <1>3, <1>4, <1>5, <1>6, <1>7, <1>8, <1>9 DEF Next, Wizard

-----------------------------------------------------------------------------
(* The files. *)

LEMMA NextFilesFit == SetupInd /\ [Next]_vars => FilesFit'
<1> SUFFICES ASSUME SetupInd, [Next]_vars
             PROVE  FilesFit'
  OBVIOUS
<1> USE DEF FilesFit, KeyBesideConfig, OwnOutputLoads, Loads
<1>1. FilesFit /\ KeyOnHost /\ Memory /\ mem \in Memories /\ secrets \in Secrets /\ config \in Config
  BY DEF SetupInd, TypeOK, ProvTypeOK, Memories
<1>2. CASE PersistKey
  BY <1>1, <1>2 DEF PersistKey, Memory, Questions, KeyKnown, WizardSteps
<1>3. CASE WriteConfig
  <2>1. /\ config'.paired = VerifyApp /\ config'.app = mem.app /\ config'.fallback = mem.fallback
        /\ secrets' = secrets /\ pc = "writecfg" /\ pc' = "writesec"
    BY <1>3 DEF WriteConfig
  <2>2. mem.secrets.key = secrets.key
    BY <1>1, <2>1 DEF KeyOnHost, KeySaved
  <2> QED
    BY <2>1, <2>2 DEF VerifyApp
<1>4. CASE WriteSecrets
  BY <1>1, <1>4 DEF WriteSecrets, KeyOnHost, Memory, KeySaved, KeyKnown
<1>5. CASE WizardStops
  BY <1>1, <1>5 DEF WizardStops, files
<1>6. CASE \/ KeepConfig \/ StartOver \/ StepTokens \/ ChooseBrowser \/ CaptureTimesOut \/ ExchangeFails
           \/ PasteCode \/ (\E mine \in BOOLEAN : CreateApp(mine)) \/ (\E r \in redirects : Callback(r))
  BY <1>1, <1>6 DEF KeepConfig, StartOver, StepTokens, ChooseBrowser, CaptureTimesOut, ExchangeFails,
     LeaveCapture, PasteCode, CreateApp, Callback, Ask, files
<1>7. CASE \/ InitCommand \/ ExchangeManifestCode \/ EnterExistingApp \/ DetectAndVerify
           \/ StepAgent \/ StepRunnerMode \/ StepRepos \/ StepHostSchedulerToken
  BY <1>1, <1>7 DEF InitCommand, ExchangeManifestCode, LeaveCapture, EnterExistingApp,
     DetectAndVerify, StepAgent, StepRunnerMode, StepRepos, StepHostSchedulerToken, Ask, files
<1>8. CASE Validate \/ ProvisionEnds \/ PressEnter
  BY <1>1, <1>8 DEF Validate, BeginProvision, ProvisionEnds, PressEnter, Ask, files
<1>9. CASE Provision
  <2>1. /\ UNCHANGED <<config, secrets, torn, ahead>>
        /\ pc # "writesec" /\ pc' # "writesec"
    BY <1>9, ProvisionGoes DEF ProvSteps, Trio, files
  <2> QED
    BY <1>1, <2>1
<1>10. CASE OnGitHub \/ UNCHANGED vars
  BY <1>1, <1>10, PeopleLeave DEF vars, pvars, files
<1> QED
  BY <1>2, <1>3, <1>4, <1>5, <1>6, <1>7, <1>8, <1>9, <1>10 DEF Next, Wizard

-----------------------------------------------------------------------------
(* The repository. *)

(* Steps of the wizard that write no configuration.                        *)
LEMMA WizardKeeps ==
  Wizard => /\ UNCHANGED <<sealed, main, wf, st, abandoned>>
            /\ pc \in WizardSteps \cup {"idle", "done"}
            /\ pc' \in WizardSteps \cup {"idle", "labels"}
            /\ pc' = "labels" => pc = "validate" /\ config.app = secrets.key /\ UNCHANGED files
BY DEF Wizard, InitCommand, KeepConfig, StartOver, StepTokens,
   ChooseBrowser, CaptureTimesOut, LeaveCapture, PasteCode, CreateApp, Callback,
   ExchangeManifestCode, ExchangeFails, EnterExistingApp, PersistKey, DetectAndVerify, StepAgent,
   StepRunnerMode, StepRepos, StepHostSchedulerToken, Ask, WriteConfig, WriteSecrets, Validate,
   BeginProvision, ProvisionEnds, PressEnter, WizardStops, WizardSteps, remote

LEMMA NextBranches == SetupInd /\ [Next]_vars => Branches'
<1> SUFFICES ASSUME SetupInd, [Next]_vars
             PROVE  Branches'
  OBVIOUS
<1> USE DEF Branches, Unproposed
<1>1. Branches /\ Told /\ wf \in WfBranch
  BY DEF SetupInd, TypeOK, ProvTypeOK
<1>2. CASE Wizard
  BY <1>1, <1>2, WizardKeeps DEF WizardSteps
<1>3. CASE \E i \in 1 .. Len(SealSteps) : SealRuntimeCredential(i)
  BY <1>1, <1>3, SealIs
<1>4. CASE EnsureLabels \/ SealAgentEnv \/ ProvisionCommand \/ Surface \/ Stops \/ UNCHANGED vars
  BY <1>1, <1>4 DEF EnsureLabels, SealAgentEnv, ProvisionCommand, BeginProvision, Surface, Stops,
     vars, pvars, remote
<1>5. CASE WorkflowBranch
  BY <1>1, <1>5 DEF WorkflowBranch
<1>6. CASE UpsertWorkflow
  BY <1>1, <1>6 DEF UpsertWorkflow, WfBranch
<1>7. CASE Propose
  BY <1>1, <1>7 DEF Propose, WfBranch
<1>8. CASE StarterFiles \/ (\E f \in Starter : WriteStarter(f)) \/ ProposeStarter
  BY <1>1, <1>8 DEF StarterFiles, WriteStarter, ProposeStarter
<1>9. CASE People
  BY <1>1, <1>9 DEF People, MergeWorkflow, CloseWorkflow, MergeStarter, CloseStarter,
     DeleteWorkflowBranch, NoBranch, WfBranch, SetupInd, TypeOK, ProvTypeOK
<1> QED
  BY <1>2, <1>3, <1>4, <1>5, <1>6, <1>7, <1>8, <1>9 DEF Next, Provision, ProvisionStep, OnGitHub

LEMMA NextTold == SetupInd /\ [Next]_vars => Told' /\ NothingDropped'
<1> SUFFICES ASSUME SetupInd, [Next]_vars
             PROVE  Told' /\ NothingDropped'
  OBVIOUS
<1> USE DEF Told, NothingDropped, FileSteps, EndSteps
<1>1. Branches /\ Told /\ NothingDropped /\ wf \in WfBranch /\ st \in StBranch
  BY DEF SetupInd, TypeOK, ProvTypeOK
<1>2. CASE Wizard
  BY <1>1, <1>2, WizardKeeps DEF WizardSteps
<1>3. CASE \E i \in 1 .. Len(SealSteps) : SealRuntimeCredential(i)
  BY <1>1, <1>3, SealIs
<1>4. CASE EnsureLabels \/ SealAgentEnv \/ ProvisionCommand \/ Stops \/ WorkflowBranch
  BY <1>1, <1>4 DEF EnsureLabels, SealAgentEnv, ProvisionCommand, BeginProvision, Stops, WorkflowBranch
<1>5. CASE UpsertWorkflow
  BY <1>1, <1>5 DEF UpsertWorkflow, Branches, Unproposed, WfBranch, files
<1>6. CASE Surface
  BY <1>1, <1>6 DEF Surface, files, remote
<1>7. CASE Propose
  BY <1>1, <1>7 DEF Propose, WfBranch, files
<1>8. CASE StarterFiles
  BY <1>1, <1>8 DEF StarterFiles, StBranch, files
<1>9. CASE \E f \in Starter : WriteStarter(f)
  BY <1>1, <1>9 DEF WriteStarter, StBranch, files, provVars
<1>10. CASE ProposeStarter
  BY <1>1, <1>10 DEF ProposeStarter, files
<1>11. CASE People
  BY <1>1, <1>11 DEF People, MergeWorkflow, CloseWorkflow, MergeStarter, CloseStarter,
     DeleteWorkflowBranch, NoBranch, NoFiles, Branches, Unproposed, WfBranch, StBranch, files, provVars, SetupInd, TypeOK, ProvTypeOK
<1>12. CASE UNCHANGED vars
  BY <1>1, <1>12 DEF vars, pvars, files, remote, provVars
<1> QED
  BY <1>2, <1>3, <1>4, <1>5, <1>6, <1>7, <1>8, <1>9, <1>10, <1>11, <1>12
     DEF Next, Provision, ProvisionStep, OnGitHub

LEMMA NextSealing == SetupInd /\ [Next]_vars => Sealing'
<1> SUFFICES ASSUME SetupInd, [Next]_vars
             PROVE  Sealing'
  OBVIOUS
<1> USE DEF Sealing, AfterKey, AfterInstallation, AfterId, ProvSteps, Trio
<1>1. Sealing /\ sealed \in [Trio -> App]
  BY DEF SetupInd, TypeOK, ProvTypeOK
<1>2. CASE Wizard
  BY <1>1, <1>2, WizardKeeps DEF WizardSteps, files
<1>3. CASE \E i \in 1 .. Len(SealSteps) : SealRuntimeCredential(i)
  BY <1>1, <1>3, SealIs DEF files, provVars
<1>4. CASE EnsureLabels \/ SealAgentEnv \/ ProvisionCommand \/ Stops
  BY <1>1, <1>4 DEF EnsureLabels, SealAgentEnv, ProvisionCommand, BeginProvision, Stops,
     files, remote, provVars
<1>5. CASE WorkflowBranch \/ UpsertWorkflow \/ Surface \/ Propose
  BY <1>1, <1>5 DEF WorkflowBranch, UpsertWorkflow, Surface, Propose, files, remote, provVars
<1>6. CASE StarterFiles \/ (\E f \in Starter : WriteStarter(f)) \/ ProposeStarter
  BY <1>1, <1>6 DEF StarterFiles, WriteStarter, ProposeStarter, files, provVars
<1>7. CASE OnGitHub \/ UNCHANGED vars
  BY <1>1, <1>7, PeopleLeave DEF vars, pvars, files, remote, provVars
<1> QED
  BY <1>2, <1>3, <1>4, <1>5, <1>6, <1>7 DEF Next, Provision, ProvisionStep

-----------------------------------------------------------------------------

(* The inductive invariant holds in every state.                           *)
THEOREM SetupInvariant == Spec => []SetupInd
<1>1. Init => SetupInd
  <2> SUFFICES ASSUME Init
               PROVE  SetupInd
    OBVIOUS
  <2>1. TypeOK
    BY InitTypes
  <2>2. KeyOnHost /\ Memory /\ Capturing /\ Branches /\ Told
    BY DEF Init, ProvInit, KeyOnHost, KeySaved, Memory, Questions, KeyKnown, NoMem, Capturing,
       Branches, Unproposed, NoBranch, Told, FileSteps, EndSteps, WizardSteps
  <2>3. Sealing /\ FilesFit /\ NothingDropped
    BY DEF Init, ProvInit, Sealing, AfterKey, AfterInstallation, AfterId, ProvSteps, Trio,
       FilesFit, KeyBesideConfig, OwnOutputLoads, NothingDropped
  <2> QED
    BY <2>1, <2>2, <2>3 DEF SetupInd
<1>2. SetupInd /\ [Next]_vars => SetupInd'
  BY NextTypes, NextMemory, NextCapturing, NextBranches, NextTold, NextSealing, NextFilesFit
     DEF SetupInd
<1> QED
  BY <1>1, <1>2, PTL DEF Spec

(* The wizard's and the command's state keeps its types; the memory is     *)
(* empty outside the questions, and a redirect is on its way only while    *)
(* its capture lasts (init.ts, app-manifest.ts, manifest-server.ts).       *)
THEOREM SetupTyped == Spec => []TypeOK
<1>1. SetupInd => TypeOK
  BY DEF SetupInd
<1> QED
  BY <1>1, SetupInvariant, PTL

(* A run of `fixowl provision' that ends well tells of every open pull     *)
(* request of its own, and of the workflow it wants unless it is merged or *)
(* somebody abandoned it: whatever people do between its steps, however    *)
(* often it was cut before (provision.ts, repo-provisioning.ts).           *)
THEOREM ProvisionReports == Spec => []ProvisionTells
<1>1. SetupInd => ProvisionTells
  BY DEF SetupInd, Told, EndSteps, FileSteps, ProvisionTells, WorkflowProposed
<1> QED
  BY <1>1, SetupInvariant, PTL

(* Wherever the wizard is cut, the configuration, the secrets it refers to *)
(* and the App it names fit: the key is saved before the configuration     *)
(* names its App, and no secret the configuration needs is ever dropped.   *)
THEOREM CutWizardFits == Spec => []FilesFit
<1>1. SetupInd => FilesFit
  BY DEF SetupInd
<1> QED
  BY <1>1, SetupInvariant, PTL

(* The App taken over was made from this capture's own page, and the       *)
(* wizard seals the trio of one App.                                       *)
THEOREM OneOwnApp == Spec => []AppIsOurs
<1>1. SetupInd => AppIsOurs
  <2> SUFFICES ASSUME SetupInd
               PROVE  AppIsOurs
    OBVIOUS
  <2>1. OwnAppOnly
    BY DEF SetupInd, Capturing, OwnAppOnly
  <2>2. WizardSealsOneApp
    BY DEF SetupInd, Sealing, AfterKey, AfterInstallation, AfterId, ProvSteps, Trio, WizardSealsOneApp
  <2> QED
    BY <2>1, <2>2 DEF AppIsOurs
<1> QED
  BY <1>1, SetupInvariant, PTL

-----------------------------------------------------------------------------
(* Editing the configuration: the inductive invariant. *)

Values == {None} \cup UNION {Dom[f] : f \in Settings}
Keys == {e \in [Settings -> Values] : \A f \in Settings : HasKey(f, e[f])}
Credentials == {None, "oauth", "apikey", "openai"}
Configs ==
  {c \in [defaults : Keys, entries : [Repos -> Keys], env : [Agents -> Credentials]] :
     c.defaults.labels = None}

AllAnswers ==
  [trigger : Dom.trigger, usage : Dom.usage \cup {None}, tokens : Dom.tokens \cup {None},
   minutes : Dom.minutes \cup {None}, model : Dom.model \cup {None},
   effort : Dom.effort \cup {None}, labels : Dom.labels \cup {None}]
AllSaid(who) == [a : AllAnswers, agent : Agents, by : {who}]

FileTyped ==
  /\ file \in Configs /\ writer \in {"init", "edit", "hand"} /\ edits \in 0 .. MaxEdits
  /\ asked \in [Repos -> {NoAnswers} \cup AllSaid("init") \cup AllSaid("edit")]

SessionTyped ==
  InSession =>
    session \in [config : {file}, text : Configs, changed : BOOLEAN, entered : BOOLEAN,
                 said : [Repos -> {NoAnswers} \cup AllSaid("edit")],
                 again : SUBSET Repos, switched : SUBSET Agents]

(* What no edit reaches. *)
TextKept ==
  InSession =>
    /\ session.text.defaults = file.defaults
    /\ \A r \in Repos : \A f \in {"mode", "priority"} :
         session.text.entries[r][f] = file.entries[r][f]
    /\ \A r \in Repos : ~Edited(r) => session.text.entries[r] = file.entries[r]
    /\ \A x \in Agents \ session.switched : session.text.env[x] = file.env[x]

(* The entry of a repository edited once. *)
Written(r, a, f) ==
  IF a[f] # Resolve(file, r)[f] THEN Place(file, f, a[f]) ELSE file.entries[r][f]
Stands(r) ==
  /\ Or(session.text.entries[r].agent, RepoDefault(file, "agent")) = session.said[r].agent
  /\ \A f \in Asked : session.text.entries[r][f] = Written(r, session.said[r].a, f)

EditsStand ==
  InSession => \A r \in Repos : Edited(r) /\ r \notin session.again => Stands(r)

(* Answers fit the agent they were given for, if what was there before did. *)
Loadable(s) ==
  ~SelectionErrors([agent |-> s.agent, model |-> s.a.model, effort |-> s.a.effort,
                    labels |-> s.a.labels])
AnswersLoad ==
  InSession /\ Valid(file) => \A r \in Repos : Edited(r) => Loadable(session.said[r])

(* Enter, pressed once or many times. *)
Pressed(r) == Enter(Resolve(file, r).agent, AgentEnv(file, r), Resolve(file, r), TRUE)
EnterStands ==
  InSession /\ session.entered => \A r \in Repos :
    /\ session.text.entries[r].agent = file.entries[r].agent
    /\ \A f \in Asked : \/ session.text.entries[r][f] = file.entries[r][f]
                        \/ session.text.entries[r][f] = Written(r, Pressed(r), f)

EditInd ==
  /\ FileTyped /\ SessionTyped /\ TextKept /\ EditsStand /\ AnswersLoad /\ EnterStands
  /\ FileSaysWhatWasAsked /\ WrittenIsValid

-----------------------------------------------------------------------------
(* Settings, defaults and answers. *)

LEMMA SettingsAre ==
  /\ Settings = {"trigger", "usage", "tokens", "minutes", "model", "effort", "labels",
                 "agent", "mode", "priority"}
  /\ Asked = {"trigger", "usage", "tokens", "minutes", "model", "effort", "labels"}
  /\ Asked \subseteq Settings /\ Settings = Asked \cup {"agent", "mode", "priority"}
<1>1. Settings = {"trigger", "usage", "tokens", "minutes", "model", "effort", "labels",
                  "agent", "mode", "priority"}
  BY DEF Settings, Dom
<1>2. Asked = {"trigger", "usage", "tokens", "minutes", "model", "effort", "labels"}
  BY <1>1 DEF Asked
<1> QED
  BY <1>1, <1>2

LEMMA DomIs ==
  /\ Dom["trigger"] = {"github-cron", "host-scheduler", "both"}
  /\ Dom["usage"] = {"percent"} /\ Dom["tokens"] = {"some", "lots"} /\ Dom["minutes"] = {"short"}
  /\ Dom["model"] = {"opus", "gpt"} /\ Dom["effort"] = {"max", "minimal"}
  /\ Dom["labels"] = {"claude", "codex"} /\ Dom["agent"] = Agents
  /\ Dom["mode"] = {"self-hosted", "github-hosted"} /\ Dom["priority"] = {"high"}
BY DEF Dom

LEMMA BuiltinIs ==
  /\ Builtin["trigger"] = "both" /\ Builtin["agent"] = "claude" /\ Builtin["mode"] = "self-hosted"
  /\ \A f \in {"usage", "tokens", "minutes", "model", "effort", "labels", "priority"} :
       Builtin[f] = None
BY SettingsAre DEF Builtin

(* No value is a blank. *)
LEMMA NoneIsNoValue ==
  \A f \in Settings : None \notin Dom[f] /\ HasKey(f, None) /\ \A v \in Dom[f] : HasKey(f, v)
<1>1. \A f \in Settings : None \notin Dom[f]
  BY SettingsAre, DomIs DEF None, Agents
<1> QED
  BY <1>1 DEF HasKey

LEMMA ResolveIs ==
  ASSUME NEW conf, NEW r \in Repos
  PROVE  /\ \A f \in Settings : Resolve(conf, r)[f] = Or(conf.entries[r][f], RepoDefault(conf, f))
         /\ \A f \in {"usage", "tokens", "minutes", "model", "effort", "labels"} :
              RepoDefault(conf, f) = conf.defaults[f]
<1>1. \A f \in Settings : Resolve(conf, r)[f] = Or(conf.entries[r][f], RepoDefault(conf, f))
  BY DEF Resolve
<1>2. \A f \in {"usage", "tokens", "minutes", "model", "effort", "labels"} :
        RepoDefault(conf, f) = conf.defaults[f]
  BY BuiltinIs DEF RepoDefault, Or, None
<1> QED
  BY <1>1, <1>2

LEMMA ResolveTyped ==
  ASSUME NEW conf \in Configs, NEW r \in Repos
  PROVE  /\ \A f \in Settings : HasKey(f, Resolve(conf, r)[f])
         /\ Resolve(conf, r)["agent"] \in Agents
         /\ Resolve(conf, r)["trigger"] \in Dom["trigger"]
         /\ Resolve(conf, r)["mode"] \in Dom["mode"]
<1>1. \A f \in Settings : HasKey(f, conf.defaults[f]) /\ HasKey(f, conf.entries[r][f])
  BY DEF Configs, Keys
<1>2. \A f \in Settings : HasKey(f, Builtin[f])
  BY SettingsAre, BuiltinIs, DomIs DEF HasKey, Agents
<1>3. \A f \in Settings : HasKey(f, Resolve(conf, r)[f])
  BY <1>1, <1>2, ResolveIs DEF RepoDefault, Or
<1>4. \A f \in {"trigger", "agent", "mode"} : Resolve(conf, r)[f] # None
  BY BuiltinIs, ResolveIs, SettingsAre DEF RepoDefault, Or, None
<1> QED
  BY <1>3, <1>4, SettingsAre, DomIs DEF HasKey

(* What can be answered. *)
LEMMA AnswersAre ==
  ASSUME NEW agent \in Agents, NEW env, NEW prefill, NEW editing \in BOOLEAN,
         editing => \A f \in {"usage", "model", "effort", "labels"} : HasKey(f, prefill[f]),
         NEW a \in Answers(agent, env, prefill, editing)
  PROVE  /\ a \in AllAnswers
         /\ HasCatalog(agent) =>
              /\ a.model \in {None, CatalogModel(agent)} \/ (editing /\ a.model = prefill.model)
              /\ a.effort \in {None, CatalogEffort(agent)} \/ (editing /\ a.effort = prefill.effort)
              /\ a.labels \in {None, agent} \/ (editing /\ a.labels = prefill.labels)
         /\ ~HasCatalog(agent) => a.model = None /\ a.effort = None /\ a.labels = None
<1> DEFINE catalog == HasCatalog(agent)
           kept(f) == IF editing THEN {prefill[f]} \ {None} ELSE {}
           trigger == IF prefill.mode = "github-hosted" THEN {"github-cron"} ELSE Dom.trigger
           usage == IF editing /\ Billing(agent, env) = "subscription"
                    THEN {prefill.usage} ELSE {None}
           tokens == IF Billing(agent, env) = "api-credit" THEN Dom.tokens \cup {None} ELSE {None}
           minutes == Dom.minutes \cup {None}
           model == {None} \cup IF catalog THEN {CatalogModel(agent)} \cup kept("model") ELSE {}
           effort == {None} \cup IF catalog THEN {CatalogEffort(agent)} \cup kept("effort") ELSE {}
           labels == {None} \cup IF catalog THEN {agent} \cup kept("labels") ELSE {}
<1>1. a \in [trigger : trigger, usage : usage, tokens : tokens, minutes : minutes,
             model : model, effort : effort, labels : labels]
  BY DEF Answers
<1>2. /\ trigger \subseteq Dom.trigger /\ usage \subseteq Dom.usage \cup {None}
      /\ tokens \subseteq Dom.tokens \cup {None}
  <2>1. editing => prefill.usage \in Dom.usage \cup {None}
    BY DEF HasKey
  <2> QED
    BY <2>1, DomIs
<1>3. /\ model \subseteq Dom.model \cup {None} /\ effort \subseteq Dom.effort \cup {None}
      /\ labels \subseteq Dom.labels \cup {None}
  <2>1. editing => /\ prefill.model \in Dom.model \cup {None}
                   /\ prefill.effort \in Dom.effort \cup {None}
                   /\ prefill.labels \in Dom.labels \cup {None}
    BY DEF HasKey
  <2>2. catalog => agent \in Dom.labels
    BY DomIs DEF HasCatalog, Agents
  <2>3. CatalogModel(agent) \in Dom.model /\ CatalogEffort(agent) \in Dom.effort
    BY DomIs DEF CatalogModel, CatalogEffort
  <2> QED
    BY <2>1, <2>2, <2>3
<1>4. /\ catalog =>
           /\ model \subseteq {None, CatalogModel(agent)}
                            \cup (IF editing THEN {prefill.model} ELSE {})
           /\ effort \subseteq {None, CatalogEffort(agent)}
                             \cup (IF editing THEN {prefill.effort} ELSE {})
           /\ labels \subseteq {None, agent} \cup (IF editing THEN {prefill.labels} ELSE {})
      /\ ~catalog => model = {None} /\ effort = {None} /\ labels = {None}
  OBVIOUS
<1> HIDE DEF catalog, trigger, usage, tokens, minutes, model, effort, labels
<1>5. /\ a.trigger \in trigger /\ a.usage \in usage /\ a.tokens \in tokens /\ a.minutes \in minutes
      /\ a.model \in model /\ a.effort \in effort /\ a.labels \in labels
  BY <1>1
<1>6. a \in AllAnswers
  BY <1>1, <1>2, <1>3 DEF AllAnswers, minutes
<1> QED
  BY <1>4, <1>5, <1>6 DEF catalog

LEMMA AnswerKeys ==
  ASSUME NEW a \in AllAnswers
  PROVE  (\A f \in Asked : HasKey(f, a[f])) /\ a["trigger"] \in Dom["trigger"]
<1>1. /\ a["trigger"] \in Dom["trigger"] /\ a["usage"] \in Dom["usage"] \cup {None}
      /\ a["tokens"] \in Dom["tokens"] \cup {None} /\ a["minutes"] \in Dom["minutes"] \cup {None}
      /\ a["model"] \in Dom["model"] \cup {None} /\ a["effort"] \in Dom["effort"] \cup {None}
      /\ a["labels"] \in Dom["labels"] \cup {None}
  BY DEF AllAnswers
<1> QED
  BY <1>1, SettingsAre DEF HasKey

-----------------------------------------------------------------------------
(* What init writes. *)

(* The rendered file has its types, resolves to the answers it was given,  *)
(* and loads.                                                              *)
LEMMA RenderedIs ==
  ASSUME NEW agent \in {"claude", "codex"}, NEW env \in Credentials, NEW mode \in Dom["mode"],
         NEW answers, \A r \in Repos : answers[r] \in AllAnswers,
         \A r \in Repos : /\ answers[r].model \in {None, CatalogModel(agent)}
                          /\ answers[r].effort \in {None, CatalogEffort(agent)}
                          /\ answers[r].labels \in {None, agent},
         NEW conf, conf = RenderConfig(agent, env, mode, answers)
  PROVE  /\ conf \in Configs
         /\ \A r \in Repos :
              /\ Resolve(conf, r)["agent"] = agent
              /\ \A f \in Asked : \/ Resolve(conf, r)[f] = answers[r][f]
                                  \/ /\ f \in Budgets /\ answers[r][f] = None
                                     /\ Resolve(conf, r)[f] = conf.defaults[f]
         /\ Valid(conf)
<1> DEFINE base == answers[Base]
<1>1. /\ \A r \in Repos : \A f \in Asked : HasKey(f, answers[r][f])
      /\ \A r \in Repos : answers[r]["trigger"] \in Dom["trigger"]
      /\ Base \in Repos
  BY AnswerKeys, ReposAssumption
<1>2. conf = [defaults |-> RenderDefaults(agent, mode, answers),
                entries  |-> [r \in Repos |-> RenderEntry(r, answers)],
                env      |-> [x \in Agents |-> IF x = agent THEN env ELSE None]]
  BY DEF RenderConfig
<1>3. /\ conf.defaults = RenderDefaults(agent, mode, answers)
      /\ \A r \in Repos : conf.entries[r] = RenderEntry(r, answers)
  BY <1>2
<1>4. /\ conf.defaults["agent"] = agent
      /\ conf.defaults["mode"] = IF mode = "github-hosted" THEN mode ELSE None
      /\ conf.defaults["priority"] = None /\ conf.defaults["labels"] = None
      /\ \A f \in {"model", "effort"} : conf.defaults[f] = Lifted(answers, f)
      /\ \A f \in {"trigger", "usage", "tokens", "minutes"} : conf.defaults[f] = base[f]
  BY <1>3, SettingsAre DEF RenderDefaults
<1>5. ASSUME NEW r \in Repos
      PROVE  /\ conf.entries[r]["agent"] = None /\ conf.entries[r]["mode"] = None
             /\ conf.entries[r]["priority"] = None
             /\ conf.entries[r]["labels"] = answers[r]["labels"]
             /\ \A f \in {"model", "effort"} :
                  conf.entries[r][f] = IF Lifted(answers, f) = None THEN answers[r][f] ELSE None
             /\ \A f \in {"trigger", "usage", "tokens", "minutes"} :
                  conf.entries[r][f] = IF answers[r][f] # base[f] THEN answers[r][f] ELSE None
  <2>1. conf.entries[r] = [f \in Settings |->
          IF f \in {"model", "effort"}
          THEN IF Lifted(answers, f) = None THEN answers[r][f] ELSE None
          ELSE IF f = "labels" THEN answers[r].labels
          ELSE IF f \in Asked \ {"model", "effort", "labels"}
               THEN IF answers[r][f] # answers[Base][f] THEN answers[r][f] ELSE None
          ELSE None]
    <3>1. ASSUME NEW f \in Settings
          PROVE  RenderEntry(r, answers)[f] =
            IF f \in {"model", "effort"}
            THEN IF Lifted(answers, f) = None THEN answers[r][f] ELSE None
            ELSE IF f = "labels" THEN answers[r].labels
            ELSE IF f \in Asked \ {"model", "effort", "labels"}
                 THEN IF answers[r][f] # answers[Base][f] THEN answers[r][f] ELSE None
            ELSE None
      <4>1. CASE f \in {"model", "effort"}
        <5>1. f # "labels" /\ f \notin Asked \ {"model", "effort", "labels"}
          BY <4>1
        <5> QED
          BY <4>1, <5>1, Zenon DEF RenderEntry
      <4>2. CASE f = "labels"
        <5>1. f \notin {"model", "effort"} /\ f \notin Asked \ {"model", "effort", "labels"}
          BY <4>2
        <5> QED
          BY <4>2, <5>1, Zenon DEF RenderEntry
      <4>3. CASE f \in Asked \ {"model", "effort", "labels"}
        <5>1. f \notin {"model", "effort"} /\ f # "labels"
          BY <4>3
        <5> QED
          BY <4>3, <5>1, Zenon DEF RenderEntry
      <4>4. CASE f \notin {"model", "effort"} /\ f # "labels"
                 /\ f \notin Asked \ {"model", "effort", "labels"}
        BY <4>4, Zenon DEF RenderEntry
      <4> QED
        BY <4>1, <4>2, <4>3, <4>4
    <3> QED
      BY <1>3, <3>1 DEF RenderEntry
  <2> QED
    BY <2>1, SettingsAre
<1>6. \A f \in {"model", "effort"} :
        Lifted(answers, f) # None => \A r \in Repos : answers[r][f] = Lifted(answers, f)
  BY <1>1 DEF Lifted
<1>7. \A f \in {"model", "effort"} : HasKey(f, Lifted(answers, f))
  BY <1>1, NoneIsNoValue, SettingsAre DEF Lifted
<1>8. conf \in Configs
  <2>1. HasKey("agent", agent) /\ HasKey("mode", mode)
    BY NoneIsNoValue, SettingsAre, DomIs DEF Agents
  <2>2. \A f \in Settings : HasKey(f, conf.defaults[f])
    BY <1>1, <1>4, <1>7, <2>1, NoneIsNoValue, SettingsAre
  <2>3. \A r \in Repos : \A f \in Settings : HasKey(f, conf.entries[r][f])
    BY <1>1, <1>5, NoneIsNoValue, SettingsAre
  <2>4. ASSUME NEW f \in Settings, NEW v, HasKey(f, v)
        PROVE  v \in Values
    <3>1. v \in Dom[f] \/ v = None
      BY <2>4 DEF HasKey
    <3> QED
      BY <3>1, Zenon DEF Values
  <2>5. /\ conf.defaults = [f \in Settings |-> conf.defaults[f]]
        /\ \A r \in Repos : conf.entries[r] = [f \in Settings |-> conf.entries[r][f]]
    BY <1>3 DEF RenderDefaults, RenderEntry
  <2>6. conf.defaults \in Keys /\ \A r \in Repos : conf.entries[r] \in Keys
    BY <2>2, <2>3, <2>4, <2>5 DEF Keys
  <2>7. conf.entries \in [Repos -> Keys]
    BY <1>2, <1>3, <2>6
  <2>8. conf.env \in [Agents -> Credentials]
    BY <1>2 DEF Credentials
  <2> QED
    BY <1>2, <1>4, <2>6, <2>7, <2>8 DEF Configs
<1>9. ASSUME NEW r \in Repos
      PROVE  /\ Resolve(conf, r)["agent"] = agent
             /\ \A f \in {"model", "effort", "labels"} : Resolve(conf, r)[f] = answers[r][f]
             /\ Resolve(conf, r)["trigger"] = answers[r]["trigger"]
             /\ \A f \in Budgets : \/ Resolve(conf, r)[f] = answers[r][f]
                                   \/ answers[r][f] = None /\ Resolve(conf, r)[f] = conf.defaults[f]
  <2>1. \A f \in Settings : Resolve(conf, r)[f] = Or(conf.entries[r][f], RepoDefault(conf, f))
    BY ResolveIs
  <2>2. Resolve(conf, r)["agent"] = agent
    BY <1>4, <1>5, <2>1, SettingsAre DEF RepoDefault, Or, None
  <2>3. \A f \in {"usage", "tokens", "minutes", "model", "effort", "labels"} :
          Resolve(conf, r)[f] = Or(conf.entries[r][f], conf.defaults[f])
    BY <2>1, ResolveIs, SettingsAre
  <2>4. \A f \in {"model", "effort", "labels"} : Resolve(conf, r)[f] = answers[r][f]
    BY <1>4, <1>5, <1>6, <2>3 DEF Or
  <2>5. Resolve(conf, r)["trigger"] = answers[r]["trigger"]
    <3>1. answers[r]["trigger"] # None /\ base["trigger"] # None
      BY <1>1, NoneIsNoValue, SettingsAre
    <3> QED
      BY <1>4, <1>5, <2>1, <3>1, SettingsAre DEF RepoDefault, Or
  <2>6. \A f \in Budgets : \/ Resolve(conf, r)[f] = answers[r][f]
                           \/ answers[r][f] = None /\ Resolve(conf, r)[f] = conf.defaults[f]
    BY <1>4, <1>5, <2>3 DEF Budgets, Or
  <2> QED
    BY <2>2, <2>4, <2>5, <2>6
<1>10. Valid(conf)
  <2> SUFFICES ASSUME NEW r \in Repos
               PROVE  ~SelectionErrors(Resolve(conf, r))
    BY DEF Valid
  <2>1. /\ Resolve(conf, r).agent = agent /\ agent # "script"
        /\ Resolve(conf, r).model \in {None, CatalogModel(agent)}
        /\ Resolve(conf, r).effort \in {None, CatalogEffort(agent)}
        /\ Resolve(conf, r).labels \in {None, agent}
    BY <1>9
  <2> QED
    BY <2>1 DEF SelectionErrors, HasCatalog
<1> QED
  BY <1>8, <1>9, <1>10, SettingsAre DEF Budgets

LEMMA SaidIs ==
  /\ \A a, agent, who : Said(a, agent, who) # NoAnswers
  /\ \A who : \A a \in AllAnswers, agent \in Agents : Said(a, agent, who) \in AllSaid(who)
  /\ \A who : \A s \in AllSaid(who) :
       s # NoAnswers /\ s.by = who /\ s.agent \in Agents /\ s.a \in AllAnswers
<1>1. DOMAIN NoAnswers = {"a"}
  BY DEF NoAnswers
<1>2. \A a, agent, who : DOMAIN Said(a, agent, who) = {"a", "agent", "by"}
  BY DEF Said
<1>3. \A who : \A s \in AllSaid(who) : DOMAIN s = {"a", "agent", "by"}
  BY DEF AllSaid
<1>4. {"a"} # {"a", "agent", "by"}
  OBVIOUS
<1> QED
  BY <1>1, <1>2, <1>3, <1>4 DEF Said, AllSaid

LEMMA InitEditInd == EditInit => EditInd
<1> SUFFICES ASSUME EditInit
             PROVE  EditInd
  OBVIOUS
<1>1. PICK choice \in AgentChoices, mode \in Dom.mode :
        \E first \in Given(choice[1], choice[2], StarterAnswers(mode), FALSE, MaxChanges) :
          LET enter == Enter(choice[1], choice[2], StarterAnswers(mode), FALSE)
              left == MaxChanges - Changes(first, enter)
              next == Given(choice[1], choice[2], Sticky(mode, first), FALSE, left)
          IN  \E rest \in [Repos \ {Base} -> next] :
            LET answers == [r \in Repos |-> IF r = Base THEN first ELSE rest[r]]
            IN  /\ file = RenderConfig(choice[1], choice[2], mode, answers)
                /\ asked = [r \in Repos |-> Said(answers[r], choice[1], "init")]
  BY DEF EditInit
<1> DEFINE agent == choice[1]
           env == choice[2]
<1>2. PICK first \in Answers(agent, env, StarterAnswers(mode), FALSE) :
        \E rest \in [Repos \ {Base} -> Answers(agent, env, Sticky(mode, first), FALSE)] :
          LET answers == [r \in Repos |-> IF r = Base THEN first ELSE rest[r]]
          IN  /\ file = RenderConfig(agent, env, mode, answers)
              /\ asked = [r \in Repos |-> Said(answers[r], agent, "init")]
  BY <1>1 DEF Given
<1>3. PICK rest \in [Repos \ {Base} -> Answers(agent, env, Sticky(mode, first), FALSE)] :
        LET answers == [r \in Repos |-> IF r = Base THEN first ELSE rest[r]]
        IN  /\ file = RenderConfig(agent, env, mode, answers)
            /\ asked = [r \in Repos |-> Said(answers[r], agent, "init")]
  BY <1>2
<1> DEFINE answers == [r \in Repos |-> IF r = Base THEN first ELSE rest[r]]
<1>4. agent \in {"claude", "codex"} /\ agent \in Agents /\ HasCatalog(agent) /\ env \in Credentials
  BY DEF AgentChoices, Agents, HasCatalog, Credentials
<1> HIDE DEF agent, env
<1>5. ASSUME NEW r \in Repos
      PROVE  /\ answers[r] \in AllAnswers
             /\ answers[r].model \in {None, CatalogModel(agent)}
             /\ answers[r].effort \in {None, CatalogEffort(agent)}
             /\ answers[r].labels \in {None, agent}
  <2>1. CASE r = Base
    BY <1>4, <2>1, AnswersAre
  <2>2. CASE r # Base
    <3>1. rest[r] \in Answers(agent, env, Sticky(mode, first), FALSE)
      BY <2>2
    <3> QED
      BY <1>4, <2>2, <3>1, AnswersAre
  <2> QED
    BY <2>1, <2>2
<1> HIDE DEF answers
<1>6. /\ file = RenderConfig(agent, env, mode, answers)
      /\ asked = [r \in Repos |-> Said(answers[r], agent, "init")]
  BY <1>3 DEF answers
<1>7. mode \in Dom["mode"]
  OBVIOUS
<1>8. /\ file \in Configs /\ Valid(file)
      /\ \A r \in Repos :
           /\ Resolve(file, r)["agent"] = agent
           /\ \A f \in Asked : \/ Resolve(file, r)[f] = answers[r][f]
                               \/ /\ f \in Budgets /\ answers[r][f] = None
                                  /\ Resolve(file, r)[f] = file.defaults[f]
  BY <1>4, <1>5, <1>6, <1>7, RenderedIs
<1>9. writer = "init" /\ ~InSession /\ edits = 0
  BY DEF EditInit, InSession
<1>10. FileTyped
  <2>1. \A r \in Repos : Said(answers[r], agent, "init") \in AllSaid("init")
    BY <1>4, <1>5, SaidIs
  <2> QED
    BY <1>6, <1>8, <1>9, <2>1, ChangesAssumption DEF FileTyped
<1>11. FileSaysWhatWasAsked
  <2> SUFFICES ASSUME NEW r \in Repos
               PROVE  /\ Resolve(file, r).agent = asked[r].agent /\ asked[r].by = "init"
                      /\ \A f \in Asked :
                           \/ Resolve(file, r)[f] = asked[r].a[f]
                           \/ /\ f \in Budgets /\ asked[r].a[f] = None
                              /\ Resolve(file, r)[f] = file.defaults[f]
    BY DEF FileSaysWhatWasAsked
  <2>1. asked[r] = [a |-> answers[r], agent |-> agent, by |-> "init"]
    BY <1>6 DEF Said
  <2> QED
    BY <1>8, <2>1
<1>12. SessionTyped /\ TextKept /\ EditsStand /\ AnswersLoad /\ EnterStands /\ WrittenIsValid
  BY <1>8, <1>9 DEF SessionTyped, TextKept, EditsStand, AnswersLoad, EnterStands, WrittenIsValid
<1> QED
  BY <1>10, <1>11, <1>12 DEF EditInd

-----------------------------------------------------------------------------
(* What an edit does to the session. *)

(* Answers given for an agent fit it, when those it had before did. *)
LEMMA GivenLoads ==
  ASSUME NEW conf \in Configs, NEW r \in Repos, NEW agent \in Agents, NEW env,
         NEW editing \in BOOLEAN, editing => agent = Resolve(conf, r)["agent"],
         NEW a \in Answers(agent, env, Resolve(conf, r), editing)
  PROVE  a \in AllAnswers /\ (Valid(conf) => Loadable(Said(a, agent, "edit")))
<1> DEFINE s == Resolve(conf, r)
<1>1. \A f \in {"usage", "model", "effort", "labels"} : HasKey(f, s[f])
  BY ResolveTyped, SettingsAre
<1> HIDE DEF s
<1>2. /\ a \in AllAnswers
      /\ HasCatalog(agent) =>
           /\ a.model \in {None, CatalogModel(agent)} \/ (editing /\ a.model = s.model)
           /\ a.effort \in {None, CatalogEffort(agent)} \/ (editing /\ a.effort = s.effort)
           /\ a.labels \in {None, agent} \/ (editing /\ a.labels = s.labels)
      /\ ~HasCatalog(agent) => a.model = None /\ a.effort = None /\ a.labels = None
  BY <1>1, AnswersAre DEF s
<1>3. ASSUME Valid(conf)
      PROVE  Loadable(Said(a, agent, "edit"))
  <2>1. ~SelectionErrors(s)
    BY <1>3 DEF Valid, s
  <2>2. editing /\ HasCatalog(agent) =>
          /\ agent = "codex" \/ s.model \in {None, CatalogModel(agent)}
          /\ s.effort \in {None, CatalogEffort(agent)}
          /\ s.labels \in {None, agent}
    BY <2>1 DEF SelectionErrors, s
  <2>3. ~SelectionErrors([agent |-> agent, model |-> a.model, effort |-> a.effort,
                          labels |-> a.labels])
    BY <1>2, <2>2 DEF SelectionErrors
  <2> QED
    BY <2>3 DEF Loadable, Said
<1> QED
  BY <1>2, <1>3

LEMMA SessionIs ==
  /\ DOMAIN NoSession = {"text"}
  /\ \A conf, text, changed, entered, said, again, switched :
       session = [config |-> conf, text |-> text, changed |-> changed, entered |-> entered,
                  said |-> said, again |-> again, switched |-> switched] => InSession
<1>1. DOMAIN NoSession = {"text"}
  BY DEF NoSession
<1>2. {"text"} # {"config", "text", "changed", "entered", "said", "again", "switched"}
  OBVIOUS
<1> QED
  BY <1>1, <1>2 DEF InSession

(* A changed line keeps the types. *)
LEMMA PlaceIs ==
  ASSUME NEW conf, NEW f \in Settings, NEW v, HasKey(f, v)
  PROVE  /\ HasKey(f, Place(conf, f, v))
         /\ Place(conf, f, v) \in {None, v}
         /\ v # None => Or(Place(conf, f, v), RepoDefault(conf, f)) = v
         /\ v = None => Or(Place(conf, f, v), RepoDefault(conf, f)) = RepoDefault(conf, f)
BY NoneIsNoValue DEF Place, Or

LEMMA KeysAre ==
  /\ \A e \in Keys : DOMAIN e = Settings /\ \A f \in Settings : HasKey(f, e[f])
  /\ \A e : e = [f \in Settings |-> e[f]] /\ (\A f \in Settings : HasKey(f, e[f])) => e \in Keys
<1>1. ASSUME NEW f \in Settings, NEW v, HasKey(f, v)
      PROVE  v \in Values
  <2>1. v \in Dom[f] \/ v = None
    BY <1>1 DEF HasKey
  <2> QED
    BY <2>1, Zenon DEF Values
<1>2. ASSUME NEW e, e = [f \in Settings |-> e[f]], \A f \in Settings : HasKey(f, e[f])
      PROVE  e \in Keys
  <2>1. e \in [Settings -> Values]
    BY <1>1, <1>2
  <2> QED
    BY <1>2, <2>1 DEF Keys
<1> QED
  BY <1>2 DEF Keys

(* The entry an edit writes. *)
Applied(text, conf, r, a, after) ==
  /\ after \in Configs /\ after.defaults = text.defaults /\ after.env = text.env
  /\ \A q \in Repos \ {r} : after.entries[q] = text.entries[q]
  /\ \A f \in Asked : after.entries[r][f] =
       IF a[f] # Resolve(conf, r)[f] THEN Place(conf, f, a[f]) ELSE text.entries[r][f]
  /\ \A f \in Settings \ Asked : after.entries[r][f] = text.entries[r][f]

LEMMA ApplyRepoChangesIs ==
  ASSUME NEW text \in Configs, NEW conf \in Configs, NEW r \in Repos, NEW a \in AllAnswers,
         NEW after, after = ApplyRepoChanges(text, conf, r, a)
  PROVE  Applied(text, conf, r, a, after)
<1> DEFINE entry == [f \in Settings |-> IF f \in Asked /\ a[f] # Resolve(conf, r)[f]
                                        THEN Place(conf, f, a[f]) ELSE text.entries[r][f]]
<1>1. entry \in Keys
  <2>1. ASSUME NEW f \in Settings
        PROVE  HasKey(f, entry[f])
    <3>1. HasKey(f, text.entries[r][f])
      BY KeysAre DEF Configs
    <3>2. f \in Asked => HasKey(f, Place(conf, f, a[f]))
      BY AnswerKeys, PlaceIs
    <3> QED
      BY <3>1, <3>2
  <2>2. entry = [f \in Settings |-> entry[f]]
    OBVIOUS
  <2> HIDE DEF entry
  <2> QED
    BY <2>1, <2>2, KeysAre
<1>2. after = [text EXCEPT !.entries[r] = entry]
  BY DEF ApplyRepoChanges
<1>3. \A f \in Settings : entry[f] = IF f \in Asked /\ a[f] # Resolve(conf, r)[f]
                                     THEN Place(conf, f, a[f]) ELSE text.entries[r][f]
  OBVIOUS
<1> HIDE DEF entry
<1>4. text \in [defaults : Keys, entries : [Repos -> Keys], env : [Agents -> Credentials]]
  BY DEF Configs
<1>5. /\ after \in [defaults : Keys, entries : [Repos -> Keys], env : [Agents -> Credentials]]
      /\ after.defaults = text.defaults /\ after.env = text.env
      /\ after.entries = [text.entries EXCEPT ![r] = entry]
  BY <1>1, <1>2, <1>4
<1>6. after \in Configs
  BY <1>5 DEF Configs
<1>7. after.entries[r] = entry /\ \A q \in Repos \ {r} : after.entries[q] = text.entries[q]
  BY <1>4, <1>5
<1> QED
  BY <1>3, <1>5, <1>6, <1>7, SettingsAre DEF Applied

(* The text after the agent of a repository was switched. *)
Switched(text, conf, r, agent, after) ==
  /\ after \in Configs /\ after.defaults = text.defaults
  /\ \A x \in Agents \ {agent} : after.env[x] = text.env[x]
  /\ \A q \in Repos \ {r} : after.entries[q] = text.entries[q]
  /\ \A f \in Settings \ {"agent"} : after.entries[r][f] = text.entries[r][f]
  /\ after.entries[r]["agent"] = Place(conf, "agent", agent)

LEMMA ApplyAgentSwitchIs ==
  ASSUME NEW text \in Configs, NEW conf, NEW r \in Repos, NEW switch \in AgentChoices,
         NEW after, after = ApplyAgentSwitch(text, conf, r, switch)
  PROVE  Switched(text, conf, r, switch[1], after)
<1> DEFINE entry == [text.entries[r] EXCEPT !["agent"] = Place(conf, "agent", switch[1])]
<1>1. /\ text \in [defaults : Keys, entries : [Repos -> Keys], env : [Agents -> Credentials]]
      /\ text.defaults.labels = None /\ text.entries[r] \in Keys
  BY DEF Configs
<1>2. switch[1] \in Agents /\ switch[2] \in Credentials /\ HasKey("agent", switch[1])
  <2>1. switch[1] \in Agents /\ switch[2] \in Credentials
    BY DEF AgentChoices, Agents, Credentials
  <2> QED
    BY <2>1, NoneIsNoValue, SettingsAre, DomIs
<1>3. HasKey("agent", Place(conf, "agent", switch[1]))
  BY <1>2, PlaceIs, SettingsAre
<1>4. /\ entry \in Keys
      /\ entry["agent"] = Place(conf, "agent", switch[1])
      /\ \A f \in Settings \ {"agent"} : entry[f] = text.entries[r][f]
  <2>1. text.entries[r] \in [Settings -> Values] /\ \A f \in Settings : HasKey(f, text.entries[r][f])
    BY <1>1 DEF Keys
  <2>2. entry = [f \in Settings |-> IF f = "agent" THEN Place(conf, "agent", switch[1])
                                    ELSE text.entries[r][f]]
    BY <2>1
  <2> HIDE DEF entry
  <2>3. /\ entry["agent"] = Place(conf, "agent", switch[1])
        /\ \A f \in Settings \ {"agent"} : entry[f] = text.entries[r][f]
    BY <2>2, SettingsAre
  <2>4. \A f \in Settings : HasKey(f, entry[f])
    BY <1>3, <2>1, <2>3
  <2>5. entry = [f \in Settings |-> entry[f]]
    BY <2>2
  <2> QED
    BY <2>3, <2>4, <2>5, KeysAre
<1>5. after = [text EXCEPT !.entries = [@ EXCEPT ![r] = entry],
                           !.env = [@ EXCEPT ![switch[1]] = switch[2]]]
  BY <1>1 DEF ApplyAgentSwitch
<1> HIDE DEF entry
<1>6. /\ after \in [defaults : Keys, entries : [Repos -> Keys], env : [Agents -> Credentials]]
      /\ after.defaults = text.defaults
      /\ after.entries = [text.entries EXCEPT ![r] = entry]
      /\ after.env = [text.env EXCEPT ![switch[1]] = switch[2]]
  <2> DEFINE entries == [text.entries EXCEPT ![r] = entry]
             env == [text.env EXCEPT ![switch[1]] = switch[2]]
  <2>1. entries \in [Repos -> Keys] /\ env \in [Agents -> Credentials]
    BY <1>1, <1>2, <1>4
  <2>2. after = [text EXCEPT !.entries = entries, !.env = env]
    BY <1>1, <1>5
  <2> HIDE DEF entries, env
  <2>3. /\ after \in [defaults : Keys, entries : [Repos -> Keys], env : [Agents -> Credentials]]
        /\ after.defaults = text.defaults /\ after.entries = entries /\ after.env = env
    BY <1>1, <2>1, <2>2
  <2> QED
    BY <2>3 DEF entries, env
<1>7. after \in Configs
  BY <1>1, <1>6 DEF Configs
<1>8. /\ after.entries[r] = entry /\ \A q \in Repos \ {r} : after.entries[q] = text.entries[q]
      /\ \A x \in Agents \ {switch[1]} : after.env[x] = text.env[x]
  BY <1>1, <1>6
<1> QED
  BY <1>4, <1>6, <1>7, <1>8 DEF Switched

(* What editing a repository does, whatever the answers given. *)
RepoEdited(r, switch, a, agent) ==
  /\ InSession /\ InSession' /\ FileTyped' /\ SessionTyped' /\ UNCHANGED <<file, writer, asked>>
  /\ session'.said = [session.said EXCEPT ![r] = Said(a, agent, "edit")]
  /\ session'.again = IF Edited(r) THEN session.again \cup {r} ELSE session.again
  /\ session.switched \subseteq session'.switched
  /\ session'.text.defaults = session.text.defaults
  /\ \A x \in Agents \ session'.switched : session'.text.env[x] = session.text.env[x]
  /\ \A q \in Repos \ {r} : session'.text.entries[q] = session.text.entries[q]
  /\ \A f \in Asked : session'.text.entries[r][f] =
       IF a[f] # Resolve(file, r)[f] THEN Place(file, f, a[f]) ELSE session.text.entries[r][f]
  /\ \A f \in {"mode", "priority"} : session'.text.entries[r][f] = session.text.entries[r][f]
  /\ session'.text.entries[r]["agent"] =
       IF switch = NoSwitch THEN session.text.entries[r]["agent"] ELSE Place(file, "agent", agent)
  /\ switch = NoSwitch => agent = Resolve(file, r)["agent"]
  /\ session'.entered => session.entered /\ switch = NoSwitch /\ a = Pressed(r)
  /\ Valid(file) => Loadable(Said(a, agent, "edit"))

LEMMA EditRepoIs ==
  ASSUME NEW r \in Repos, NEW switch \in AgentChoices \cup {NoSwitch}, FileTyped, SessionTyped,
         EditRepo(r, switch)
  PROVE  \E a \in AllAnswers, agent \in Agents : RepoEdited(r, switch, a, agent)
<1> DEFINE current == Resolve(session.config, r)
           agent == IF switch = NoSwitch THEN current.agent ELSE switch[1]
           env == IF switch = NoSwitch THEN AgentEnv(session.config, r) ELSE switch[2]
           switched == IF switch = NoSwitch THEN session.text
                       ELSE ApplyAgentSwitch(session.text, session.config, r, switch)
           enter == Enter(agent, env, current, Editing(switch))
<1>1. /\ InSession /\ edits < MaxEdits /\ edits' = edits + 1 /\ UNCHANGED <<file, writer, asked>>
      /\ \E a \in Given(agent, env, current, Editing(switch), MaxChanges) :
           session' = [session EXCEPT
             !.text = ApplyRepoChanges(switched, session.config, r, a),
             !.changed = @ \/ switch # NoSwitch \/ \E f \in Asked : a[f] # current[f],
             !.entered = @ /\ switch = NoSwitch /\ a = enter,
             !.again = IF session.said[r] = NoAnswers THEN @ ELSE @ \cup {r},
             !.said[r] = Said(a, agent, "edit"),
             !.switched = (@ \cup {switch[1]}) \ {None}]
  BY Zenon DEF EditRepo
<1>2. PICK a \in Answers(agent, env, current, Editing(switch)) :
        session' = [session EXCEPT
             !.text = ApplyRepoChanges(switched, session.config, r, a),
             !.changed = @ \/ switch # NoSwitch \/ \E f \in Asked : a[f] # current[f],
             !.entered = @ /\ switch = NoSwitch /\ a = enter,
             !.again = IF session.said[r] = NoAnswers THEN @ ELSE @ \cup {r},
             !.said[r] = Said(a, agent, "edit"),
             !.switched = (@ \cup {switch[1]}) \ {None}]
  BY <1>1 DEF Given
<1>3. /\ session \in [config : {file}, text : Configs, changed : BOOLEAN, entered : BOOLEAN,
                     said : [Repos -> {NoAnswers} \cup AllSaid("edit")],
                     again : SUBSET Repos, switched : SUBSET Agents]
      /\ session.config = file /\ file \in Configs
  BY <1>1 DEF SessionTyped, FileTyped
<1>4. /\ agent \in Agents /\ Editing(switch) \in BOOLEAN
      /\ Editing(switch) <=> switch = NoSwitch
      /\ switch = NoSwitch => agent = Resolve(file, r)["agent"] /\ env = AgentEnv(file, r)
      /\ switch # NoSwitch => agent = switch[1] /\ switch \in AgentChoices
  <2>1. Resolve(file, r)["agent"] \in Agents
    BY <1>3, ResolveTyped
  <2>2. \A c \in AgentChoices : c[1] \in Agents
    BY DEF AgentChoices, Agents
  <2> QED
    BY <1>3, <2>1, <2>2 DEF Editing
<1>5. /\ switched \in Configs /\ switched.defaults = session.text.defaults
      /\ \A x \in Agents \ {switch[1]} : switched.env[x] = session.text.env[x]
      /\ \A q \in Repos \ {r} : switched.entries[q] = session.text.entries[q]
      /\ \A f \in Settings \ {"agent"} : switched.entries[r][f] = session.text.entries[r][f]
      /\ switched.entries[r]["agent"] =
           IF switch = NoSwitch THEN session.text.entries[r]["agent"] ELSE Place(file, "agent", agent)
  <2>1. CASE switch = NoSwitch
    <3>1. switched = session.text
      BY <2>1
    <3> HIDE DEF agent, env, switched, enter
    <3> QED
      BY <1>3, <2>1, <3>1
  <2>2. CASE switch # NoSwitch
    <3>1. switched = ApplyAgentSwitch(session.text, file, r, switch)
      BY <1>3, <2>2
    <3> HIDE DEF agent, env, switched, enter
    <3>2. session.text \in Configs
      BY <1>3
    <3>3. switch \in AgentChoices /\ agent = switch[1]
      BY <1>4, <2>2
    <3>4. Switched(session.text, file, r, switch[1], switched)
      BY <3>1, <3>2, <3>3, ApplyAgentSwitchIs
    <3> QED
      BY <2>2, <3>3, <3>4 DEF Switched
  <2> QED
    BY <2>1, <2>2
<1>6. a \in AllAnswers /\ (Valid(file) => Loadable(Said(a, agent, "edit")))
  BY <1>3, <1>4, GivenLoads
<1>7. enter = Pressed(r) \/ switch # NoSwitch
  BY <1>3, <1>4 DEF Pressed
<1> HIDE DEF agent, env, switched, enter
<1> DEFINE after == ApplyRepoChanges(switched, session.config, r, a)
<1>8. /\ after \in Configs /\ after.defaults = switched.defaults /\ after.env = switched.env
      /\ \A q \in Repos \ {r} : after.entries[q] = switched.entries[q]
      /\ \A f \in Asked : after.entries[r][f] =
           IF a[f] # Resolve(file, r)[f] THEN Place(file, f, a[f]) ELSE switched.entries[r][f]
      /\ \A f \in Settings \ Asked : after.entries[r][f] = switched.entries[r][f]
  <2>1. after = ApplyRepoChanges(switched, file, r, a)
    BY <1>3
  <2>2. file \in Configs /\ switched \in Configs /\ a \in AllAnswers
    BY <1>3, <1>5, <1>6
  <2> HIDE DEF after
  <2>3. Applied(switched, file, r, a, after)
    BY <2>1, <2>2, ApplyRepoChangesIs
  <2> QED
    BY <2>3 DEF Applied
<1> HIDE DEF after
<1> DEFINE said == Said(a, agent, "edit")
           changed == session.changed \/ switch # NoSwitch \/ \E f \in Asked : a[f] # current[f]
           entered == session.entered /\ switch = NoSwitch /\ a = enter
           again == IF session.said[r] = NoAnswers THEN session.again ELSE session.again \cup {r}
           agents == (session.switched \cup {switch[1]}) \ {None}
<1>9. session' = [session EXCEPT !.text = after, !.changed = changed, !.entered = entered,
                                 !.again = again, !.said = [@ EXCEPT ![r] = said],
                                 !.switched = agents]
  BY <1>2, <1>3 DEF after
<1>10. said \in AllSaid("edit") /\ changed \in BOOLEAN /\ entered \in BOOLEAN /\ again \in SUBSET Repos
  BY <1>3, <1>4, <1>6, SaidIs
<1>11. /\ agents \in SUBSET Agents /\ session.switched \subseteq agents
       /\ \A x \in Agents \ agents : x # switch[1] /\ x \notin session.switched
  <2>1. None \notin Agents
    BY DEF Agents, None
  <2>2. switch[1] \in Agents \cup {None}
    BY DEF AgentChoices, Agents, NoSwitch
  <2> QED
    BY <1>3, <2>1, <2>2
<1> HIDE DEF said, changed, entered, again, agents
<1>12. /\ session' \in [config : {file}, text : Configs, changed : BOOLEAN, entered : BOOLEAN,
                       said : [Repos -> {NoAnswers} \cup AllSaid("edit")],
                       again : SUBSET Repos, switched : SUBSET Agents]
       /\ session'.text = after /\ session'.entered = entered /\ session'.again = again
       /\ session'.said = [session.said EXCEPT ![r] = said] /\ session'.switched = agents
  BY <1>3, <1>8, <1>9, <1>10, <1>11
<1>13. InSession'
  <2>1. DOMAIN session' = {"config", "text", "changed", "entered", "said", "again", "switched"}
    BY <1>12
  <2>2. DOMAIN session' # {"text"}
    BY <2>1
  <2> QED
    BY <2>2, SessionIs DEF InSession
<1>14. SessionTyped' /\ FileTyped'
  <2>1. SessionTyped'
    BY <1>1, <1>12 DEF SessionTyped
  <2>2. edits' \in 0 .. MaxEdits
    BY <1>1, ChangesAssumption DEF FileTyped
  <2>3. /\ file' \in Configs /\ writer' \in {"init", "edit", "hand"}
        /\ asked' \in [Repos -> {NoAnswers} \cup AllSaid("init") \cup AllSaid("edit")]
    BY <1>1 DEF FileTyped
  <2> QED
    BY <2>1, <2>2, <2>3 DEF FileTyped
<1>15. /\ again = IF Edited(r) THEN session.again \cup {r} ELSE session.again
       /\ entered => session.entered /\ switch = NoSwitch /\ a = Pressed(r)
  BY <1>7 DEF again, entered, Edited
<1>16. /\ \A x \in Agents \ agents : after.env[x] = session.text.env[x]
       /\ \A f \in Asked : after.entries[r][f] =
            IF a[f] # Resolve(file, r)[f] THEN Place(file, f, a[f]) ELSE session.text.entries[r][f]
       /\ \A f \in {"mode", "priority"} : after.entries[r][f] = session.text.entries[r][f]
       /\ after.entries[r]["agent"] =
            IF switch = NoSwitch THEN session.text.entries[r]["agent"] ELSE Place(file, "agent", agent)
       /\ \A q \in Repos \ {r} : after.entries[q] = session.text.entries[q]
       /\ after.defaults = session.text.defaults
  <2>1. \A x \in Agents \ agents : after.env[x] = session.text.env[x]
    BY <1>5, <1>8, <1>11
  <2>2. \A f \in Asked : f \in Settings \ {"agent"}
    BY SettingsAre
  <2>3. \A f \in {"mode", "priority", "agent"} : f \in Settings \ Asked
    BY SettingsAre
  <2>4. \A f \in Asked : after.entries[r][f] =
            IF a[f] # Resolve(file, r)[f] THEN Place(file, f, a[f]) ELSE session.text.entries[r][f]
    BY <1>5, <1>8, <2>2
  <2> QED
    BY <1>5, <1>8, <2>1, <2>3, <2>4
<1>17. said = Said(a, agent, "edit")
  BY DEF said
<1> a \in AllAnswers /\ agent \in Agents
  BY <1>4, <1>6
<1> WITNESS a \in AllAnswers, agent \in Agents
<1> QED
  BY <1>1, <1>4, <1>6, <1>11, <1>12, <1>13, <1>14, <1>15, <1>16, <1>17 DEF RepoEdited

-----------------------------------------------------------------------------
(* The invariant is inductive. *)

(* A repository whose entry and defaults are kept resolves as before. *)
LEMMA ResolveSame ==
  ASSUME NEW c, NEW d, NEW r \in Repos, c.entries[r] = d.entries[r], c.defaults = d.defaults
  PROVE  Resolve(c, r) = Resolve(d, r)
BY DEF Resolve, RepoDefault

LEMMA HandEditInd == EditInd /\ HandEdit => EditInd'
<1> SUFFICES ASSUME EditInd, HandEdit
             PROVE  EditInd'
  OBVIOUS
<1>1. /\ ~InSession /\ session' = session /\ writer' = "hand" /\ edits < MaxEdits
      /\ edits' = edits + 1 /\ asked' = [r \in Repos |-> NoAnswers]
      /\ file \in Configs /\ edits \in 0 .. MaxEdits
  BY DEF EditInd, FileTyped, HandEdit
<1>2. file' \in Configs
  <2>0. PICK f \in Settings : \E v \in Dom[f] \cup {None} :
          \/ f # "labels" /\ file' = [file EXCEPT !.defaults[f] = v]
          \/ \E r \in Repos : file' = [file EXCEPT !.entries[r][f] = v]
    BY DEF HandEdit
  <2>1. PICK v \in Dom[f] \cup {None} :
          \/ f # "labels" /\ file' = [file EXCEPT !.defaults[f] = v]
          \/ \E r \in Repos : file' = [file EXCEPT !.entries[r][f] = v]
    BY <2>0
  <2>2. HasKey(f, v)
    BY DEF HasKey
  <2>3. ASSUME NEW e \in Keys, NEW d, d = [e EXCEPT ![f] = v]
        PROVE  d \in Keys /\ \A g \in Settings \ {f} : d[g] = e[g]
    <3>1. e \in [Settings -> Values] /\ \A g \in Settings : HasKey(g, e[g])
      BY <2>3 DEF Keys
    <3>2. d = [g \in Settings |-> IF g = f THEN v ELSE e[g]]
      BY <2>3, <3>1
    <3>3. \A g \in Settings : d[g] = IF g = f THEN v ELSE e[g]
      BY <3>2
    <3>4. d = [g \in Settings |-> d[g]]
      BY <3>2
    <3> QED
      BY <2>2, <3>1, <3>3, <3>4, KeysAre
  <2>4. /\ file \in [defaults : Keys, entries : [Repos -> Keys], env : [Agents -> Credentials]]
        /\ file.defaults["labels"] = None
    BY <1>1 DEF Configs
  <2>5. CASE f # "labels" /\ file' = [file EXCEPT !.defaults[f] = v]
    <3> DEFINE d == [file.defaults EXCEPT ![f] = v]
    <3>1. d \in Keys /\ d["labels"] = None
      <4>1. d \in Keys /\ \A g \in Settings \ {f} : d[g] = file.defaults[g]
        BY <2>3, <2>4
      <4> HIDE DEF d
      <4> QED
        BY <2>4, <2>5, <4>1, SettingsAre
    <3>2. file' = [file EXCEPT !.defaults = d]
      BY <2>5
    <3> HIDE DEF d
    <3> QED
      BY <2>4, <3>1, <3>2 DEF Configs
  <2>6. ASSUME NEW r \in Repos, file' = [file EXCEPT !.entries[r][f] = v]
        PROVE  file' \in Configs
    <3> DEFINE d == [file.entries[r] EXCEPT ![f] = v]
    <3>1. d \in Keys
      BY <2>3, <2>4
    <3>2. file' = [file EXCEPT !.entries = [@ EXCEPT ![r] = d]]
      BY <2>6
    <3> HIDE DEF d
    <3> QED
      BY <2>4, <3>1, <3>2 DEF Configs
  <2> QED
    BY <2>1, <2>5, <2>6
<1>3. FileTyped'
  <2>1. edits' \in 0 .. MaxEdits
    BY <1>1, ChangesAssumption
  <2>2. asked' \in [Repos -> {NoAnswers} \cup AllSaid("init") \cup AllSaid("edit")]
    BY <1>1
  <2> QED
    BY <1>1, <1>2, <2>1, <2>2 DEF FileTyped
<1>4. FileSaysWhatWasAsked' /\ WrittenIsValid'
  BY <1>1 DEF FileSaysWhatWasAsked, WrittenIsValid
<1>5. ~InSession'
  BY <1>1 DEF InSession
<1>6. SessionTyped' /\ TextKept' /\ EditsStand' /\ AnswersLoad' /\ EnterStands'
  BY <1>5 DEF SessionTyped, TextKept, EditsStand, AnswersLoad, EnterStands
<1> QED
  BY <1>3, <1>4, <1>6 DEF EditInd

LEMMA OpenInd == EditInd /\ Open => EditInd'
<1> SUFFICES ASSUME EditInd, Open
             PROVE  EditInd'
  OBVIOUS
<1>1. /\ UNCHANGED <<file, writer, asked, edits>> /\ FileTyped
      /\ FileSaysWhatWasAsked /\ WrittenIsValid
      /\ session' = [config |-> file, text |-> file, changed |-> FALSE, entered |-> TRUE,
                     said |-> [r \in Repos |-> NoAnswers], again |-> {}, switched |-> {}]
  BY DEF EditInd, Open
<1>2. file' \in Configs
  BY <1>1 DEF FileTyped
<1>3. /\ FileTyped' /\ FileSaysWhatWasAsked' /\ WrittenIsValid'
  BY <1>1 DEF FileTyped, FileSaysWhatWasAsked, WrittenIsValid, Resolve, RepoDefault, Valid
<1>4. session'.text = file' /\ \A r \in Repos : session'.said[r] = NoAnswers
  BY <1>1
<1>5. SessionTyped'
  BY <1>1, <1>2 DEF SessionTyped
<1>6. TextKept' /\ EditsStand' /\ AnswersLoad' /\ EnterStands'
  BY <1>4 DEF TextKept, EditsStand, AnswersLoad, EnterStands, Edited
<1> QED
  BY <1>3, <1>5, <1>6 DEF EditInd

LEMMA EditRepoInd ==
  ASSUME EditInd, NEW r \in Repos, NEW switch \in AgentChoices \cup {NoSwitch}, EditRepo(r, switch)
  PROVE  EditInd'
<1>1. PICK a \in AllAnswers, agent \in Agents : RepoEdited(r, switch, a, agent)
  BY EditRepoIs DEF EditInd
<1>2. /\ InSession /\ InSession' /\ FileTyped' /\ SessionTyped' /\ UNCHANGED <<file, writer, asked>>
      /\ session'.said = [session.said EXCEPT ![r] = Said(a, agent, "edit")]
      /\ session'.again = IF Edited(r) THEN session.again \cup {r} ELSE session.again
      /\ session.switched \subseteq session'.switched
  BY <1>1 DEF RepoEdited
<1>3. /\ session'.text.defaults = session.text.defaults
      /\ \A x \in Agents \ session'.switched : session'.text.env[x] = session.text.env[x]
      /\ \A q \in Repos \ {r} : session'.text.entries[q] = session.text.entries[q]
      /\ \A f \in {"mode", "priority"} : session'.text.entries[r][f] = session.text.entries[r][f]
  BY <1>1 DEF RepoEdited
<1>4. \A f \in Asked : session'.text.entries[r][f] =
        IF a[f] # Resolve(file, r)[f] THEN Place(file, f, a[f]) ELSE session.text.entries[r][f]
  BY <1>1 DEF RepoEdited
<1>5. /\ session'.text.entries[r]["agent"] =
           IF switch = NoSwitch THEN session.text.entries[r]["agent"]
           ELSE Place(file, "agent", agent)
      /\ switch = NoSwitch => agent = Resolve(file, r)["agent"]
      /\ session'.entered => session.entered /\ switch = NoSwitch /\ a = Pressed(r)
      /\ Valid(file) => Loadable(Said(a, agent, "edit"))
  BY <1>1 DEF RepoEdited
<1>6. /\ \A q \in Repos :
           session'.said[q] = IF q = r THEN Said(a, agent, "edit") ELSE session.said[q]
      /\ Edited(r)' /\ \A q \in Repos \ {r} : Edited(q)' <=> Edited(q)
  <2>1. session.said \in [Repos -> {NoAnswers} \cup AllSaid("edit")]
    BY <1>2 DEF EditInd, SessionTyped
  <2>2. \A q \in Repos :
          session'.said[q] = IF q = r THEN Said(a, agent, "edit") ELSE session.said[q]
    BY <1>2, <2>1
  <2>3. Said(a, agent, "edit") # NoAnswers
    BY SaidIs
  <2> QED
    BY <2>2, <2>3 DEF Edited
<1>7. \A q : Resolve(file, q)' = Resolve(file, q)
  BY <1>2 DEF Resolve, RepoDefault
<1>8. TextKept'
  BY <1>2, <1>3, <1>6 DEF EditInd, TextKept
<1>9. EditsStand'
  <2> SUFFICES ASSUME NEW q \in Repos, Edited(q)', q \notin session'.again
               PROVE  Stands(q)'
    BY DEF EditsStand
  <2>1. CASE q # r
    <3>1. Edited(q) /\ q \notin session.again
      BY <1>2, <1>6, <2>1
    <3>2. Stands(q)
      BY <1>2, <3>1 DEF EditInd, EditsStand
    <3> QED
      BY <1>2, <1>3, <1>6, <2>1, <3>2 DEF Stands, Written, Resolve, RepoDefault, Place
  <2>2. CASE q = r
    <3>1. ~Edited(r)
      BY <1>2, <2>2
    <3>2. session.text.entries[r] = file.entries[r]
      BY <1>2, <3>1 DEF EditInd, TextKept
    <3>3. session'.said[r].a = a /\ session'.said[r].agent = agent
      BY <1>6 DEF Said
    <3>4. \A f \in Asked : session'.text.entries[r][f] = Written(r, a, f)
      BY <1>4, <3>2 DEF Written
    <3>5. Or(session'.text.entries[r].agent, RepoDefault(file, "agent")) = agent
      <4>1. CASE switch = NoSwitch
        BY <1>5, <3>2, <4>1, ResolveIs, SettingsAre
      <4>2. CASE switch # NoSwitch
        <5>1. HasKey("agent", agent) /\ agent # None
          BY NoneIsNoValue, SettingsAre, DomIs DEF Agents, None
        <5> QED
          BY <1>5, <4>2, <5>1, PlaceIs, SettingsAre
      <4> QED
        BY <4>1, <4>2
    <3> QED
      BY <1>2, <2>2, <3>3, <3>4, <3>5 DEF Stands, Written, Resolve, RepoDefault, Place
  <2> QED
    BY <2>1, <2>2
<1>10. AnswersLoad'
  <2>1. Valid(file)' <=> Valid(file)
    BY <1>2 DEF Valid, Resolve, RepoDefault
  <2> QED
    BY <1>2, <1>5, <1>6, <2>1 DEF EditInd, AnswersLoad
<1>11. EnterStands'
  <2> SUFFICES ASSUME session'.entered, NEW q \in Repos
               PROVE  /\ session'.text.entries[q].agent = file.entries[q].agent
                      /\ \A f \in Asked : \/ session'.text.entries[q][f] = file.entries[q][f]
                                          \/ session'.text.entries[q][f] = Written(q, Pressed(q), f)
    <3>1. ASSUME NEW q \in Repos
          PROVE  Pressed(q)' = Pressed(q)
      <4>1. Resolve(file, q)' = Resolve(file, q)
        BY <1>7
      <4>2. AgentEnv(file, q)' = AgentEnv(file, q)
        BY <1>2, <4>1 DEF AgentEnv
      <4> QED
        BY <4>1, <4>2 DEF Pressed
    <3>2. ASSUME NEW q \in Repos, NEW f
          PROVE  Written(q, Pressed(q), f)' = Written(q, Pressed(q), f)
      <4>1. Resolve(file, q)' = Resolve(file, q)
        BY <1>7
      <4> QED
        BY <1>2, <3>1, <4>1 DEF Written, Place, RepoDefault
    <3> QED
      BY <1>2, <3>2 DEF EnterStands
  <2>1. /\ session.text.entries[q].agent = file.entries[q].agent
        /\ \A f \in Asked : \/ session.text.entries[q][f] = file.entries[q][f]
                            \/ session.text.entries[q][f] = Written(q, Pressed(q), f)
    BY <1>2, <1>5 DEF EditInd, EnterStands
  <2>2. CASE q # r
    BY <1>3, <2>1, <2>2
  <2>3. CASE q = r
    <3>1. session'.text.entries[r].agent = file.entries[r].agent
      BY <1>5, <2>1, <2>3
    <3>2. \A f \in Asked : session'.text.entries[r][f] = IF a[f] # Resolve(file, r)[f]
                             THEN Written(r, Pressed(r), f) ELSE session.text.entries[r][f]
      BY <1>4, <1>5 DEF Written
    <3> QED
      BY <2>1, <2>3, <3>1, <3>2
  <2> QED
    BY <2>2, <2>3
<1>12. FileSaysWhatWasAsked' /\ WrittenIsValid'
  <2>1. FileSaysWhatWasAsked'
    BY <1>2 DEF EditInd, FileSaysWhatWasAsked, Resolve, RepoDefault
  <2>2. WrittenIsValid'
    BY <1>2 DEF EditInd, WrittenIsValid, Valid, Resolve, RepoDefault
  <2> QED
    BY <2>1, <2>2
<1> QED
  BY <1>2, <1>8, <1>9, <1>10, <1>11, <1>12 DEF EditInd

(* What a repository edited once resolves to once the text is the file. *)
LEMMA StandsIs ==
  ASSUME FileTyped, SessionTyped, TextKept, InSession, NEW r \in Repos, Edited(r), Stands(r)
  PROVE  /\ Resolve(session.text, r).agent = session.said[r].agent
         /\ \A f \in Asked :
              \/ Resolve(session.text, r)[f] = session.said[r].a[f]
              \/ /\ f \in Optional /\ session.said[r].a[f] = None
                 /\ Resolve(session.text, r)[f] = file.defaults[f]
<1> DEFINE a == session.said[r].a
           text == session.text
<1>1. session.said[r] \in AllSaid("edit") /\ text.defaults = file.defaults /\ file \in Configs
  BY DEF SessionTyped, TextKept, Edited, FileTyped
<1>2. a \in AllAnswers
  BY <1>1, SaidIs
<1>3. /\ \A f \in Asked : HasKey(f, a[f])
      /\ a["trigger"] # None
  BY <1>2, AnswerKeys, NoneIsNoValue, SettingsAre
<1>4. /\ Or(text.entries[r].agent, RepoDefault(file, "agent")) = session.said[r].agent
      /\ \A f \in Asked : text.entries[r][f] = Written(r, a, f)
  BY DEF Stands
<1>5. /\ \A f : RepoDefault(text, f) = RepoDefault(file, f)
      /\ file.defaults["labels"] = None
  BY <1>1 DEF RepoDefault, Configs
<1> HIDE DEF a, text
<1>6. \A f \in Settings : Resolve(text, r)[f] = Or(text.entries[r][f], RepoDefault(file, f))
  BY <1>5, ResolveIs
<1>7. Resolve(text, r).agent = session.said[r].agent
  BY <1>4, <1>6, SettingsAre
<1>8. ASSUME NEW f \in Asked
      PROVE  \/ Resolve(text, r)[f] = a[f]
             \/ f \in Optional /\ a[f] = None /\ Resolve(text, r)[f] = file.defaults[f]
  <2>1. f \in Settings /\ HasKey(f, a[f])
    BY <1>3, SettingsAre
  <2>2. CASE a[f] = Resolve(file, r)[f]
    <3>1. text.entries[r][f] = file.entries[r][f]
      BY <1>4, <2>2 DEF Written
    <3> QED
      BY <1>6, <2>1, <2>2, <3>1, ResolveIs
  <2>3. CASE a[f] # Resolve(file, r)[f]
    <3>1. text.entries[r][f] = Place(file, f, a[f])
      BY <1>4, <2>3 DEF Written
    <3>2. Resolve(text, r)[f] = Or(Place(file, f, a[f]), RepoDefault(file, f))
      BY <1>6, <2>1, <3>1
    <3>3. CASE a[f] # None
      BY <2>1, <3>2, <3>3, PlaceIs
    <3>4. CASE a[f] = None
      <4>1. Resolve(text, r)[f] = RepoDefault(file, f)
        BY <2>1, <3>2, <3>4, PlaceIs
      <4>2. f \in {"usage", "tokens", "minutes", "model", "effort", "labels"}
        BY <1>3, <3>4, SettingsAre
      <4>3. RepoDefault(file, f) = file.defaults[f]
        BY <4>2, ResolveIs
      <4>4. f \in Optional \/ f = "labels"
        BY <4>2 DEF Optional, Budgets
      <4> QED
        BY <1>5, <3>4, <4>1, <4>3, <4>4
    <3> QED
      BY <3>3, <3>4
  <2> QED
    BY <2>2, <2>3
<1> QED
  BY <1>7, <1>8 DEF a, text

LEMMA SaveInd == EditInd /\ Save => EditInd'
<1> SUFFICES ASSUME EditInd, Save
             PROVE  EditInd'
  OBVIOUS
<1>1. /\ InSession /\ Valid(session.text) /\ file' = session.text /\ writer' = "edit"
      /\ session' = NoSession /\ edits' = edits
      /\ asked' = [r \in Repos |-> IF r \in session.again THEN NoAnswers
                                   ELSE IF session.said[r] # NoAnswers THEN session.said[r]
                                   ELSE asked[r]]
  BY DEF Save, CanWrite
<1>2. /\ FileTyped /\ SessionTyped /\ TextKept /\ EditsStand /\ FileSaysWhatWasAsked
      /\ session.text \in Configs /\ session.text.defaults = file.defaults
      /\ session.said \in [Repos -> {NoAnswers} \cup AllSaid("edit")]
  BY <1>1 DEF EditInd, SessionTyped, TextKept
<1>3. FileTyped'
  <2>1. asked' \in [Repos -> {NoAnswers} \cup AllSaid("init") \cup AllSaid("edit")]
    BY <1>1, <1>2 DEF FileTyped
  <2> QED
    BY <1>1, <1>2, <2>1 DEF FileTyped
<1>4. ASSUME NEW r \in Repos, asked'[r] # NoAnswers
      PROVE  LET got == Resolve(file', r)
                 inherits == IF asked'[r].by = "edit" THEN Optional ELSE Budgets
             IN  /\ got.agent = asked'[r].agent
                 /\ \A f \in Asked :
                      \/ got[f] = asked'[r].a[f]
                      \/ f \in inherits /\ asked'[r].a[f] = None /\ got[f] = file'.defaults[f]
  <2>1. CASE session.said[r] # NoAnswers
    <3>1. r \notin session.again /\ asked'[r] = session.said[r]
      BY <1>1, <1>4, <2>1
    <3>2. Edited(r) /\ Stands(r)
      BY <1>1, <1>2, <2>1, <3>1 DEF EditsStand, Edited
    <3>3. session.said[r] \in AllSaid("edit") /\ session.said[r].by = "edit"
      BY <1>2, <2>1, SaidIs
    <3> QED
      BY <1>1, <1>2, <3>1, <3>2, <3>3, StandsIs
  <2>2. CASE session.said[r] = NoAnswers
    <3>1. asked'[r] = asked[r] /\ asked[r] # NoAnswers
      BY <1>1, <1>4, <2>2
    <3>2. session.text.entries[r] = file.entries[r]
      BY <1>1, <1>2, <2>2 DEF TextKept, Edited
    <3>3. Resolve(file', r) = Resolve(file, r) /\ file'.defaults = file.defaults
      BY <1>1, <1>2, <3>2, ResolveSame
    <3> QED
      BY <1>2, <3>1, <3>3 DEF FileSaysWhatWasAsked
  <2> QED
    BY <2>1, <2>2
<1>5. FileSaysWhatWasAsked'
  <2>1. \A q : Resolve(file, q)' = Resolve(file', q)
    BY DEF Resolve, RepoDefault
  <2> QED
    BY <1>4, <2>1 DEF FileSaysWhatWasAsked
<1>6. WrittenIsValid'
  BY <1>1 DEF WrittenIsValid, Valid, Resolve, RepoDefault
<1>7. ~InSession'
  BY <1>1 DEF InSession
<1>8. SessionTyped' /\ TextKept' /\ EditsStand' /\ AnswersLoad' /\ EnterStands'
  BY <1>7 DEF SessionTyped, TextKept, EditsStand, AnswersLoad, EnterStands
<1> QED
  BY <1>3, <1>5, <1>6, <1>8 DEF EditInd

LEMMA SessionEnds ==
  EditInd /\ session' = NoSession /\ UNCHANGED <<file, writer, asked, edits>> => EditInd'
<1> SUFFICES ASSUME EditInd, session' = NoSession, UNCHANGED <<file, writer, asked, edits>>
             PROVE  EditInd'
  OBVIOUS
<1>1. FileTyped'
  BY DEF EditInd, FileTyped
<1>2. FileSaysWhatWasAsked'
  BY DEF EditInd, FileSaysWhatWasAsked, Resolve, RepoDefault
<1>3. WrittenIsValid'
  BY DEF EditInd, WrittenIsValid, Valid, Resolve, RepoDefault
<1>4. ~InSession'
  BY DEF InSession
<1>5. SessionTyped' /\ TextKept' /\ EditsStand' /\ AnswersLoad' /\ EnterStands'
  BY <1>4 DEF SessionTyped, TextKept, EditsStand, AnswersLoad, EnterStands
<1> QED
  BY <1>1, <1>2, <1>3, <1>5 DEF EditInd

LEMMA NextEditInd == EditInd /\ [EditNext]_editVars => EditInd'
<1> SUFFICES ASSUME EditInd, [EditNext]_editVars
             PROVE  EditInd'
  OBVIOUS
<1>1. CASE HandEdit
  BY <1>1, HandEditInd
<1>2. CASE Open
  BY <1>2, OpenInd
<1>3. CASE Save
  BY <1>3, SaveInd
<1>4. CASE Refuse
  BY <1>4, SessionEnds DEF Refuse
<1>5. CASE Leave
  BY <1>5, SessionEnds DEF Leave
<1>6. ASSUME NEW r \in Repos, NEW switch \in AgentChoices \cup {NoSwitch}, EditRepo(r, switch)
      PROVE  EditInd'
  BY <1>6, EditRepoInd
<1>7. CASE UNCHANGED editVars
  <2>1. UNCHANGED <<file, writer, session, asked, edits>>
    BY <1>7 DEF editVars
  <2>2. \A q : Resolve(file, q)' = Resolve(file, q)
    BY <2>1 DEF Resolve, RepoDefault
  <2>3. FileTyped' /\ SessionTyped' /\ TextKept' /\ FileSaysWhatWasAsked'
    BY <2>1, <2>2 DEF EditInd, FileTyped, SessionTyped, TextKept, FileSaysWhatWasAsked, InSession,
                      Edited
  <2>4. WrittenIsValid' /\ AnswersLoad'
    BY <2>1, <2>2 DEF EditInd, WrittenIsValid, AnswersLoad, Valid, InSession, Edited
  <2>5. EditsStand'
    BY <2>1, <2>2 DEF EditInd, EditsStand, Stands, Written, Place, RepoDefault, InSession, Edited
  <2>6. \A r \in Repos : Pressed(r)' = Pressed(r)
    <3>1. \A r : AgentEnv(file, r)' = AgentEnv(file, r)
      BY <2>1, <2>2 DEF AgentEnv
    <3> QED
      BY <2>2, <3>1 DEF Pressed
  <2>7. EnterStands'
    <3>1. \A r \in Repos : \A f : Written(r, Pressed(r), f)' = Written(r, Pressed(r), f)
      BY <2>1, <2>2, <2>6 DEF Written, Place, RepoDefault
    <3> QED
      BY <2>1, <3>1 DEF EditInd, EnterStands, InSession
  <2> QED
    BY <2>3, <2>4, <2>5, <2>7 DEF EditInd
<1> QED
  BY <1>1, <1>2, <1>3, <1>4, <1>5, <1>6, <1>7 DEF EditNext

LEMMA EditInvariant == EditSpec => []EditInd
<1>1. EditInit => EditInd
  BY InitEditInd
<1>2. EditInd /\ [EditNext]_editVars => EditInd'
  BY NextEditInd
<1> QED
  BY <1>1, <1>2, PTL DEF EditSpec

-----------------------------------------------------------------------------
(* The results. *)

(* Init, sessions and hand edits leave a file of the schema's fields and   *)
(* values; a session edits the file that is on disk.                       *)
THEOREM EditTyped == EditSpec => []EditTypeOK
<1>1. ASSUME NEW c \in Configs
      PROVE  IsConfig(c)
  <2>1. c \in [defaults : Keys, entries : [Repos -> Keys], env : [Agents -> Credentials]]
    BY DEF Configs
  <2>2. \A f \in Settings : HasKey(f, c.defaults[f]) /\ \A r \in Repos : HasKey(f, c.entries[r][f])
    BY <2>1, KeysAre
  <2>3. DOMAIN c.defaults = Settings /\ c.defaults.labels = None
    BY <2>1, KeysAre DEF Configs
  <2> QED
    BY <2>1, <2>2, <2>3 DEF IsConfig
<1>2. EditInd => EditTypeOK
  <2> SUFFICES ASSUME EditInd
               PROVE  EditTypeOK
    OBVIOUS
  <2>1. /\ IsConfig(file) /\ writer \in {"init", "edit", "hand"}
        /\ DOMAIN asked = Repos /\ edits \in 0 .. MaxEdits
    BY <1>1 DEF EditInd, FileTyped
  <2>2. ASSUME InSession
        PROVE  /\ IsConfig(session.config) /\ IsConfig(session.text) /\ session.config = file
               /\ session.again \subseteq Repos /\ session.switched \subseteq Agents
    BY <1>1, <2>2 DEF EditInd, FileTyped, SessionTyped
  <2> QED
    BY <2>1, <2>2 DEF EditTypeOK
<1> QED
  BY <1>2, EditInvariant, PTL

(* After any number of sessions over any number of repositories, the file  *)
(* resolves to the last answers of each, and what init or edit wrote loads. *)
THEOREM WrittenRight == EditSpec => []WrittenAsAsked
<1>1. EditInd => WrittenAsAsked
  BY DEF EditInd, WrittenAsAsked
<1> QED
  BY <1>1, EditInvariant, PTL

(* Pressing Enter keeps every setting a question reaches. *)
LEMMA EnterIsCurrent ==
  ASSUME NEW r \in Repos,
         NEW f \in Asked \ Unreached(Resolve(file, r), AgentEnv(file, r))
  PROVE  Pressed(r)[f] = Resolve(file, r)[f]
<1> DEFINE s == Resolve(file, r)
           env == AgentEnv(file, r)
<1>1. f \in Asked /\ f \notin Unreached(s, env)
  OBVIOUS
<1>2. Pressed(r) = Enter(s.agent, env, s, TRUE)
  BY DEF Pressed
<1> HIDE DEF s, env
<1>3. /\ ~(f = "tokens" /\ Billing(s.agent, env) # "api-credit")
      /\ ~(f = "usage" /\ Billing(s.agent, env) # "subscription")
      /\ ~(f = "effort" /\ (s.model = None) # (s.effort = None))
      /\ ~(f = "trigger" /\ s.mode = "github-hosted")
      /\ ~(f \in {"model", "effort", "labels"} /\ ~HasCatalog(s.agent))
  BY <1>1 DEF Unreached
<1>4. Pressed(r)[f] = s[f]
  <2>1. CASE f = "trigger"
    BY <1>2, <1>3, <2>1 DEF Enter
  <2>2. CASE f = "usage"
    BY <1>2, <1>3, <2>2 DEF Enter
  <2>3. CASE f = "tokens"
    BY <1>2, <1>3, <2>3 DEF Enter
  <2>4. CASE f = "minutes"
    BY <1>2, <2>4 DEF Enter
  <2>5. CASE f = "model"
    BY <1>2, <1>3, <2>5 DEF Enter
  <2>6. CASE f = "effort"
    BY <1>2, <1>3, <2>6 DEF Enter, Or
  <2>7. CASE f = "labels"
    BY <1>2, <1>3, <2>7 DEF Enter
  <2> QED
    BY <1>1, <2>1, <2>2, <2>3, <2>4, <2>5, <2>6, <2>7, SettingsAre
<1> QED
  BY <1>4 DEF s

(* A session answered by Enter alone, on however many repositories and     *)
(* however often, keeps every setting the questions reach.                 *)
THEOREM EnterChangesNothing == EditSpec => EnterKeeps
<1>1. ASSUME EditInd, [EditNext]_editVars, session # NoSession, session' = NoSession,
             session.entered,
             NEW r \in Repos,
             NEW f \in Settings \ Unreached(Resolve(file, r), AgentEnv(file, r))
      PROVE  Resolve(file', r)[f] = Resolve(file, r)[f]
  <2>1. InSession /\ ~InSession'
    BY <1>1 DEF InSession
  <2>2. file' = file \/ file' = session.text
    <3>1. ASSUME NEW q \in Repos, NEW switch \in AgentChoices \cup {NoSwitch}, EditRepo(q, switch)
          PROVE  FALSE
      <4>1. PICK a \in AllAnswers, agent \in Agents : RepoEdited(q, switch, a, agent)
        BY <1>1, <3>1, EditRepoIs DEF EditInd
      <4> QED
        BY <2>1, <4>1 DEF RepoEdited
    <3>2. ~HandEdit
      BY <2>1 DEF HandEdit
    <3> QED
      BY <1>1, <3>1, <3>2 DEF EditNext, Open, Save, Refuse, Leave, editVars
  <2>3. CASE file' = file
    BY <2>3
  <2>4. CASE file' = session.text
    <3>1. /\ session.text.defaults = file.defaults
          /\ \A g \in {"mode", "priority"} : session.text.entries[r][g] = file.entries[r][g]
      BY <1>1, <2>1 DEF EditInd, TextKept
    <3>2. /\ session.text.entries[r].agent = file.entries[r].agent
          /\ \A g \in Asked : \/ session.text.entries[r][g] = file.entries[r][g]
                              \/ session.text.entries[r][g] = Written(r, Pressed(r), g)
      BY <1>1, <2>1 DEF EditInd, EnterStands
    <3>3. session.text.entries[r][f] = file.entries[r][f]
      <4>1. CASE f \in Asked
        <5>1. Pressed(r)[f] = Resolve(file, r)[f]
          BY <4>1, EnterIsCurrent
        <5>2. Written(r, Pressed(r), f) = file.entries[r][f]
          BY <5>1 DEF Written
        <5> QED
          BY <3>2, <4>1, <5>2
      <4>2. CASE f \notin Asked
        BY <3>1, <3>2, <4>2, SettingsAre
      <4> QED
        BY <4>1, <4>2
    <3>4. RepoDefault(file', f) = RepoDefault(file, f)
      BY <2>4, <3>1 DEF RepoDefault
    <3>5. f \in Settings
      OBVIOUS
    <3> QED
      BY <2>4, <3>3, <3>4, <3>5, ResolveIs
  <2> QED
    BY <2>2, <2>3, <2>4
<1>2. EditInd /\ [EditNext]_editVars =>
        [session # NoSession /\ session' = NoSession /\ session.entered =>
           \A r \in Repos : \A f \in Settings \ Unreached(Resolve(file, r), AgentEnv(file, r)) :
             Resolve(file', r)[f] = Resolve(file, r)[f]]_editVars
  BY <1>1
<1> QED
  BY <1>2, EditInvariant, PTL DEF EditSpec, EnterKeeps

(* Saving one repository's edits leaves the others, which share the        *)
(* defaults and the credentials with it, as they were.                     *)
THEOREM OthersStay == EditSpec => OthersAreLeftAlone
<1>1. ASSUME EditInd, Saves, NEW r \in Repos, ~Edited(r)
      PROVE  /\ Resolve(file', r) = Resolve(file, r)
             /\ \/ AgentEnv(file', r) = AgentEnv(file, r)
                \/ Resolve(file, r).agent \in session.switched
  <2>1. InSession /\ file' = session.text /\ file \in Configs
    BY <1>1 DEF Saves, InSession, EditInd, FileTyped
  <2>2. /\ session.text.defaults = file.defaults
        /\ session.text.entries[r] = file.entries[r]
        /\ \A x \in Agents \ session.switched : session.text.env[x] = file.env[x]
    BY <1>1, <2>1 DEF EditInd, TextKept
  <2>3. Resolve(file', r) = Resolve(file, r)
    BY <2>1, <2>2, ResolveSame
  <2>4. Resolve(file, r)["agent"] \in Agents
    BY <2>1, ResolveTyped
  <2> QED
    BY <2>1, <2>2, <2>3, <2>4 DEF AgentEnv
<1>2. EditInd => [Saves => \A r \in Repos : Edited(r) \/
                    /\ Resolve(file', r) = Resolve(file, r)
                    /\ \/ AgentEnv(file', r) = AgentEnv(file, r)
                       \/ Resolve(file, r).agent \in session.switched]_editVars
  BY <1>1
<1> QED
  BY <1>2, EditInvariant, PTL DEF OthersAreLeftAlone

(* No answers to the questions can be refused of a valid file, but for a   *)
(* blank that inherits a default or a second edit of one repository.       *)
THEOREM RefusedFor == EditSpec => RefusedOnlyByInheritance
<1>1. ASSUME EditInd, Refuse, Valid(file), session.again = {},
             \A r \in Repos : Edited(r) => \A f \in {"model", "effort"} :
               session.said[r].a[f] # None \/ file.defaults[f] = None
      PROVE  FALSE
  <2>1. InSession /\ ~Valid(session.text)
    BY <1>1 DEF Refuse, CanWrite
  <2>2. PICK r \in Repos : SelectionErrors(Resolve(session.text, r))
    BY <2>1 DEF Valid
  <2>3. /\ FileTyped /\ SessionTyped /\ TextKept /\ EditsStand /\ AnswersLoad
        /\ session.text.defaults = file.defaults
    BY <1>1, <2>1 DEF EditInd, TextKept
  <2>4. CASE ~Edited(r)
    <3>1. Resolve(session.text, r) = Resolve(file, r)
      BY <2>1, <2>3, <2>4, ResolveSame DEF TextKept
    <3> QED
      BY <1>1, <2>2, <3>1 DEF Valid
  <2>5. CASE Edited(r)
    <3> DEFINE s == Resolve(session.text, r)
               said == session.said[r]
    <3>1. Stands(r)
      BY <1>1, <2>1, <2>3, <2>5 DEF EditsStand
    <3>2. /\ s.agent = said.agent
          /\ \A f \in Asked : \/ s[f] = said.a[f]
                              \/ f \in Optional /\ said.a[f] = None /\ s[f] = file.defaults[f]
      BY <2>1, <2>3, <2>5, <3>1, StandsIs
    <3>3. "labels" \notin Optional /\ {"model", "effort", "labels"} \subseteq Asked
      BY SettingsAre DEF Optional, Budgets
    <3>4. ~SelectionErrors([agent |-> said.agent, model |-> said.a.model,
                            effort |-> said.a.effort, labels |-> said.a.labels])
      BY <1>1, <2>1, <2>3, <2>5 DEF AnswersLoad, Loadable
    <3>5. \A f \in {"model", "effort"} : said.a[f] # None \/ file.defaults[f] = None
      BY <1>1, <2>5
    <3>6. SelectionErrors(s)
      BY <2>2
    <3> HIDE DEF s, said
    <3>7. s.model = said.a.model /\ s.effort = said.a.effort /\ s.labels = said.a.labels
      BY <3>2, <3>3, <3>5
    <3> QED
      BY <3>2, <3>4, <3>6, <3>7 DEF SelectionErrors
  <2> QED
    BY <2>4, <2>5
<1>2. EditInd => [Refuse => \/ ~Valid(file) \/ session.again # {}
                            \/ \E r \in Repos : Edited(r) /\ \E f \in {"model", "effort"} :
                                 session.said[r].a[f] = None /\ file.defaults[f] # None]_editVars
  BY <1>1
<1> QED
  BY <1>2, EditInvariant, PTL DEF RefusedOnlyByInheritance
=============================================================================
