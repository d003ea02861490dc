---------------------------- MODULE Provisioning ----------------------------
(***************************************************************************)
(* `fixowl provision' for one repository (cli/src/commands/provision.ts    *)
(* over cli/src/github/repo-provisioning.ts): labels, sealed secrets, the  *)
(* workflow and the starter files, each proposed from a branch of its own. *)
(* Every step is a remote call that may fail; the command then ends, and   *)
(* is run again from the start.  Around it people merge and close the pull *)
(* requests, with or without deleting the branch.  The runner it registers *)
(* last is RunnerLifecycle's.                                              *)
(*                                                                         *)
(* Data: an App is a number, its credentials are that number; the text of  *)
(* the workflow is the version of the configuration it was rendered from,  *)
(* 0 standing for no workflow.  Labels and the agent's secret are written  *)
(* whole or not at all and never read back: their steps change nothing.    *)
(* The two files on the host do not change while the command runs, so what *)
(* it read when it began is what they hold.                                *)
(***************************************************************************)
EXTENDS Naturals, FiniteSets, Sequences

CONSTANTS
  MaxApps,   \* bound: GitHub Apps created
  MaxWant    \* bound: versions of the configuration

ASSUME BoundsAssumption == MaxApps \in Nat \ {0} /\ MaxWant \in Nat \ {0}

VARIABLES
  config,    \* config.yaml
  secrets,   \* secrets.env
  sealed,    \* the repository's secrets: the App each of the trio is of
  main,      \* the default branch: its workflow and its starter files
  wf,        \* branch fixowl/provision-workflow and its open pull request
  st,        \* branch fixowl/provision-files and its open pull request
  pc,        \* where the host's one command stands
  by,        \* who began the provisioning, "wizard" or "command"
  prs,       \* the pull requests it has to report
  abandoned  \* history: a stop or a close left the workflow branch unproposed

files == <<config, secrets>>
remote == <<sealed, main, wf, st>>
provVars == <<by, prs>>
pvars == <<files, remote, pc, provVars, abandoned>>

App == 0 .. MaxApps
Version == 0 .. MaxWant
Starter == {"config", "template"}
Trio == {"id", "installation", "key"}
SealSteps == <<"id", "installation", "key">>

Config == [there : BOOLEAN, app : App, want : Version, fallback : BOOLEAN, paired : BOOLEAN]
Secrets == [key : App, agent : BOOLEAN, fallback : BOOLEAN]
WfBranch == [there : BOOLEAN, holds : Version, pr : BOOLEAN]
StBranch == [there : BOOLEAN, holds : SUBSET Starter, pr : BOOLEAN]
ProvSteps == Trio \cup {"labels", "agent", "branch", "upsert", "surface", "propose",
                        "starter", "files", "filespr"}

ProvTypeOK ==
  /\ config \in Config /\ secrets \in Secrets
  /\ abandoned \in BOOLEAN
  /\ sealed \in [Trio -> App]
  /\ main \in [wf : Version, files : SUBSET Starter]
  /\ wf \in WfBranch /\ st \in StBranch
  /\ by \in {"wizard", "command"} /\ prs \subseteq {"workflow", "starter"}

NoBranch == [there |-> FALSE, holds |-> 0, pr |-> FALSE]
NoFiles == [there |-> FALSE, holds |-> {}, pr |-> FALSE]

ProvInit ==
  /\ config = [there |-> FALSE, app |-> 0, want |-> 0, fallback |-> FALSE, paired |-> FALSE]
  /\ secrets = [key |-> 0, agent |-> FALSE, fallback |-> FALSE]
  /\ abandoned = FALSE
  /\ sealed = [n \in Trio |-> 0]
  /\ main = [wf |-> 0, files |-> {}]
  /\ wf = NoBranch /\ st = NoFiles
  /\ by = "command" /\ prs = {}

-----------------------------------------------------------------------------
(* The command. *)

\* Every reference of the configuration to a secret has its value.
Loads ==
  /\ config.there
  /\ secrets.key # 0
  /\ config.fallback => secrets.fallback

\* Files are read once, when the command begins.
BeginProvision(who) ==
  /\ by' = who /\ prs' = {}
  /\ pc' = "labels"

\* `fixowl provision': the admin token and the action's ref resolve, or nothing begins.
ProvisionCommand ==
  /\ pc = "idle" /\ Loads
  /\ BeginProvision("command")
  /\ UNCHANGED <<files, remote, abandoned>>

EnsureLabels ==
  /\ pc = "labels"
  /\ pc' = "id"
  /\ UNCHANGED <<files, remote, provVars, abandoned>>

\* One secret of the App's trio, in the order sealRuntimeCredential puts them.
SealRuntimeCredential(i) ==
  LET n == SealSteps[i] IN
  /\ pc = n
  /\ sealed' = [sealed EXCEPT ![n] = IF n = "key" THEN secrets.key ELSE config.app]
  /\ pc' = IF i = Len(SealSteps) THEN "agent" ELSE SealSteps[i + 1]
  /\ UNCHANGED <<files, main, wf, st, provVars, abandoned>>

\* Without the value the command throws (see Stops).
SealAgentEnv ==
  /\ pc = "agent" /\ secrets.agent
  /\ pc' = "branch"
  /\ UNCHANGED <<files, remote, provVars, abandoned>>

\* A branch that is there is reused as it stands; a new one is cut from the default branch.
WorkflowBranch ==
  /\ pc = "branch"
  /\ wf' = IF wf.there THEN wf ELSE [there |-> TRUE, holds |-> main.wf, pr |-> FALSE]
  /\ abandoned' = (abandoned /\ wf.there)
  /\ pc' = "upsert"
  /\ UNCHANGED <<files, sealed, main, st, provVars>>

\* upsertFile: nothing is written when the file on the branch is the wanted one.
UpsertWorkflow ==
  /\ pc = "upsert" /\ wf.there
  /\ wf' = [wf EXCEPT !.holds = config.want]
  /\ pc' = IF wf.holds = config.want THEN "surface" ELSE "propose"
  /\ UNCHANGED <<files, sealed, main, st, provVars, abandoned>>

\* An unchanged file: an open pull request of an earlier run is reported, none is opened.
Surface_Drop ==
  /\ pc = "surface"
  /\ pc' = "starter"
  /\ UNCHANGED <<files, remote, provVars, abandoned>>
Surface ==
  /\ pc = "surface"
  /\ prs' = IF wf.pr THEN prs \cup {"workflow"} ELSE prs
  /\ pc' = "starter"
  /\ UNCHANGED <<files, remote, by, abandoned>>

\* openPrIfMissing: GitHub refuses one for a branch that is gone or already merged.
Propose ==
  /\ pc = "propose"
  /\ wf.pr \/ (wf.there /\ wf.holds # main.wf)
  /\ wf' = [wf EXCEPT !.pr = TRUE]
  /\ abandoned' = FALSE
  /\ prs' = prs \cup {"workflow"}
  /\ pc' = "starter"
  /\ UNCHANGED <<files, sealed, main, st, by>>

\* Files missing from the default branch; an existing branch is only looked at.
StarterFiles ==
  /\ pc = "starter"
  /\ IF main.files = Starter \/ st.there
       THEN /\ pc' = "done"
            /\ prs' = IF main.files # Starter /\ st.pr THEN prs \cup {"starter"} ELSE prs
            /\ UNCHANGED st
       ELSE /\ pc' = "files"
            /\ st' = [there |-> TRUE, holds |-> main.files, pr |-> FALSE]
            /\ UNCHANGED prs
  /\ UNCHANGED <<files, sealed, main, wf, by, abandoned>>

\* One starter file written on the branch, `.fixowl.yml' first.
WriteStarter(f) ==
  /\ pc = "files" /\ st.there /\ f \notin st.holds
  /\ f = "template" => "config" \in st.holds
  /\ st' = [st EXCEPT !.holds = @ \cup {f}]
  /\ pc' = IF st'.holds = Starter THEN "filespr" ELSE "files"
  /\ UNCHANGED <<files, sealed, main, wf, provVars, abandoned>>

ProposeStarter ==
  /\ pc = "filespr"
  /\ st.pr \/ st.there
  /\ st' = [st EXCEPT !.pr = TRUE]
  /\ prs' = prs \cup {"starter"}
  /\ pc' = "done"
  /\ UNCHANGED <<files, sealed, main, wf, by, abandoned>>

\* The branch carries a text that is neither merged nor in an open pull request.
Unproposed == wf.there /\ ~wf.pr /\ wf.holds # main.wf

\* A call fails, or the process is killed: what was written remotely stays.
Stops ==
  /\ pc \in ProvSteps
  /\ pc' = "idle"
  /\ abandoned' = (abandoned \/ Unproposed)
  /\ by' = "command" /\ prs' = {}
  /\ UNCHANGED <<files, remote>>

-----------------------------------------------------------------------------
(* People on GitHub. *)

MergeWorkflow(delete) ==
  /\ wf.pr
  /\ main' = [main EXCEPT !.wf = wf.holds]
  /\ wf' = IF delete THEN NoBranch ELSE [wf EXCEPT !.pr = FALSE]
  /\ UNCHANGED <<files, sealed, st, pc, provVars, abandoned>>

CloseWorkflow(delete) ==
  /\ wf.pr
  /\ wf' = IF delete THEN NoBranch ELSE [wf EXCEPT !.pr = FALSE]
  /\ abandoned' = TRUE
  /\ UNCHANGED <<files, sealed, main, st, pc, provVars>>

MergeStarter(delete) ==
  /\ st.pr
  /\ main' = [main EXCEPT !.files = @ \cup st.holds]
  /\ st' = IF delete THEN NoFiles ELSE [st EXCEPT !.pr = FALSE]
  /\ UNCHANGED <<files, sealed, wf, pc, provVars, abandoned>>

CloseStarter(delete) ==
  /\ st.pr
  /\ st' = IF delete THEN NoFiles ELSE [st EXCEPT !.pr = FALSE]
  /\ UNCHANGED <<files, sealed, main, wf, pc, provVars, abandoned>>

\* A branch that has no pull request is tidied away.
DeleteWorkflowBranch ==
  /\ wf.there /\ ~wf.pr
  /\ wf' = NoBranch
  /\ UNCHANGED <<files, sealed, main, st, pc, provVars, abandoned>>

ProvisionStep ==
  \/ EnsureLabels \/ \E i \in 1 .. Len(SealSteps) : SealRuntimeCredential(i)
  \/ SealAgentEnv \/ WorkflowBranch \/ UpsertWorkflow \/ Surface \/ Propose
  \/ StarterFiles \/ \E f \in Starter : WriteStarter(f)
  \/ ProposeStarter

People ==
  \/ \E delete \in BOOLEAN : MergeWorkflow(delete) \/ CloseWorkflow(delete)
                             \/ MergeStarter(delete) \/ CloseStarter(delete)
  \/ DeleteWorkflowBranch

-----------------------------------------------------------------------------
(* Properties. *)

\* A run that ends well tells of every pull request of its own that is open then, also of one
\* an earlier, failed run opened.
NothingDropped ==
  pc = "done" => /\ wf.pr => "workflow" \in prs
                 /\ st.pr /\ main.files # Starter => "starter" \in prs

\* A run that ends well has the wanted workflow in the default branch or reports it for review;
\* only a stop between the write and the pull request, or a closed one, makes it stay silent.
WorkflowProposed ==
  pc = "done" => main.wf = config.want \/ "workflow" \in prs \/ abandoned

\* A run that ends well tells all that is left for people to merge.
ProvisionTells == NothingDropped /\ WorkflowProposed
=============================================================================
