------------------------------ MODULE ConfigEdit ------------------------------
(***************************************************************************)
(* config.yaml: what `fixowl init' writes (cli/src/init/config-file.ts),   *)
(* how a repository's settings are resolved from it (core's                *)
(* config-schema.ts), and what an editing session of `fixowl edit' does to *)
(* it (cli/src/commands/edit.ts, with the questions of init.ts).           *)
(*                                                                         *)
(* A setting stands for the fields handled alike: "trigger" for those with *)
(* a built-in value (schedule, labels, max_issues_per_run, the timeouts,   *)
(* tries and heuristic flag too), "priority" for those no wizard asks for. *)
(* "labels" is label_models: the agent whose catalog its choices are from. *)
(* secrets.env and the labels the wizard may create on GitHub are left out.*)
(* People edit the file by hand, but not during a session.                 *)
(***************************************************************************)
EXTENDS Naturals, FiniteSets

CONSTANTS
  Repos,        \* the repositories of the file
  Base,         \* the first of them: its answers become the defaults
  MaxChanges,   \* bound on the questions not answered by Enter: of init, of an edit
  MaxEdits      \* bound on the edits, of a repository in a session or by hand

ASSUME ReposAssumption == Base \in Repos
ASSUME ChangesAssumption == {MaxChanges, MaxEdits} \subseteq Nat

VARIABLES
  file,      \* config.yaml: its defaults, its entries, the env of each agent
  writer,    \* who wrote it last
  session,   \* the editing session, or NoSession
  asked,     \* history: the last answers given for each repository, or NoAnswers
  edits      \* how many edits there were

editVars == <<file, writer, session, asked, edits>>

None == "none"
Or(x, y) == IF x # None THEN x ELSE y

-----------------------------------------------------------------------------
(* The file and what it resolves to *)

Agents == {"claude", "codex", "script"}

\* The values each setting takes in this model.
Dom ==
  [trigger |-> {"github-cron", "host-scheduler", "both"},
   usage |-> {"percent"}, tokens |-> {"some", "lots"}, minutes |-> {"short"},
   model |-> {"opus", "gpt"}, effort |-> {"max", "minimal"}, labels |-> {"claude", "codex"},
   agent |-> Agents, mode |-> {"self-hosted", "github-hosted"}, priority |-> {"high"}]

Settings == DOMAIN Dom
Asked == Settings \ {"agent", "mode", "priority"}
Budgets == {"usage", "tokens", "minutes"}
Optional == Budgets \cup {"model", "effort"}

\* FIXOWL_DEFAULTS, where it is a resolution fallback.
Builtin ==
  [f \in Settings |-> CASE f = "trigger" -> "both" [] f = "agent" -> "claude"
                        [] f = "mode" -> "self-hosted" [] OTHER -> None]

\* repoDefaults: the defaults block, then the built-in value.
RepoDefault(config, f) == Or(config.defaults[f], Builtin[f])

\* resolveRepoSettings: the entry, then the defaults. Label models are never in the defaults.
Resolve(config, r) ==
  [f \in Settings |-> Or(config.entries[r][f], RepoDefault(config, f))]

\* The environment the agent of a repository gets: shared by all that run the agent.
AgentEnv(config, r) == config.env[Resolve(config, r).agent]

Billing(agent, env) ==
  IF agent = "claude" /\ env = "apikey" THEN "api-credit"
  ELSE [claude |-> "subscription", codex |-> "api-credit", script |-> "free"][agent]

\* The catalog: a model and an effort of each agent that has the choice.
HasCatalog(agent) == agent # "script"
CatalogModel(agent) == IF agent = "codex" THEN "gpt" ELSE "opus"
CatalogEffort(agent) == IF agent = "codex" THEN "minimal" ELSE "max"

\* validateModelEffort of a repository's settings: codex takes any model, its list is live.
SelectionErrors(s) ==
  IF HasCatalog(s.agent)
  THEN \/ s.agent # "codex" /\ s.model \notin {None, CatalogModel(s.agent)}
       \/ s.effort \notin {None, CatalogEffort(s.agent)}
       \/ s.labels \notin {None, s.agent}
  ELSE {s.model, s.effort, s.labels} # {None}

\* globalConfigSchemaChecked
Valid(config) == \A r \in Repos : ~SelectionErrors(Resolve(config, r))
-----------------------------------------------------------------------------
(* The questions about one repository *)

\* promptRepoSettings and stepModelSelection: what can be answered, given the prefill.
Answers(agent, env, prefill, editing) ==
  LET catalog == HasCatalog(agent)
      kept(f) == IF editing THEN {prefill[f]} \ {None} ELSE {}
  IN  {a \in
        [trigger : IF prefill.mode = "github-hosted" THEN {"github-cron"} ELSE Dom.trigger,
         usage   : IF editing /\ Billing(agent, env) = "subscription" THEN {prefill.usage} ELSE {None},
         tokens  : IF Billing(agent, env) = "api-credit" THEN Dom.tokens \cup {None} ELSE {None},
         minutes : Dom.minutes \cup {None},
         model   : {None} \cup IF catalog THEN {CatalogModel(agent)} \cup kept("model") ELSE {},
         effort  : {None} \cup IF catalog THEN {CatalogEffort(agent)} \cup kept("effort") ELSE {},
         labels  : {None} \cup IF catalog THEN {agent} \cup kept("labels") ELSE {}]
      : (a.model = None) = (a.effort = None)}

\* The answers of someone who presses Enter at every question.
Enter(agent, env, prefill, editing) ==
  LET catalog == HasCatalog(agent)
      model == IF ~editing THEN CatalogModel(agent) ELSE prefill.model
  IN  [trigger |-> IF prefill.mode = "github-hosted" THEN "github-cron" ELSE prefill.trigger,
       usage   |-> IF editing /\ Billing(agent, env) = "subscription" THEN prefill.usage ELSE None,
       tokens  |-> IF Billing(agent, env) = "api-credit" THEN prefill.tokens ELSE None,
       minutes |-> prefill.minutes,
       model   |-> IF catalog THEN model ELSE None,
       effort  |-> IF ~catalog \/ model = None THEN None
                   ELSE IF editing THEN Or(prefill.effort, CatalogEffort(agent))
                   ELSE CatalogEffort(agent),
       labels  |-> IF catalog /\ editing THEN prefill.labels ELSE None]

\* What is given: Enter but for at most n questions (a model and its effort are one).
Changes(a, enter) == Cardinality({f \in Asked \ {"effort"} : a[f] # enter[f]})
Given(agent, env, prefill, editing, n) ==
  {a \in Answers(agent, env, prefill, editing) :
     Changes(a, Enter(agent, env, prefill, editing)) <= n}

\* stepAgent: the agents of the wizard, claude on one of two credentials.
AgentChoices == {<<"claude", "oauth">>, <<"claude", "apikey">>, <<"codex", "openai">>}
-----------------------------------------------------------------------------
(* fixowl init *)

\* liftedField: a model or effort every repository agrees on.
Lifted(answers, f) ==
  IF \A r \in Repos : answers[r][f] = answers[Base][f] THEN answers[Base][f] ELSE None

RenderDefaults_Labels(agent, mode, answers) ==
  [f \in Settings |->
     CASE f = "agent" -> agent
       [] f = "mode" -> IF mode = "github-hosted" THEN mode ELSE None
       [] f \in {"model", "effort"} -> Lifted(answers, f)
       [] f = "priority" -> None
       [] OTHER -> answers[Base][f]]

RenderDefaults(agent, mode, answers) ==
  [f \in Settings |->
     CASE f = "agent" -> agent
       [] f = "mode" -> IF mode = "github-hosted" THEN mode ELSE None
       [] f \in {"model", "effort"} -> Lifted(answers, f)
       [] f \in {"labels", "priority"} -> None
       [] OTHER -> answers[Base][f]]

\* modelEffortLines, labelModelsBlock and, for the later repositories, repoOverrideLines.
RenderEntry(r, answers) ==
  [f \in Settings |->
     CASE f \in {"model", "effort"} -> IF Lifted(answers, f) = None THEN answers[r][f] ELSE None
       [] f = "labels" -> answers[r].labels
       [] f \in Asked \ {"model", "effort", "labels"} ->
            IF answers[r][f] # answers[Base][f] THEN answers[r][f] ELSE None
       [] OTHER -> None]

RenderConfig(agent, env, mode, answers) ==
  [defaults |-> RenderDefaults(agent, mode, answers),
   entries  |-> [r \in Repos |-> RenderEntry(r, answers)],
   env      |-> [x \in Agents |-> IF x = agent THEN env ELSE None]]

\* stepRepos: the first repository starts from the starter values, the next from its answers.
StarterAnswers(mode) ==
  [trigger |-> IF mode = "github-hosted" THEN "github-cron" ELSE "host-scheduler",
   mode |-> mode, tokens |-> "some", minutes |-> "short"]
Sticky(mode, a) ==
  [trigger |-> a.trigger, mode |-> mode, tokens |-> a.tokens, minutes |-> a.minutes]

Said(a, agent, by) == [a |-> a, agent |-> agent, by |-> by]
NoAnswers == [a |-> None]
NoSession == [text |-> None]

EditInit ==
  /\ \E choice \in AgentChoices, mode \in Dom.mode :
       \E first \in Given(choice[1], choice[2], StarterAnswers(mode), FALSE, MaxChanges) :
         LET enter == Enter(choice[1], choice[2], StarterAnswers(mode), FALSE)
             left == MaxChanges - Changes(first, enter)
             next == Given(choice[1], choice[2], Sticky(mode, first), FALSE, left)
         IN  \E rest \in [Repos \ {Base} -> next] :
           LET answers == [r \in Repos |-> IF r = Base THEN first ELSE rest[r]]
           IN  /\ file = RenderConfig(choice[1], choice[2], mode, answers)
               /\ asked = [r \in Repos |-> Said(answers[r], choice[1], "init")]
  /\ writer = "init" /\ session = NoSession /\ edits = 0
-----------------------------------------------------------------------------
(* fixowl edit *)

NoSwitch == <<None, None>>
InSession == session # NoSession

\* Someone changes a line of the file.
HandEdit ==
  /\ ~InSession /\ edits < MaxEdits
  /\ \E f \in Settings : \E v \in Dom[f] \cup {None} :
       \/ /\ f # "labels" /\ file.defaults[f] # v
          /\ file' = [file EXCEPT !.defaults[f] = v]
       \/ \E r \in Repos : /\ file.entries[r][f] # v
                           /\ file' = [file EXCEPT !.entries[r][f] = v]
  /\ writer' = "hand" /\ asked' = [r \in Repos |-> NoAnswers] /\ edits' = edits + 1
  /\ UNCHANGED session

\* makeContext loads the configuration once; the text is read then and threaded through.
Open ==
  /\ ~InSession /\ edits < MaxEdits
  /\ session' = [config |-> file, text |-> file, changed |-> FALSE, entered |-> TRUE,
                 said |-> [r \in Repos |-> NoAnswers], again |-> {}, switched |-> {}]
  /\ UNCHANGED <<file, writer, asked, edits>>

Place_Builtin(config, f, value) == IF value = Builtin[f] THEN None ELSE value

\* place and placeOptional: a value equal to the default drops the key, and so does a blank.
Place(config, f, value) == IF value = RepoDefault(config, f) THEN None ELSE value

\* applyRepoChanges writes what differs from the settings loaded at the start.
ApplyRepoChanges(text, config, r, a) ==
  [text EXCEPT !.entries[r] =
     [f \in Settings |-> IF f \in Asked /\ a[f] # Resolve(config, r)[f]
                         THEN Place(config, f, a[f]) ELSE text.entries[r][f]]]

ApplyAgentSwitch_Default(text, config, r, switch) ==
  [text EXCEPT !.defaults.agent = switch[1], !.env[switch[1]] = switch[2]]

\* The agent of this repository, and the environment of the agent, whoever runs it.
ApplyAgentSwitch(text, config, r, switch) ==
  [text EXCEPT !.entries[r].agent = Place(config, "agent", switch[1]),
               !.env[switch[1]] = switch[2]]

\* A switched agent starts its model selection fresh.
Editing_Always(switch) == TRUE
Editing_Never(switch) == FALSE
Editing(switch) == switch = NoSwitch

EditRepo(r, switch) ==
  LET current == Resolve(session.config, r)
      agent == IF switch = NoSwitch THEN current.agent ELSE switch[1]
      env == IF switch = NoSwitch THEN AgentEnv(session.config, r) ELSE switch[2]
      switched == IF switch = NoSwitch THEN session.text
                  ELSE ApplyAgentSwitch(session.text, session.config, r, switch)
      enter == Enter(agent, env, current, Editing(switch))
  IN  /\ InSession /\ edits < MaxEdits
      /\ \E a \in Given(agent, env, current, Editing(switch), MaxChanges) :
           session' = [session EXCEPT
             !.text = ApplyRepoChanges(switched, session.config, r, a),
             !.changed = @ \/ switch # NoSwitch \/ \E f \in Asked : a[f] # current[f],
             !.entered = @ /\ switch = NoSwitch /\ a = enter,
             !.again = IF session.said[r] = NoAnswers THEN @ ELSE @ \cup {r},
             !.said[r] = Said(a, agent, "edit"),
             !.switched = (@ \cup {switch[1]}) \ {None}]
      /\ edits' = edits + 1 /\ UNCHANGED <<file, writer, asked>>

\* The session is over: nothing to write, or the produced text is written if it is valid.
CanWrite == Valid(session.text)

Save ==
  /\ InSession /\ session.changed /\ CanWrite
  /\ file' = session.text /\ writer' = "edit" /\ session' = NoSession
  /\ asked' = [r \in Repos |-> IF r \in session.again THEN NoAnswers
                               ELSE IF session.said[r] # NoAnswers THEN session.said[r]
                               ELSE asked[r]]
  /\ UNCHANGED edits

Refuse ==
  /\ InSession /\ session.changed /\ ~CanWrite
  /\ session' = NoSession /\ UNCHANGED <<file, writer, asked, edits>>

\* Nothing changed, or the wizard was left.
Leave ==
  /\ InSession /\ session' = NoSession /\ UNCHANGED <<file, writer, asked, edits>>

EditNext ==
  \/ HandEdit \/ Open \/ Save \/ Refuse \/ Leave
  \/ \E r \in Repos, switch \in AgentChoices \cup {NoSwitch} : EditRepo(r, switch)

EditSpec == EditInit /\ [][EditNext]_editVars
-----------------------------------------------------------------------------
(* Properties *)

HasKey(f, v) == v \in Dom[f] \cup {None}
IsConfig(c) ==
  /\ DOMAIN c = {"defaults", "entries", "env"}
  /\ DOMAIN c.defaults = Settings /\ c.defaults.labels = None /\ DOMAIN c.env = Agents
  /\ \A f \in Settings : HasKey(f, c.defaults[f]) /\ \A r \in Repos : HasKey(f, c.entries[r][f])

EditTypeOK ==
  /\ IsConfig(file) /\ writer \in {"init", "edit", "hand"}
  /\ InSession => /\ IsConfig(session.config) /\ IsConfig(session.text)
                  /\ session.config = file /\ session.again \subseteq Repos
                  /\ session.switched \subseteq Agents
  /\ DOMAIN asked = Repos /\ edits \in 0..MaxEdits

\* Each repository resolves to what was last answered for it, by init or in a session, however
\* many other repositories were edited since; a blank is the default's value instead (of init
\* only a blank budget is). Not said of a repository edited twice in one session, whose second
\* edit is compared with the file as it was before the first.
FileSaysWhatWasAsked ==
  \A r \in Repos : asked[r] # NoAnswers =>
    LET got == Resolve(file, r)
        inherits == IF asked[r].by = "edit" THEN Optional ELSE Budgets
    IN  /\ got.agent = asked[r].agent
        /\ \A f \in Asked :
             \/ got[f] = asked[r].a[f]
             \/ f \in inherits /\ asked[r].a[f] = None /\ got[f] = file.defaults[f]

\* What init and edit write passes the strict schema: no agent with a model or an effort that is
\* another's, whoever has switched agents.
WrittenIsValid == writer # "hand" => Valid(file)

\* What is written is what was asked for, and loads.
WrittenAsAsked == FileSaysWhatWasAsked /\ WrittenIsValid

Saves == session # NoSession /\ writer' = "edit" /\ file' = session.text
Edited(r) == session.said[r] # NoAnswers

\* The settings the questions do not reach from these, which an edit may therefore change though
\* every question was answered by Enter: the budget of the other kind of billing, an effort
\* without a model or a model without an effort, the trigger of a hosted runner, and the models
\* of an agent without a catalog.
Unreached(s, env) ==
  {f \in Asked :
     \/ f = "tokens" /\ Billing(s.agent, env) # "api-credit"
     \/ f = "usage" /\ Billing(s.agent, env) # "subscription"
     \/ f = "effort" /\ (s.model = None) # (s.effort = None)
     \/ f = "trigger" /\ s.mode = "github-hosted"
     \/ f \in {"model", "effort", "labels"} /\ ~HasCatalog(s.agent)}

\* A session of nothing but Enter keeps every setting the questions reach.
EnterKeeps ==
  [][session # NoSession /\ session' = NoSession /\ session.entered =>
       \A r \in Repos : \A f \in Settings \ Unreached(Resolve(file, r), AgentEnv(file, r)) :
         Resolve(file', r)[f] = Resolve(file, r)[f]]_editVars

\* Saving leaves the repositories that were not edited as they were; the credential of their
\* agent changes only if a repository was switched to that same agent.
OthersAreLeftAlone ==
  [][Saves => \A r \in Repos : Edited(r) \/
       /\ Resolve(file', r) = Resolve(file, r)
       /\ \/ AgentEnv(file', r) = AgentEnv(file, r)
          \/ Resolve(file, r).agent \in session.switched]_editVars

\* A session is refused, and all its edits lost, only if the file was wrong before, or a blank
\* model or effort inherited the default of another agent, or a repository was edited twice.
RefusedOnlyByInheritance ==
  [][Refuse => \/ ~Valid(file) \/ session.again # {}
               \/ \E r \in Repos : Edited(r) /\ \E f \in {"model", "effort"} :
                    session.said[r].a[f] = None /\ file.defaults[f] # None]_editVars
=============================================================================
