----------------------------- MODULE ModelChoice -----------------------------
(***************************************************************************)
(* Which provider and model answer: the registry's resolve, the choices    *)
(* `rozu chat` and the app make with it, the agent the factory builds      *)
(* (its vendor sessions are kept and reused), and the choice a saved chat  *)
(* is reopened with.                                                       *)
(*                                                                         *)
(* A model's id is the sequence of its parts between slashes, <<>> when no *)
(* model is given.  Listed keeps of every list the models that matter: its *)
(* default, and one more.  Left out: prices and context windows, base      *)
(* URLs, blanks around a name, Codex's own list of models, and failing     *)
(* writes to the saved chat (SessionStore).                                *)
(***************************************************************************)
EXTENDS Naturals, Sequences, FiniteSets, SequencesExt

CONSTANTS
  Specs,     \* models the user may name, as sequences of parts
  Efforts    \* efforts the user may pick

VARIABLES
  keys,       \* providers with an API key, in the environment or the keychain
  installed,  \* CLI-backed providers whose CLI is installed
  host,       \* what the chat runs in: "none", "cli" or "app"
  selection,  \* ChatTask's: [provider, model, effort]; the CLI's choice
  agent,      \* [provider, model, effort] of the agent's requests
  factory,    \* AgentFactory: [effort, cached], of each CLI the effort it was started with
  saved       \* the meta of the saved chat, and the choice it was left with

vars == <<keys, installed, host, selection, agent, factory, saved>>

None == "none"

-----------------------------------------------------------------------------
(* The registry.                                                           *)
PROVIDERS == <<"openai", "anthropic", "xai", "claude-cli", "codex", "grok">>
CliBacked == {"claude-cli", "codex", "grok"}
Known == ToSet(PROVIDERS)

Listed == [p \in Known |->
  CASE p = "openai" -> {"gpt-6.1-sol", "gpt-6-luna"}
    [] p = "anthropic" -> {"claude-sonnet-5-5", "claude-opus-5-5"}
    [] p = "xai" -> {"grok-4.7", "grok-4.6"}
    [] p = "claude-cli" -> {"sonnet", "opus"}
    [] p = "codex" -> {"default", "gpt-6.1-sol"}
    [] OTHER -> {"default", "grok-4.7"}]
DefaultModel == [p \in Known |->
  CASE p = "openai" -> "gpt-6.1-sol" [] p = "anthropic" -> "claude-sonnet-5-5"
    [] p = "xai" -> "grok-4.7" [] p = "claude-cli" -> "sonnet" [] OTHER -> "default"]
(* The prefixes infer_provider knows, by the ids of the instance that have *)
(* them.                                                                   *)
Infer(id) == CASE id = "claude-next" -> "anthropic" [] id = "grok-next" -> "xai"
               [] id = "gpt-next" -> "openai" [] OTHER -> None

(* The first provider that lists a bare id.                                *)
Lister(id) ==
  LET at == {i \in DOMAIN PROVIDERS : id \in Listed[PROVIDERS[i]]}
  IN IF at = {} THEN None ELSE PROVIDERS[CHOOSE i \in at : \A j \in at : i <= j]

Error == [provider |-> None, model |-> <<>>]
Choice(p, m) == [provider |-> p, model |-> m]

(* A bare id, of the provider given, else of one that lists it, else by    *)
(* its prefix.                                                             *)
ResolveBare(provider, id) ==
  LET p == IF provider # None THEN provider
           ELSE IF Lister(id) # None THEN Lister(id) ELSE Infer(id)
  IN IF p = None THEN Error ELSE Choice(p, <<id>>)

(* registry::resolve.                                                      *)
Resolve(provider, spec) ==
  IF provider \notin Known \cup {None} THEN Error
  ELSE IF spec \in {<<>>, <<"">>}
    THEN LET p == IF provider = None THEN "openai" ELSE provider
         IN Choice(p, <<DefaultModel[p]>>)
  ELSE IF Len(spec) = 1 THEN ResolveBare(provider, spec[1])
  ELSE IF Head(spec) \notin Known \/ provider \notin {None, Head(spec)} THEN Error
  ELSE Choice(Head(spec), Tail(spec))

(* Variant: without a key it is always Claude's CLI.                       *)
DefaultProviderClaude(provider, spec) ==
  IF provider # None \/ spec # <<>> \/ keys # {} THEN provider ELSE "claude-cli"
(* default_provider.                                                       *)
DefaultProvider(provider, spec) ==
  IF provider # None \/ spec # <<>> \/ keys # {} THEN provider
  ELSE IF "claude-cli" \in installed \/ installed = {} THEN "claude-cli"
  ELSE IF "codex" \in installed THEN "codex" ELSE "grok"
ResolveChoice(provider, spec) == Resolve(DefaultProvider(provider, spec), spec)

(* A /model argument: a provider's name, or a model.                       *)
ParseModelSwitch(spec) ==
  IF Len(spec) = 1 /\ spec[1] \in Known THEN Resolve(spec[1], <<>>) ELSE Resolve(None, spec)

(* The app's pin: an alias of Claude's CLI becomes the model's full id.    *)
Pin(choice) ==
  IF choice = Choice("claude-cli", <<"sonnet">>) THEN Choice("claude-cli", <<"claude-sonnet-5-5">>)
  ELSE IF choice = Choice("claude-cli", <<"opus">>) THEN Choice("claude-cli", <<"claude-opus-5-5">>)
  ELSE choice

(* The app's lists: what its menus offer, with the efforts of a provider.  *)
AvailableProviders == SelectSeq(PROVIDERS, LAMBDA p : p \in CliBacked /\ p \in installed)
                      \o SelectSeq(PROVIDERS, LAMBDA p : p \notin CliBacked /\ p \in keys)
Models(p) == {Resolve(p, <<id>>) :
                id \in IF p = "claude-cli" THEN Listed["anthropic"] ELSE Listed[p]} \ {Error}
EffortsOf(p) == IF p \in {"claude-cli", "codex"} THEN Efforts ELSE {}

-----------------------------------------------------------------------------
(* The factory.                                                            *)
NoCache == [p \in CliBacked |-> [started |-> FALSE, effort |-> None]]
NewFactory == [effort |-> None, cached |-> NoCache]

(* Variant: a session of Codex outlives a change of the effort.            *)
SetEffortClaude(f, effort) ==
  IF f.effort = effort THEN f
  ELSE [effort |-> effort, cached |-> [f.cached EXCEPT !["claude-cli"] = NoCache["claude-cli"]]]
SetEffort(f, effort) ==
  IF f.effort = effort THEN f
  ELSE [effort |-> effort,
        cached |-> [p \in CliBacked |-> IF p = "grok" THEN f.cached[p] ELSE NoCache[p]]]

(* AgentFactory::build: the session of a CLI once started is used again,   *)
(* without looking for the CLI.                                            *)
Builds(f, choice) == IF choice.provider \in CliBacked
                     THEN f.cached[choice.provider].started \/ choice.provider \in installed
                     ELSE choice.provider \in keys
Built(f, choice) ==
  IF choice.provider \in CliBacked /\ ~f.cached[choice.provider].started
  THEN [f EXCEPT !.cached[choice.provider] = [started |-> TRUE, effort |-> f.effort]] ELSE f
AgentOf(f, choice) ==
  [provider |-> choice.provider, model |-> choice.model,
   effort |-> IF choice.provider \in CliBacked THEN f.cached[choice.provider].effort ELSE None]

-----------------------------------------------------------------------------
NoChat == [provider |-> None, model |-> <<>>, left |-> Error]
Saved(choice) == [provider |-> choice.provider, model |-> choice.model, left |-> choice]
Idle == host = "none"
Select(choice, effort) == [provider |-> choice.provider, model |-> choice.model, effort |-> effort]

Init ==
  /\ keys \in SUBSET {"openai", "xai"} /\ installed \in SUBSET CliBacked
  /\ host = "none" /\ saved = NoChat
  /\ selection = Select(Error, None) /\ agent = Select(Error, None) /\ factory = NewFactory

(* A new agent for the choice; what fails leaves the chat as it was.       *)
Use(f, choice, effort) ==
  /\ choice # Error /\ Builds(f, choice)
  /\ factory' = Built(f, choice)
  /\ agent' = AgentOf(factory', choice)
  /\ selection' = Select(choice, effort)
  /\ UNCHANGED <<keys, installed>>

(* `rozu chat`, new: the choice is saved with the chat.                    *)
Start(provider, spec) ==
  /\ Idle /\ host' = "cli"
  /\ LET choice == ResolveChoice(provider, spec)
     IN Use(NewFactory, choice, None) /\ saved' = Saved(choice)

(* `rozu chat --resume`, with the model it was left with.                  *)
Resume ==
  /\ Idle /\ saved # NoChat /\ host' = "cli"
  /\ Use(NewFactory, Resolve(saved.provider, saved.model), None)
  /\ UNCHANGED saved

(* /model.                                                                 *)
Switch(spec) ==
  /\ host = "cli" /\ UNCHANGED host
  /\ LET choice == ParseModelSwitch(spec)
     IN Use(factory, choice, None) /\ saved' = Saved(choice)

(* The app starts a new chat with what its menus offer, or reopens the     *)
(* saved one; the menu's choice drops an effort its provider does not take *)
(* and the reopened chat's model is saved again.                           *)
StartInApp(p, choice, effort) ==
  /\ Idle /\ p \in ToSet(AvailableProviders) /\ choice \in Models(p)
  /\ effort \in EffortsOf(p) \cup {None} /\ host' = "app"
  /\ Use(SetEffort(NewFactory, effort), choice, effort) /\ saved' = Saved(choice)
Reopen ==
  /\ Idle /\ saved # NoChat /\ host' = "app"
  /\ LET choice == Pin(Resolve(saved.provider, saved.model))
     IN Use(NewFactory, choice, None) /\ saved' = Saved(choice)

(* A prompt with another selection: the effort is set whether or not the   *)
(* agent can be built.                                                     *)
Prompt(p, choice, effort) ==
  LET f == SetEffort(factory, effort)
  IN /\ host = "app" /\ UNCHANGED host
     /\ p \in ToSet(AvailableProviders) \cup {agent.provider} /\ choice \in Models(p)
     /\ effort \in EffortsOf(p) \cup {None} /\ selection # Select(choice, effort)
     /\ IF Builds(f, choice)
        THEN Use(f, choice, effort) /\ saved' = Saved(choice)
        ELSE factory' = f /\ UNCHANGED <<keys, installed, selection, agent, saved>>

Quit ==
  /\ ~Idle /\ host' = "none" /\ factory' = NewFactory
  /\ selection' = Select(Error, None) /\ agent' = Select(Error, None)
  /\ UNCHANGED <<keys, installed, saved>>

(* Someone installs or removes a CLI.                                      *)
Setup(p) ==
  /\ installed' = IF p \in installed THEN installed \ {p} ELSE installed \cup {p}
  /\ UNCHANGED <<keys, host, selection, agent, factory, saved>>

Next ==
  \/ \E p \in Known \cup {None}, s \in Specs : Start(p, s)
  \/ Resume
  \/ \E s \in Specs : Switch(s)
  \/ \E p \in Known : \E c \in Models(p), e \in Efforts \cup {None} : StartInApp(p, c, e)
  \/ Reopen
  \/ \E p \in Known : \E c \in Models(p), e \in Efforts \cup {None} : Prompt(p, c, e)
  \/ Quit
  \/ \E p \in {"codex"} : Setup(p)

Spec == Init /\ [][Next]_vars

-----------------------------------------------------------------------------
TypeOK ==
  /\ keys \subseteq Known /\ installed \subseteq CliBacked /\ host \in {"none", "cli", "app"}
  /\ factory.effort \in Efforts \cup {None}

(* A chat is answered by what was selected for it: the agent's requests    *)
(* name the selected model, and the vendor session they go to was started  *)
(* with the selected effort, whatever sessions earlier choices (and        *)
(* builds that failed) left in the factory (set_effort, build,             *)
(* ChatTask::run).                                                         *)
AnsweredAsSelected ==
  host # "none" =>
    /\ agent.provider = selection.provider /\ agent.model = selection.model
    /\ agent.provider \in {"claude-cli", "codex"} => agent.effort = selection.effort

(* A chat that goes on from where it was left goes on with the model it    *)
(* was left with, by way of the two strings saved (chat.rs, from_saved).   *)
(* A model whose id has a slash is the exception: SavedChatOpens.          *)
ReopenedAsLeft ==
  saved # NoChat /\ Len(saved.model) = 1 /\ saved.model # <<"">> =>
    Resolve(saved.provider, saved.model) = saved.left

(* Without an API key anywhere, `rozu chat` starts as long as one of the   *)
(* vendor CLIs is installed (default_provider).                            *)
StartsByDefault ==
  keys = {} /\ installed # {} => Builds(NewFactory, ResolveChoice(None, <<>>))

ModelAsChosen == AnsweredAsSelected /\ ReopenedAsLeft /\ StartsByDefault

(* Why: the factory's sessions of the CLIs that take an effort are of its  *)
(* effort, which in `rozu chat` is none, and the saved model is the one    *)
(* that was chosen, of a known provider.                                   *)
Parts == UNION ({ToSet(s) : s \in Specs} \cup {Listed[p] : p \in Known})
IsChoice(choice) ==
  /\ choice.provider \in Known /\ choice.model \in Seq(Parts)
  /\ choice = Choice(choice.provider, choice.model)

SomeEffort == Efforts \cup {None}
Factories == [effort : SomeEffort, cached : [CliBacked -> [started : BOOLEAN, effort : SomeEffort]]]
OneEffort(f) == \A p \in {"claude-cli", "codex"} : f.cached[p].started => f.cached[p].effort = f.effort

ChoiceKept ==
  /\ TypeOK /\ AnsweredAsSelected
  /\ factory \in Factories /\ OneEffort(factory) /\ (host = "cli" => factory.effort = None)
  /\ saved = NoChat \/ (IsChoice(saved.left) /\ saved = Saved(saved.left))

(* "Every chat is saved (see `rozu sessions`) and `--resume [ID]`          *)
(* continues one": what was saved names a model (chat.rs).                 *)
SavedChatOpens == saved # NoChat => Resolve(saved.provider, saved.model) # Error

=============================================================================
