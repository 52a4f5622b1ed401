------------------------------ MODULE Contracts ------------------------------
(***************************************************************************)
(* What the service says it does and what it does: the JSON-RPC methods of *)
(* each family, the deployment profile that switches some of them on, the  *)
(* documents that publish them (agent cards, wire contract, compatibility  *)
(* profile, OpenAPI), the registry that resolves them, and the fields each *)
(* method is documented to take against those its handler takes.           *)
(*                                                                         *)
(* A method is named by its key; a field is a dotted name, so that a call  *)
(* is a method and the set of fields it carries.                           *)
(***************************************************************************)
EXTENDS FiniteSets

SessionControls == {"prompt_async", "command", "shell"}

SessionReads ==
  {"status", "list_sessions", "get_session", "get_session_children",
   "get_session_todo", "get_session_diff", "get_session_message",
   "get_session_messages"}

SessionMutations ==
  {"fork", "share", "unshare", "summarize", "revert", "unrevert"}

SessionMethods == SessionReads \cup SessionMutations \cup SessionControls

ProviderMethods == {"list_providers", "list_models"}

WorkspaceDiscovery ==
  {"list_projects", "get_current_project", "list_workspaces", "list_worktrees"}

WorkspaceMutations ==
  {"create_workspace", "remove_workspace", "create_worktree",
   "remove_worktree", "reset_worktree"}

InterruptRecovery == {"list_permissions", "list_questions"}

InterruptCallbacks == {"reply_permission", "reply_question", "reject_question"}

\* The methods of the A2A library that the service delegates to it.
PushMethods ==
  {"tasks/pushNotificationConfig/set", "tasks/pushNotificationConfig/get",
   "tasks/pushNotificationConfig/list", "tasks/pushNotificationConfig/delete"}

CoreMethods ==
  {"message/send", "message/stream", "tasks/get", "tasks/cancel",
   "tasks/resubscribe", "agent/getAuthenticatedExtendedCard"} \cup PushMethods

ExtensionMethods ==
  SessionMethods \cup ProviderMethods \cup WorkspaceDiscovery
    \cup WorkspaceMutations \cup InterruptRecovery \cup InterruptCallbacks

-----------------------------------------------------------------------------
\* The deployment profile.

Profiles ==
  [shell : BOOLEAN, mutations : BOOLEAN,
   sandbox : {"read-only", "workspace-write"},
   scope : {"none", "workspace_only"}]

MayWrite(profile) == profile.sandbox # "read-only" /\ profile.scope # "none"

ShellEnabled(profile) == profile.shell /\ MayWrite(profile)

MutationsEnabled(profile) == profile.mutations /\ MayWrite(profile)

\* The methods whose availability depends on the deployment, each with it.
Conditional(profile) ==
  [method \in {"shell"} \cup WorkspaceMutations |->
     IF method = "shell" THEN ShellEnabled(profile)
                         ELSE MutationsEnabled(profile)]

IsMethodEnabled(profile, method) ==
  method \in DOMAIN Conditional(profile) => Conditional(profile)[method]

SessionManagement(profile) ==
  SessionMethods \ {method \in {"shell"} : ~ IsMethodEnabled(profile, method)}

\* mutant: the switch that closes the mutations is not consulted
WorkspaceControlAll(profile) == WorkspaceDiscovery \cup WorkspaceMutations

WorkspaceControl(profile) ==
  WorkspaceDiscovery
    \cup {method \in WorkspaceMutations : IsMethodEnabled(profile, method)}

\* The list the unsupported-method error carries and the wire contract shows.
ExtensionsOf(profile) ==
  (SessionMethods \ {"shell"}) \cup ProviderMethods
    \cup WorkspaceControl(profile) \cup InterruptRecovery
    \cup InterruptCallbacks
    \cup {method \in {"shell"} : IsMethodEnabled(profile, method)}

Supported(profile) == CoreMethods \cup ExtensionsOf(profile)

-----------------------------------------------------------------------------
\* The registry: which handler takes a method.

\* The methods the application is built with.
JsonRpcMethods(profile) ==
  SessionManagement(profile) \cup ProviderMethods
    \cup WorkspaceControl(profile) \cup InterruptRecovery
    \cup InterruptCallbacks

Registry(profile) ==
  LET known == JsonRpcMethods(profile)
  IN [session_lifecycle  |-> (SessionReads \ {"list_sessions", "get_session_messages"})
                               \cup SessionMutations,
      session_listing    |-> {"list_sessions", "get_session_messages"},
      provider_discovery |-> ProviderMethods,
      interrupt_query    |-> InterruptRecovery,
      workspace_control  |-> WorkspaceDiscovery \cup (WorkspaceMutations \cap known),
      session_control    |-> {"prompt_async", "command"} \cup ({"shell"} \cap known),
      interrupt_callback |-> InterruptCallbacks]

Resolvable(profile) ==
  UNION {Registry(profile)[handler] : handler \in DOMAIN Registry(profile)}

HandlerOf(profile, method) ==
  CHOOSE handler \in DOMAIN Registry(profile) :
    method \in Registry(profile)[handler]

-----------------------------------------------------------------------------
\* The documents: the methods each one offers, those it names at all, and
\* those it declares to be closed.

\* The flags name the switch of a method and not its position: they are the
\* same whether it is open or closed, as is the stability of the upstream.
SessionManagementParams(profile) ==
  [methods |-> SessionManagement(profile), flags |-> {"shell"}]

WorkspaceControlParams(profile) ==
  [methods   |-> WorkspaceControl(profile),
   flags     |-> WorkspaceMutations,
   stability |-> WorkspaceDiscovery \cup WorkspaceMutations]

\* The profile's entry for each method: always there, or as deployed.
MethodRetention(profile) ==
  [method \in CoreMethods \cup ExtensionMethods |->
     IF method \in DOMAIN Conditional(profile)
       THEN IF Conditional(profile)[method] THEN "enabled" ELSE "disabled"
       ELSE "always"]

WireContract(profile) ==
  [all |-> Supported(profile),
   unavailable |-> {method \in DOMAIN Conditional(profile) :
                      ~ Conditional(profile)[method]}]

OpenApiDescription(profile) ==
  SessionManagement(profile) \cup ProviderMethods
    \cup WorkspaceControl(profile) \cup InterruptRecovery
    \cup InterruptCallbacks

\* The mutation examples all hang on the switch of create_workspace.
OpenApiExamples(profile) ==
  {"message/send", "message/stream"} \cup (SessionMethods \ {"shell"})
    \cup ProviderMethods \cup WorkspaceDiscovery \cup InterruptRecovery
    \cup InterruptCallbacks
    \cup {method \in {"shell"} : IsMethodEnabled(profile, method)}
    \cup {method \in WorkspaceMutations :
            IsMethodEnabled(profile, "create_workspace")}

SkillExamples(profile) ==
  (SessionMethods \ {"shell"}) \cup ProviderMethods \cup InterruptRecovery
    \cup {"list_projects", "list_workspaces"}
    \cup {method \in {"shell", "create_worktree"} :
            IsMethodEnabled(profile, method)}

Listing(methods) == [offered |-> methods, named |-> methods, closed |-> {}]

\* What carries every contract, with the two profiles, and examples besides.
Document(profile, examples) ==
  LET session   == SessionManagementParams(profile)
      workspace == WorkspaceControlParams(profile)
      retained  == MethodRetention(profile)
      wire      == WireContract(profile)
      offered   == examples \cup session.methods \cup ProviderMethods
                     \cup workspace.methods \cup InterruptRecovery
                     \cup InterruptCallbacks \cup wire.all
  IN [offered |-> offered,
      named   |-> offered \cup session.flags \cup workspace.flags
                    \cup workspace.stability \cup DOMAIN retained
                    \cup wire.unavailable,
      closed  |-> wire.unavailable]

ExtendedCard(profile) == Document(profile, SkillExamples(profile))

OpenApi(profile) ==
  Document(profile, OpenApiDescription(profile) \cup OpenApiExamples(profile))

\* The public card carries the names of the interrupt callbacks only.
PublicCard == Listing(InterruptCallbacks)

-----------------------------------------------------------------------------
\* The documented fields of a method.

Metadata == {"metadata.directory", "metadata.workspace"}

Routing == {"directory"} \cup Metadata

NeedsNoSession ==
  {"status", "list_sessions"} \cup ProviderMethods \cup WorkspaceDiscovery
    \cup WorkspaceMutations \cup InterruptRecovery \cup InterruptCallbacks

PromptFields ==
  {"request.messageID", "request.model", "request.agent", "request.noReply",
   "request.tools", "request.format", "request.system", "request.variant"}

RequiredParams(method) ==
  (IF method \in NeedsNoSession THEN {} ELSE {"session_id"}) \cup
  CASE method = "get_session_message" -> {"message_id"}
    [] method = "prompt_async" -> {"request.parts"}
    [] method = "command" -> {"request.command", "request.arguments"}
    [] method = "shell" -> {"request.agent", "request.command"}
    [] method = "revert" -> {"request.messageID"}
    [] method = "create_workspace" -> {"request.type"}
    [] method = "remove_workspace" -> {"workspace_id"}
    [] method \in {"remove_worktree", "reset_worktree"} -> {"request.directory"}
    [] method = "reply_permission" -> {"request_id", "reply"}
    [] method = "reply_question" -> {"request_id", "answers"}
    [] method = "reject_question" -> {"request_id"}
    [] OTHER -> {}

OptionalParams(method) ==
  CASE method = "status" -> {"directory", "metadata.workspace"}
    [] method = "list_sessions" ->
         {"limit", "directory", "metadata.workspace", "roots", "start", "search",
          "query.limit", "query.directory", "query.roots", "query.start",
          "query.search"}
    [] method = "get_session_messages" ->
         {"limit", "before", "metadata.workspace", "query.limit", "query.before"}
    [] method = "get_session_diff" -> Routing \cup {"message_id"}
    [] method = "prompt_async" -> PromptFields \cup (Routing \ {"directory"})
    [] method = "command" ->
         {"request.messageID", "request.agent", "request.model",
          "request.variant", "request.parts"} \cup (Routing \ {"directory"})
    [] method = "shell" -> {"request.model"} \cup (Routing \ {"directory"})
    [] method = "fork" -> Routing \cup {"request.messageID"}
    [] method = "summarize" ->
         Routing \cup {"request.providerID", "request.modelID", "request.auto"}
    [] method = "revert" -> Routing \cup {"request.partID"}
    [] method \in {"get_session", "get_session_children", "get_session_todo",
                   "get_session_message", "share", "unshare", "unrevert"} -> Routing
    [] method = "list_models" -> {"provider_id"}
    [] method = "create_workspace" ->
         {"request.id", "request.branch", "request.extra"}
    [] method = "create_worktree" -> {"request.name", "request.startCommand"}
    [] method = "reply_permission" -> {"message"} \cup Metadata
    [] method \in {"reply_question", "reject_question"} -> Metadata
    [] OTHER -> {}

Conforms(method, fields) ==
  /\ RequiredParams(method) \subseteq fields
  /\ fields \subseteq RequiredParams(method) \cup OptionalParams(method)

-----------------------------------------------------------------------------
\* The fields a handler takes; "request" stands for an empty request object.

\* mutant: the diff of one message cannot be asked for
LifecycleAllowsNoDiff(method) ==
  Metadata \cup {"directory"}
    \cup (IF method = "status" THEN {} ELSE {"session_id"})
    \cup CASE method = "get_session_message" -> {"message_id"}
           [] method = "fork" -> {"request", "request.messageID"}
           [] method = "summarize" ->
                {"request", "request.providerID", "request.modelID",
                 "request.auto"}
           [] method = "revert" ->
                {"request", "request.messageID", "request.partID"}
           [] OTHER -> {}

LifecycleAllows(method) ==
  Metadata \cup {"directory"}
    \cup (IF method = "status" THEN {} ELSE {"session_id"})
    \cup CASE method \in {"get_session_diff", "get_session_message"} -> {"message_id"}
           [] method = "fork" -> {"request", "request.messageID"}
           [] method = "summarize" ->
                {"request", "request.providerID", "request.modelID",
                 "request.auto"}
           [] method = "revert" ->
                {"request", "request.messageID", "request.partID"}
           [] OTHER -> {}

\* A summary names its model whole or not at all.
LifecycleNeeds(method, fields) ==
  (IF method = "status" THEN {} ELSE {"session_id"}) \cup
  CASE method = "get_session_message" -> {"message_id"}
    [] method = "revert" -> {"request.messageID"}
    [] method = "summarize" /\
       fields \cap {"request.providerID", "request.modelID", "request.auto"} # {} ->
         {"request.providerID", "request.modelID"}
    [] OTHER -> {}

RequestFields ==
  PromptFields \cup
  {"request", "request.parts", "request.command", "request.arguments",
   "request.bogus"}

ControlAllows(method) ==
  Metadata \cup {"session_id", "request"} \cup
  CASE method = "prompt_async" -> {"request.parts"} \cup PromptFields
    [] method = "command" ->
         {"request.command", "request.arguments", "request.messageID",
          "request.agent", "request.model", "request.variant", "request.parts"}
    [] method = "shell" -> {"request.agent", "request.command", "request.model"}

ControlNeeds(method) ==
  {"session_id"} \cup
  CASE method = "prompt_async" -> {"request.parts"}
    [] method = "command" -> {"request.command", "request.arguments"}
    [] method = "shell" -> {"request.agent", "request.command"}

WorkspaceAllows(method) ==
  Metadata \cup
  CASE method = "create_workspace" ->
         {"request", "request.id", "request.type", "request.branch",
          "request.extra"}
    [] method = "create_worktree" ->
         {"request", "request.name", "request.startCommand"}
    [] method \in {"remove_worktree", "reset_worktree"} ->
         {"request", "request.directory"}
    [] method = "remove_workspace" -> {"workspace_id"}
    [] OTHER -> {}

\* A request object must be there even if every field of it is optional.
WorkspaceNeeds(method, fields) ==
  CASE method = "create_workspace" -> {"request.type"}
    [] method \in {"remove_worktree", "reset_worktree"} -> {"request.directory"}
    [] method = "remove_workspace" -> {"workspace_id"}
    [] method = "create_worktree"
         /\ fields \cap {"request.name", "request.startCommand"} = {} ->
         {"request"}
    [] OTHER -> {}

ListingRefuses ==
  {"cursor", "page", "size", "query.cursor", "query.page", "query.size"}

Validates(handler, method, fields) ==
  CASE handler = "session_lifecycle" ->
         /\ fields \subseteq LifecycleAllows(method)
         /\ LifecycleNeeds(method, fields) \subseteq fields
    [] handler = "session_control" ->
         /\ fields \subseteq ControlAllows(method)
         /\ ControlNeeds(method) \subseteq fields
    [] handler = "session_listing" ->
         /\ fields \cap ListingRefuses = {}
         /\ method = "get_session_messages" => "session_id" \in fields
    [] handler = "provider_discovery" ->
         fields \subseteq Metadata \cup
           (IF method = "list_models" THEN {"provider_id"} ELSE {})
    [] handler = "workspace_control" ->
         /\ fields \subseteq WorkspaceAllows(method)
         /\ WorkspaceNeeds(method, fields) \subseteq fields
    [] handler = "interrupt_query" -> fields = {}
    [] handler = "interrupt_callback" ->
         /\ RequiredParams(method) \subseteq fields
         /\ fields \subseteq RequiredParams(method) \cup Metadata
              \cup (IF method = "reply_permission" THEN {"message"} ELSE {})
=============================================================================
