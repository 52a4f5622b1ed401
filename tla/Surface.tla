------------------------------- MODULE Surface -------------------------------
(***************************************************************************)
(* One HTTP request on its way through the service: the stack of           *)
(* middlewares (authentication, payload log, method aliases, REST payload  *)
(* guard, body limit, card cache, version negotiation), the JSON-RPC       *)
(* dispatch, a handler's validation, routing, session claim, upstream call *)
(* and the mapping of what the upstream answered, and the documents.       *)
(*                                                                         *)
(* The body is its size, its shape and what it calls: a method and the set *)
(* of fields it carries. What other modules describe is one step here: the *)
(* methods of the A2A library (TaskService), the task listing              *)
(* (TaskListing), the interrupt methods (Interrupts).                      *)
(***************************************************************************)
EXTENDS Contracts, Integers

CONSTANT Cases    \* the deployments, each with a request made of it

VARIABLES
  conf,       \* the deployment
  req,        \* the request as it came
  stage,      \* the stage it has reached
  principal,  \* the credential it was authenticated with, or "none"
  buffered,   \* how much of the body the service holds in memory
  logged,     \* what the log shows of the body
  method,     \* the method the inner application reads
  negotiated, \* the protocol version agreed on, or "none"
  claim,      \* the claim this request took on its session
  owner,      \* who owns the session, or has come to hold it: "nobody",
              \* "caller" or "other"
  forked,     \* the same of the session a fork has made, "none" before
  called,     \* TRUE once the upstream was asked
  shown,      \* the methods the answer offers, names and declares closed
  answer      \* what the client gets: its kind and, of an error, its format

surfaceVars == <<conf, req, stage, principal, buffered, logged, method, negotiated,
          claim, owner, forked, called, shown, answer>>

reading == <<principal, buffered, logged, method, negotiated>>
custody == <<claim, owner, forked>>
working == <<custody, called>>

Capabilities == {"session_shell", "workspace_mutation"}

\* A credential that is recognised has no capability, one of them, or both.
Recognised == {"plain", "both"} \cup Capabilities

Credentials == {"none", "wrong"} \cup Recognised

Versions == {"absent", "0.3", "1.0", "1.1", "junk"}

SupportedVersions == {"0.3", "1.0"}

ASSUME CasesAssumption ==
  \A case \in Cases :
    /\ case.conf.profile \in Profiles /\ case.conf.default \in SupportedVersions
    /\ case.conf.limit \in Nat /\ case.req.size \in Nat
    /\ case.req.owner \in {"nobody", "caller", "other"}

NoAnswer == [kind |-> "none", format |-> "none"]

Stages ==
  {"auth", "log", "alias", "shape", "limit", "card", "version", "endpoint",
   "validate", "route", "claim", "invoke", "finalize", "adopt", "release",
   "done"}

Refusals ==
  {"toolarge", "badshape", "version", "unsupported", "badparams", "forbidden",
   "sessionforbidden", "notfound", "upstream", "unreachable", "payload",
   "internal"}

Answers ==
  {"unauthorized", "notmodified", "card", "document", "delegated",
   "nocontent", "notallowed", "success", "crash"} \cup Refusals

SurfaceInit ==
  /\ \E case \in Cases : conf = case.conf /\ req = case.req
  /\ stage = "auth"
  /\ principal = "none" /\ buffered = 0 /\ logged = "nothing"
  /\ method = req.method /\ negotiated = "none"
  /\ claim = "none" /\ owner = req.owner /\ forked = "none"
  /\ called = FALSE /\ shown = Listing({}) /\ answer = NoAnswer

\* The handlers by method, as the registry of each deployment holds them.
MethodMap ==
  [profile \in Profiles |->
     [m \in Resolvable(profile) |-> HandlerOf(profile, m)]]

Handler == MethodMap[conf.profile][method]

-----------------------------------------------------------------------------
\* Leaving.

Proceed(to) == stage' = to

\* mutant: errors take the configured version, whatever the client asked for
ErrorVersionConfigured == conf.default

\* The version an error is formatted for, before and after the negotiation.
ErrorVersion ==
  IF negotiated # "none" THEN negotiated
  ELSE IF req.version # "absent" THEN req.version
  ELSE conf.default

FormatFor(version) == IF version \in {"1.0", "1.1"} THEN "v1" ELSE "legacy"

Answer(kind) ==
  /\ answer' = [kind |-> kind, format |-> "none"]
  /\ Proceed("done")

\* A version that does not parse makes the error itself fail.
Refused(kind, version) ==
  IF version = "junk" THEN [kind |-> "crash", format |-> "none"]
                      ELSE [kind |-> kind, format |-> FormatFor(version)]

Refuse(kind) ==
  /\ answer' = Refused(kind, ErrorVersion)
  /\ Proceed("done")

-----------------------------------------------------------------------------
\* The body: read once, by the first middleware that wants it.

Unlimited == conf.limit = 0

Fits == Unlimited \/ req.size <= conf.limit

\* mutant: only the declared length is held against the limit
HeldUndeclared == IF req.declared /\ ~ Fits THEN 0 ELSE req.size

\* What is held of the body after trying to read it: a declared length is
\* judged before a byte is read, the rest as it streams in.
Held ==
  IF Fits THEN req.size
  ELSE IF req.declared THEN 0
  ELSE conf.limit

ReadOrRefuse == buffered' = Held

-----------------------------------------------------------------------------
\* The middlewares, from the outside in.

Exempt == req.verb = "OPTIONS" \/ req.path = "card"

Authenticate ==
  /\ stage = "auth"
  /\ IF Exempt
     THEN /\ Proceed("log") /\ UNCHANGED <<principal, answer>>
     ELSE IF req.cred \in Recognised
     THEN /\ principal' = req.cred /\ Proceed("log") /\ UNCHANGED answer
     ELSE Answer("unauthorized") /\ UNCHANGED principal
  /\ UNCHANGED <<conf, req, buffered, logged, method, negotiated, working, shown>>

\* mutant: only the methods that are deployed are known to be sensitive
SensitiveDeployed ==
  SessionManagement(conf.profile) \cup InterruptCallbacks
    \cup InterruptRecovery \cup WorkspaceControl(conf.profile)

SensitiveMethods ==
  SessionMethods \cup InterruptCallbacks \cup InterruptRecovery
    \cup WorkspaceDiscovery \cup WorkspaceMutations

Omits ==
  \/ ~ req.json
  \/ conf.logLimit > 0 /\ (~ req.declared \/ req.size > conf.logLimit)

LogPayload ==
  /\ stage = "log"
  /\ IF ~ conf.log
     THEN Proceed("alias") /\ UNCHANGED <<buffered, logged, answer>>
     ELSE IF Omits
     THEN Proceed("alias") /\ logged' = "omitted" /\ UNCHANGED <<buffered, answer>>
     ELSE /\ ReadOrRefuse
          /\ IF Fits
             THEN /\ logged' = IF req.shape = "call" /\ req.method \in SensitiveMethods
                                 THEN "method" ELSE "body"
                  /\ Proceed("alias") /\ UNCHANGED answer
             ELSE Refuse("toolarge") /\ UNCHANGED logged
  /\ UNCHANGED <<conf, req, principal, method, negotiated, working, shown>>

\* The names protocol 1.0 gives the methods of the library.
Aliases ==
  [SendMessage |-> "message/send", SendStreamingMessage |-> "message/stream",
   GetTask |-> "tasks/get", CancelTask |-> "tasks/cancel",
   GetExtendedAgentCard |-> "agent/getAuthenticatedExtendedCard",
   CreateTaskPushNotificationConfig |-> "tasks/pushNotificationConfig/set",
   GetTaskPushNotificationConfig |-> "tasks/pushNotificationConfig/get",
   ListTaskPushNotificationConfigs |-> "tasks/pushNotificationConfig/list",
   DeleteTaskPushNotificationConfig |-> "tasks/pushNotificationConfig/delete"]

UsesAliases == req.version = "1.0"

NormalizeAlias ==
  /\ stage = "alias"
  /\ IF req.verb # "POST" \/ req.path # "rpc" \/ ~ UsesAliases
     THEN Proceed("shape") /\ UNCHANGED <<buffered, method, answer>>
     ELSE /\ ReadOrRefuse
          /\ IF Fits
             THEN /\ method' = IF req.shape = "call" /\ method \in DOMAIN Aliases
                                 THEN Aliases[method] ELSE method
                  /\ Proceed("shape") /\ UNCHANGED answer
             ELSE Refuse("toolarge") /\ UNCHANGED method
  /\ UNCHANGED <<conf, req, principal, logged, negotiated, working, shown>>

GuardRestShape ==
  /\ stage = "shape"
  /\ IF req.verb # "POST" \/ req.path # "send"
     THEN Proceed("limit") /\ UNCHANGED <<buffered, answer>>
     ELSE /\ ReadOrRefuse
          /\ IF ~ Fits THEN Refuse("toolarge")
             ELSE IF req.shape \in {"call", "message"} THEN Refuse("badshape")
             ELSE Proceed("limit") /\ UNCHANGED answer
  /\ UNCHANGED <<conf, req, principal, logged, method, negotiated, working, shown>>

EnforceLimit ==
  /\ stage = "limit"
  /\ IF Unlimited \/ req.verb # "POST"
     THEN Proceed("card") /\ UNCHANGED <<buffered, answer>>
     ELSE /\ ReadOrRefuse
          /\ IF Fits THEN Proceed("card") /\ UNCHANGED answer
                     ELSE Refuse("toolarge")
  /\ UNCHANGED <<conf, req, principal, logged, method, negotiated, working, shown>>

\* The public card is compared with the client's copy on the way in, the
\* extended one on the way out (ServeDocument).
CacheCard ==
  /\ stage = "card"
  /\ IF req.verb = "GET" /\ req.path = "card" /\ req.cached
     THEN Answer("notmodified")
     ELSE Proceed("version") /\ UNCHANGED answer
  /\ UNCHANGED <<conf, req, reading, working, shown>>

Requested == IF req.version = "absent" THEN conf.default ELSE req.version

Negotiates ==
  \/ req.path = "rpc" /\ req.verb = "POST"
  \/ req.path \in {"send", "tasks"}

NegotiateVersion ==
  /\ stage = "version"
  /\ IF ~ Negotiates
     THEN Proceed("endpoint") /\ UNCHANGED <<buffered, negotiated, answer>>
     ELSE IF Requested \in SupportedVersions
     THEN negotiated' = Requested /\ Proceed("endpoint") /\ UNCHANGED <<buffered, answer>>
     ELSE /\ answer' = Refused(IF req.path = "rpc" /\ ~ Fits THEN "toolarge"
                                                             ELSE "version",
                               req.version)
          /\ Proceed("done")
          /\ IF req.path = "rpc" THEN ReadOrRefuse ELSE UNCHANGED buffered
          /\ UNCHANGED negotiated
  /\ UNCHANGED <<conf, req, principal, logged, method, working, shown>>

-----------------------------------------------------------------------------
\* The endpoints.

WrongVerb ==
  /\ stage = "endpoint"
  /\ req.verb # (IF req.path \in {"rpc", "send"} THEN "POST" ELSE "GET")
  /\ Answer("notallowed")
  /\ UNCHANGED <<conf, req, reading, working, shown>>

ServeDocument ==
  /\ stage = "endpoint" /\ req.verb = "GET"
  /\ \/ /\ req.path = "card"
        /\ shown' = PublicCard
        /\ Answer("card")
     \/ /\ req.path = "extended"
        /\ IF req.cached THEN Answer("notmodified") /\ UNCHANGED shown
                         ELSE shown' = ExtendedCard(conf.profile) /\ Answer("document")
     \/ /\ req.path = "document"
        /\ shown' = OpenApi(conf.profile)
        /\ Answer("document")
  /\ UNCHANGED <<conf, req, reading, working>>

\* The REST surface of the library, and the task listing.
ServeRest ==
  /\ stage = "endpoint"
  /\ <<req.path, req.verb>> \in {<<"send", "POST">>, <<"tasks", "GET">>}
  /\ buffered' = IF req.path = "send" THEN req.size ELSE buffered
  /\ Answer("delegated")
  /\ UNCHANGED <<conf, req, principal, logged, method, negotiated, working, shown>>

\* The extensions come first, the library next; the rest is unsupported, and
\* a notification of it is not even told so.
Dispatch ==
  /\ stage = "endpoint" /\ req.path = "rpc" /\ req.verb = "POST"
  /\ buffered' = req.size
  /\ IF req.shape # "call" THEN Answer("delegated") /\ UNCHANGED shown
     ELSE IF method \in DOMAIN MethodMap[conf.profile]
     THEN Proceed("validate") /\ UNCHANGED <<shown, answer>>
     ELSE IF method \in CoreMethods THEN Answer("delegated") /\ UNCHANGED shown
     ELSE IF ~ req.id THEN Answer("nocontent") /\ UNCHANGED shown
     ELSE Refuse("unsupported") /\ shown' = Listing(Supported(conf.profile))
  /\ UNCHANGED <<conf, req, principal, logged, method, negotiated, working>>

Has(capability) == principal \in {capability, "both"}

\* A control method looks for its session and its request object first, and
\* only then at what the request may do and carries.
ShellParamsThere ==
  /\ "session_id" \in req.fields
  /\ req.fields \cap RequestFields # {}
  /\ req.fields \subseteq {"session_id"} \cup Metadata \cup RequestFields

\* mutant: the shell asks for the capability of the workspaces
UnentitledSwapped ==
  /\ ~ Has("workspace_mutation")
  /\ method \in WorkspaceMutations \/ (method = "shell" /\ ShellParamsThere)

Unentitled ==
  \/ method \in WorkspaceMutations /\ ~ Has("workspace_mutation")
  \/ method = "shell" /\ ShellParamsThere /\ ~ Has("session_shell")

Validate ==
  /\ stage = "validate"
  /\ IF Unentitled THEN Refuse("forbidden")
     ELSE IF ~ Validates(Handler, method, req.fields) THEN Refuse("badparams")
     ELSE IF Handler \in {"interrupt_query", "interrupt_callback"}
     THEN Answer("delegated")
     ELSE Proceed("route") /\ UNCHANGED answer
  /\ UNCHANGED <<conf, req, reading, working, shown>>

\* A workspace wins over a directory; the messages of a session are asked
\* for without a directory, which is judged all the same.
Routes == Handler # "workspace_control"

DirectoryHints ==
  {"metadata.directory"} \cup
  (IF method = "get_session_messages" \/ Handler = "provider_discovery"
     THEN {} ELSE {"directory"}) \cup
  (IF method = "list_sessions" THEN {"query.directory"} ELSE {})

Route ==
  /\ stage = "route"
  /\ IF /\ Routes /\ req.outside
        /\ "metadata.workspace" \notin req.fields
        /\ req.fields \cap DirectoryHints # {}
     THEN Refuse("badparams")
     ELSE Proceed("claim") /\ UNCHANGED answer
  /\ UNCHANGED <<conf, req, reading, working, shown>>

-----------------------------------------------------------------------------
\* The call.

NeedsClaim == method \in SessionMutations \cup SessionControls

Claim ==
  /\ stage = "claim"
  /\ IF ~ NeedsClaim THEN Proceed("invoke") /\ UNCHANGED <<claim, answer>>
     ELSE IF owner = "other" THEN Refuse("sessionforbidden") /\ UNCHANGED claim
     ELSE /\ claim' = IF owner = "nobody" THEN "pending" ELSE "none"
          /\ Proceed("invoke") /\ UNCHANGED answer
  /\ UNCHANGED <<conf, req, reading, owner, forked, called, shown>>

ClaimFails ==
  /\ stage = "claim" /\ NeedsClaim
  /\ Refuse("internal")
  /\ UNCHANGED <<conf, req, reading, working, shown>>

\* Of a method that answers with a boolean nothing else is even an answer.
AnswersBoolean == method \in {"summarize", "remove_worktree", "reset_worktree"}

\* The two handlers that also turn what they cannot map into a payload error.
MapsContract == Handler \in {"session_lifecycle", "session_control"}

HasSession == method \in SessionMethods \ {"status", "list_sessions"}

\* The answer for each way a call can go wrong.
Outcomes ==
  {"status", "missing", "unreachable", "busy", "nonjson", "null", "unmappable"}

ErrorFor(outcome) ==
  CASE outcome = "status" -> "upstream"
    [] outcome = "missing" -> IF HasSession THEN "notfound" ELSE "upstream"
    [] outcome \in {"unreachable", "busy"} -> "unreachable"
    [] outcome = "nonjson" -> IF MapsContract THEN "payload" ELSE "internal"
    [] outcome = "null" ->
         IF AnswersBoolean THEN "internal"
         ELSE IF MapsContract \/ method = "get_session_messages" THEN "payload"
         ELSE "crash"
    [] outcome = "unmappable" -> IF AnswersBoolean THEN "internal" ELSE "payload"

\* The request has taken a claim, which it does not know to be lost.
Claimed == claim \in {"pending", "lost"}

\* The lease of a claim ends while the upstream is waited for, and another
\* identity claims the session and keeps it for as long as matters here.
LoseClaim ==
  /\ stage \in {"invoke", "finalize"} /\ claim = "pending"
  /\ claim' = "lost" /\ owner' = "other"
  /\ UNCHANGED <<conf, req, stage, reading, forked, called, shown, answer>>

\* mutant: the claim of a call that failed is left to its expiry
AfterFailureNothing == "done"

\* What is left to do for a claim once the call has gone wrong.
AfterFailure == IF Claimed THEN "release" ELSE "done"

Succeed ==
  answer' = [kind |-> IF req.id THEN "success" ELSE "nocontent", format |-> "none"]

CallSucceeds ==
  /\ stage = "invoke"
  /\ called' = TRUE
  /\ forked' = IF method = "fork" THEN "nobody" ELSE forked
  /\ IF Claimed THEN Proceed("finalize") /\ UNCHANGED answer
     ELSE IF method = "fork" THEN Proceed("adopt") /\ UNCHANGED answer
     ELSE Succeed /\ Proceed("done")
  /\ UNCHANGED <<conf, req, reading, claim, owner, shown>>

\* Asynchronous prompts have no body: their status says it all.
CallFails ==
  /\ stage = "invoke"
  /\ \E outcome \in Outcomes :
       /\ method = "prompt_async" => outcome \notin {"nonjson", "null"}
       /\ called' = (outcome # "busy")
       /\ answer' = IF ErrorFor(outcome) = "crash"
                      THEN [kind |-> "crash", format |-> "none"]
                      ELSE Refused(ErrorFor(outcome), ErrorVersion)
  /\ Proceed(AfterFailure)
  /\ UNCHANGED <<conf, req, reading, custody, shown>>

FinalizeClaim ==
  /\ stage = "finalize" /\ claim = "pending"
  /\ claim' = "none" /\ owner' = "caller"
  /\ IF method = "fork" THEN Proceed("adopt") /\ UNCHANGED answer
     ELSE Succeed /\ Proceed("done")
  /\ UNCHANGED <<conf, req, reading, forked, called, shown>>

\* Another identity has the session by now: the call went well and the client
\* is told that the session is not its own.
FinalizeClaimRefused ==
  /\ stage = "finalize" /\ claim = "lost"
  /\ answer' = Refused("sessionforbidden", ErrorVersion)
  /\ Proceed("release")
  /\ UNCHANGED <<conf, req, reading, working, shown>>

\* The store fails, before or between the two writes of a finalisation: the
\* owner may be written and its claim not cleared.
FinalizeClaimFails ==
  /\ stage = "finalize"
  /\ owner' \in {owner} \cup (IF claim = "pending" THEN {"caller"} ELSE {})
  /\ answer' = Refused("internal", ErrorVersion)
  /\ Proceed("release")
  /\ UNCHANGED <<conf, req, reading, claim, forked, called, shown>>

\* The new session of a fork is finalised without a claim: another identity
\* may have got hold of it, and the store may fail before or after the owner
\* is written. The session that was forked is the caller's either way.
Adopt ==
  /\ stage = "adopt"
  /\ \/ forked' = "caller" /\ Succeed
     \/ forked' = "other" /\ answer' = Refused("sessionforbidden", ErrorVersion)
     \/ forked' \in {"nobody", "caller"} /\ answer' = Refused("internal", ErrorVersion)
  /\ Proceed("done")
  /\ UNCHANGED <<conf, req, reading, claim, owner, called, shown>>

\* A release clears the claim if it is still the caller's; one that fails is
\* logged and no more.
Release ==
  /\ stage = "release"
  /\ claim' \in {"none"} \cup (IF claim = "pending" THEN {"leaked"} ELSE {})
  /\ Proceed("done")
  /\ UNCHANGED <<conf, req, reading, owner, forked, called, shown, answer>>

-----------------------------------------------------------------------------
Answered == stage = "done" /\ UNCHANGED surfaceVars

SurfaceNext ==
  \/ Authenticate \/ LogPayload \/ NormalizeAlias \/ GuardRestShape
  \/ EnforceLimit \/ CacheCard \/ NegotiateVersion
  \/ WrongVerb \/ ServeDocument \/ ServeRest \/ Dispatch
  \/ Validate \/ Route \/ Claim \/ ClaimFails \/ LoseClaim
  \/ CallSucceeds \/ CallFails
  \/ FinalizeClaim \/ FinalizeClaimRefused \/ FinalizeClaimFails
  \/ Adopt \/ Release
  \/ Answered

SurfaceSpec == SurfaceInit /\ [][SurfaceNext]_surfaceVars

-----------------------------------------------------------------------------
\* What must hold.

Done == stage = "done"

\* Every variable has its type, and a request has an answer once it is done.
SurfaceTypeOK ==
  /\ stage \in Stages /\ method \in {req.method} \cup CoreMethods
  /\ principal \in {"none"} \cup Recognised
  /\ buffered \in {0, conf.limit, req.size}
  /\ logged \in {"nothing", "omitted", "method", "body"}
  /\ negotiated \in {"none"} \cup SupportedVersions
  /\ claim \in {"none", "pending", "lost", "leaked"} /\ called \in BOOLEAN
  /\ owner \in {req.owner, "caller", "other"}
  /\ forked \in {"none", "nobody", "caller", "other"}
  /\ shown.named \subseteq CoreMethods \cup ExtensionMethods
  /\ shown.offered \cup shown.closed \subseteq shown.named
  /\ answer.kind \in {"none"} \cup Answers
  /\ answer.format \in {"none", "legacy", "v1"}
  /\ Done => answer # NoAnswer

\* The upstream is asked to do only what the deployment switches on, for a
\* client that was recognised and has the very capability it takes, in a
\* version that is spoken, with a body within the limit, and, where it
\* changes a session, one that was not somebody else's when the request came
\* (every check comes before the call, each in another middleware or handler).
EffectsAreAllowed ==
  called =>
    /\ principal \in Recognised
    /\ negotiated \in SupportedVersions
    /\ conf.limit > 0 => req.size <= conf.limit
    /\ method = "shell" => Has("session_shell") /\ MayWrite(conf.profile)
    /\ method \in WorkspaceMutations =>
         Has("workspace_mutation") /\ MayWrite(conf.profile)
    /\ req.owner = "other" => ~ NeedsClaim

\* Five middlewares may be the first to read the body; none of them holds
\* more of it than the limit, declared or streamed.
BuffersAreBounded == conf.limit > 0 => buffered <= conf.limit

\* The log never shows the body of an extension call that carries a
\* session's content, deployed or not, whatever becomes of the request.
SensitiveStayUnlogged ==
  logged = "body" /\ req.shape = "call" =>
    req.method \notin ExtensionMethods \ ProviderMethods

\* An error is formatted for the version the client named, or else for the
\* default, whether it is refused before, in or after the negotiation.
ErrorsSpeakTheVersion ==
  Done /\ answer.kind \in Refusals =>
    answer.format = IF Requested \in {"1.0", "1.1"} THEN "v1" ELSE "legacy"

\* A client that names version 1.0 is served under the 1.0 names of the
\* library's methods, one that does not is not.
AliasesAreServed ==
  Done /\ req.path = "rpc" /\ req.verb = "POST" /\ req.shape = "call"
       /\ req.method \in DOMAIN Aliases =>
    IF req.version = "1.0" THEN answer.kind \in {"delegated", "unauthorized", "toolarge"}
                           ELSE answer.kind # "delegated"

\* A call with the fields its contract documents is not refused for its
\* fields; a directory outside the workspace may be, and two contracts say
\* less than the handlers ask: a new worktree needs its request object even
\* if empty, and a summary names its model whole.
ContractCallsAreServed ==
  Done /\ answer.kind = "badparams" /\ Conforms(method, req.fields) =>
    \/ req.outside
    \/ method = "create_worktree" /\ req.fields = {}
    \/ method = "summarize" /\ "request.modelID" \notin req.fields
    \/ method = "summarize" /\ "request.providerID" \notin req.fields

\* What a document, or the list that comes with an unsupported method, offers
\* is resolved by this deployment; a method that it names and that is not
\* resolved is declared closed in the same document, as no other is. The two
\* profiles a document carries agree on this, and the list in an error is
\* what the deployment resolves.
DocumentsTellTheTruth ==
  LET served == Resolvable(conf.profile) \cup CoreMethods
      retained == MethodRetention(conf.profile)
      wire == WireContract(conf.profile)
  IN Done /\ shown.named # {} =>
       /\ shown.offered \subseteq served
       /\ shown.closed = shown.named \ served
       /\ answer.kind = "unsupported" => method \notin served /\ shown.named = served
       /\ answer.kind = "document" =>
            /\ wire.all = served
            /\ shown.closed = {m \in DOMAIN retained : retained[m] = "disabled"}

\* Custody follows the call. No claim stays pending behind an answer, and
\* none is leaked behind a success; after a success the session that was
\* nobody's, and the new one of a fork, are the caller's. The caller gains a
\* session only by a call that was made; it can gain it with an error only if
\* the store failed between two writes, or a fork could not get its new
\* session. Told that a session is not its own, a client is told the truth:
\* the session, or the new one of its fork, is another's.
ClaimsFollowTheCall ==
  Done =>
    /\ claim \in {"none", "leaked"}
    /\ answer.kind \in {"success", "nocontent"} /\ called =>
         /\ claim = "none"
         /\ NeedsClaim => owner = "caller"
         /\ method = "fork" => forked = "caller"
    /\ owner = "caller" /\ req.owner # "caller" =>
         /\ called /\ NeedsClaim
         /\ \/ answer.kind \in {"success", "nocontent", "internal"}
            \/ answer.kind = "sessionforbidden" /\ forked = "other"
    /\ answer.kind = "sessionforbidden" => "other" \in {owner, forked}

\* Who is not recognised gets the public card and refusals, and nothing that
\* tells what the deployment offers.
StrangersSeeOnlyCards ==
  principal = "none" =>
    /\ ~ called /\ shown.named \subseteq PublicCard.named
    /\ answer.kind = "notmodified" => req.path = "card"
    /\ answer.kind \notin {"document", "delegated", "success"}

\* Types, and bodies that are held within the limit.
BodyInv == SurfaceTypeOK /\ BuffersAreBounded

\* Neither the log nor an answer tells what is not the reader's.
PrivacyInv == SensitiveStayUnlogged /\ StrangersSeeOnlyCards

\* A client is spoken to in the version it named.
VersionInv == ErrorsSpeakTheVersion /\ AliasesAreServed
=============================================================================
