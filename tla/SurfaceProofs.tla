---------------------------- MODULE SurfaceProofs ----------------------------
(***************************************************************************)
(* What every request to every deployment may count on: theorems about     *)
(* Surface.  The stages are passed in one order; PassedInv says at each of *)
(* them what those before it have established.                             *)
(***************************************************************************)
EXTENDS Surface, TLAPS

CallStages ==
  {"validate", "route", "claim", "invoke", "finalize", "adopt", "release"}

AfterCall == {"finalize", "adopt", "release", "done"}

Acts == SessionMutations \cup SessionControls

Writes == {"shell"} \cup WorkspaceMutations

(* The deployment and the request are one of the cases.                    *)
CaseInv ==
  /\ conf.profile \in Profiles /\ conf.default \in SupportedVersions
  /\ conf.limit \in Nat /\ req.size \in Nat
  /\ req.owner \in {"nobody", "caller", "other"}

(* What the middlewares and the dispatch have established at a stage.      *)
PassedInv ==
  /\ stage \in Stages
  /\ stage \notin {"auth", "done"} => Exempt \/ principal \in Recognised
  /\ stage \in {"card", "version", "endpoint"} /\ req.verb = "POST" => Fits
  /\ stage = "endpoint" /\ Negotiates => negotiated \in SupportedVersions
  /\ stage \in CallStages =>
       /\ req.verb = "POST" /\ req.path = "rpc" /\ Fits
       /\ negotiated \in SupportedVersions
       /\ method \in Resolvable(conf.profile)

(* The capability that the call takes is the credential's.                 *)
Entitled ==
  /\ method = "shell" => Has("session_shell")
  /\ method \in WorkspaceMutations => Has("workspace_mutation")

(* What validation and the claim have established for the call.            *)
CallInv ==
  /\ stage \in CallStages \ {"validate"} => Entitled
  /\ stage \in {"invoke"} \cup (AfterCall \ {"done"}) =>
       (req.owner = "other" => method \notin Acts)
  /\ called => stage \in AfterCall
  /\ stage \in {"finalize", "adopt"} => called
  /\ stage = "release" => answer.kind \notin {"success", "nocontent"}
  /\ answer.kind # "none" => stage \in {"release", "done"}

(* A claim that was taken, held still or lost to another identity.         *)
HeldOrLost ==
  /\ req.owner = "nobody" /\ NeedsClaim
  /\ <<claim, owner>> \in {<<"pending", "nobody">>, <<"lost", "other">>}

(* Where a claim may be, and whose the session is at each stage.           *)
CustodyInv ==
  /\ stage \notin {"invoke"} \cup AfterCall => claim = "none" /\ owner = req.owner
  /\ stage = "invoke" =>
       \/ claim = "none" /\ owner = req.owner /\ (NeedsClaim => owner = "caller")
       \/ HeldOrLost
  /\ stage = "finalize" => HeldOrLost
  /\ stage = "adopt" => claim = "none" /\ method = "fork" /\ owner = "caller"
  /\ stage = "release" =>
       /\ Claimed /\ NeedsClaim
       /\ owner = "caller" => called /\ answer.kind = "internal"
       /\ answer.kind = "sessionforbidden" => owner = "other"

-----------------------------------------------------------------------------
(* A method that writes is resolved only where the deployment may write,   *)
(* and the shell by the handler that looks for its session and request.    *)
LEMMA ResolvedMayWrite ==
    ASSUME NEW profile \in Profiles, NEW m \in Resolvable(profile) \cap Writes
    PROVE  MayWrite(profile)
<1>1. m \in JsonRpcMethods(profile)
  BY DEF Resolvable, Registry, JsonRpcMethods, SessionManagement, SessionMethods,
         SessionReads, SessionMutations, SessionControls, ProviderMethods,
         WorkspaceControl, WorkspaceDiscovery, WorkspaceMutations,
         InterruptRecovery, InterruptCallbacks, IsMethodEnabled, Conditional, Writes
<1>2. IsMethodEnabled(profile, m)
  BY <1>1 DEF JsonRpcMethods, SessionManagement, SessionMethods,
         SessionReads, SessionMutations, SessionControls, ProviderMethods,
         WorkspaceControl, WorkspaceDiscovery, WorkspaceMutations,
         InterruptRecovery, InterruptCallbacks, Writes
<1> QED
  BY <1>2 DEF IsMethodEnabled, Conditional, ShellEnabled, MutationsEnabled, Writes

LEMMA ShellIsControl ==
    ASSUME NEW profile \in Profiles, "shell" \in Resolvable(profile)
    PROVE  HandlerOf(profile, "shell") = "session_control"
<1> DEFINE R == Registry(profile)
<1>1. \A handler \in DOMAIN R : "shell" \in R[handler] => handler = "session_control"
  BY DEF Registry, JsonRpcMethods, SessionManagement, SessionMethods,
         SessionReads, SessionMutations, SessionControls, ProviderMethods,
         WorkspaceControl, WorkspaceDiscovery, WorkspaceMutations,
         InterruptRecovery, InterruptCallbacks
<1>2. \E handler \in DOMAIN R : "shell" \in R[handler]
  BY DEF Resolvable
<1> QED
  BY <1>1, <1>2 DEF HandlerOf

LEMMA ShellParams ==
    ASSUME Validates("session_control", "shell", req.fields)
    PROVE  ShellParamsThere
<1>1. /\ req.fields \subseteq ControlAllows("shell")
      /\ ControlNeeds("shell") \subseteq req.fields
  BY DEF Validates
<1>2. /\ ControlAllows("shell") \subseteq {"session_id"} \cup Metadata \cup RequestFields
      /\ "session_id" \in ControlNeeds("shell")
      /\ "request.agent" \in ControlNeeds("shell") \cap RequestFields
  BY DEF ControlAllows, ControlNeeds, RequestFields, PromptFields
<1> QED
  BY <1>1, <1>2 DEF ShellParamsThere

(* Whoever passes validation may do what it asks for.                      *)
LEMMA ValidatedIsEntitled ==
    ASSUME CaseInv, method \in Resolvable(conf.profile) \cap Writes,
           ~ Unentitled, Validates(Handler, method, req.fields)
    PROVE  Entitled
<1>1. CASE method = "shell"
  <2>1. Handler = HandlerOf(conf.profile, "shell")
    BY <1>1 DEF Handler, MethodMap, CaseInv
  <2>2. Handler = "session_control"
    BY <1>1, <2>1, ShellIsControl DEF CaseInv
  <2> QED
    BY <1>1, <2>2, ShellParams DEF Unentitled, Entitled, WorkspaceMutations
<1> QED
  BY <1>1 DEF Unentitled, Entitled

-----------------------------------------------------------------------------
LEMMA CaseHolds ==
    /\ SurfaceInit => CaseInv
    /\ CaseInv /\ [SurfaceNext]_surfaceVars => CaseInv'
<1>1. SurfaceInit => CaseInv
  BY CasesAssumption DEF SurfaceInit, CaseInv
<1>2. CaseInv /\ [SurfaceNext]_surfaceVars => CaseInv'
  <2>1. [SurfaceNext]_surfaceVars => UNCHANGED <<conf, req>>
    BY DEF SurfaceNext, Authenticate, LogPayload, NormalizeAlias, GuardRestShape,
           EnforceLimit, CacheCard, NegotiateVersion, WrongVerb, ServeDocument,
           ServeRest, Dispatch, Validate, Route, Claim, ClaimFails, CallSucceeds,
           CallFails, FinalizeClaim, FinalizeClaimRefused, FinalizeClaimFails,
           LoseClaim, Adopt, Release, Answered, surfaceVars
  <2> QED
    BY <2>1 DEF CaseInv
<1> QED
  BY <1>1, <1>2

LEMMA PassedHolds ==
    /\ SurfaceInit => PassedInv
    /\ CaseInv /\ PassedInv /\ [SurfaceNext]_surfaceVars => PassedInv'
<1>1. SurfaceInit => PassedInv
  BY DEF SurfaceInit, PassedInv, Stages, CallStages
<1>2. ASSUME CaseInv, PassedInv, [SurfaceNext]_surfaceVars PROVE PassedInv'
  <2> USE <1>2 DEF PassedInv, Stages, CallStages, Proceed
  <2>1. CASE Authenticate
    BY <2>1 DEF Authenticate, Answer, Exempt, reading, working, custody
  <2>2. CASE LogPayload \/ NormalizeAlias \/ GuardRestShape
    BY <2>2 DEF LogPayload, NormalizeAlias, GuardRestShape, Refuse, Exempt
  <2>3. CASE EnforceLimit
    BY <2>3 DEF EnforceLimit, Refuse, Exempt, Fits, Unlimited
  <2>4. CASE CacheCard
    BY <2>4 DEF CacheCard, Answer, Exempt, Fits, Unlimited, reading
  <2>5. CASE NegotiateVersion
    BY <2>5 DEF NegotiateVersion, Exempt, Fits, Unlimited, Negotiates
  <2>6. CASE WrongVerb \/ ServeDocument \/ ServeRest
    BY <2>6 DEF WrongVerb, ServeDocument, ServeRest, Answer
  <2>7. CASE Dispatch
    <3>1. DOMAIN MethodMap[conf.profile] = Resolvable(conf.profile)
      BY DEF MethodMap, CaseInv
    <3> QED
      BY <2>7, <3>1 DEF Dispatch, Answer, Refuse, Exempt, Fits, Unlimited, Negotiates
  <2>8. CASE Validate \/ Route \/ Claim \/ ClaimFails \/ LoseClaim
    BY <2>8 DEF Validate, Route, Claim, ClaimFails, LoseClaim, Answer, Refuse, Exempt, Fits,
                Unlimited, reading, working, custody
  <2>9. CASE CallSucceeds \/ CallFails \/ FinalizeClaim \/ FinalizeClaimRefused
             \/ FinalizeClaimFails \/ Adopt \/ Release
    BY <2>9 DEF CallSucceeds, CallFails, AfterFailure, FinalizeClaim,
                FinalizeClaimRefused, FinalizeClaimFails, Adopt, Release,
                Exempt, Fits, Unlimited, reading
  <2>10. CASE Answered \/ UNCHANGED surfaceVars
    BY <2>10 DEF Answered, surfaceVars, Exempt, Fits, Unlimited, Negotiates
  <2> QED
    BY <2>1, <2>2, <2>3, <2>4, <2>5, <2>6, <2>7, <2>8, <2>9, <2>10 DEF SurfaceNext
<1> QED
  BY <1>1, <1>2

LEMMA CallHolds ==
    /\ SurfaceInit => CallInv
    /\ CaseInv /\ PassedInv /\ CallInv /\ CustodyInv /\ [SurfaceNext]_surfaceVars
         => CallInv'
<1>1. SurfaceInit => CallInv
  BY DEF SurfaceInit, CallInv, CallStages, AfterCall, NoAnswer
<1>2. ASSUME CaseInv, PassedInv, CallInv, CustodyInv, [SurfaceNext]_surfaceVars
      PROVE  CallInv'
  <2> USE <1>2 DEF CallInv, CallStages, AfterCall, Proceed, Entitled, Has
  <2>1. CASE Authenticate \/ LogPayload \/ NormalizeAlias \/ GuardRestShape
             \/ EnforceLimit
    BY <2>1 DEF Authenticate, LogPayload, NormalizeAlias, GuardRestShape, EnforceLimit,
                Answer, Refuse, Refused, reading, working, custody
  <2>2. CASE CacheCard \/ NegotiateVersion \/ WrongVerb \/ ServeDocument \/ ServeRest
    BY <2>2 DEF CacheCard, NegotiateVersion, WrongVerb, ServeDocument, ServeRest,
                Answer, Refused, reading, working, custody
  <2>3. CASE Dispatch
    BY <2>3 DEF Dispatch, Answer, Refuse, Refused, working, custody
  <2>4. CASE Validate
    <3>1. Validate /\ stage' = "route" => Validates(Handler, method, req.fields) /\ ~ Unentitled
      BY DEF Validate, Answer, Refuse
    <3>2. stage' = "route" => Entitled
      BY <2>4, <3>1, ValidatedIsEntitled DEF PassedInv, Validate, Entitled, Writes
    <3> QED
      BY <2>4, <3>2 DEF Validate, Answer, Refuse, Refused, reading, working, custody
  <2>5. CASE Route \/ ClaimFails \/ LoseClaim
    BY <2>5 DEF Route, ClaimFails, LoseClaim, Refuse, Refused, reading, working, custody
  <2>6. CASE Claim
    BY <2>6 DEF Claim, CustodyInv, NeedsClaim, Acts, Refuse, Refused, reading
  <2>7. CASE CallSucceeds
    BY <2>7 DEF CallSucceeds, Succeed, reading
  <2>8. CASE CallFails
    <3>1. answer'.kind \notin {"success", "nocontent"}
      BY <2>8 DEF CallFails, Refused, ErrorFor, Outcomes
    <3> QED
      BY <2>8, <3>1 DEF CallFails, AfterFailure, reading
  <2>9. CASE FinalizeClaim \/ FinalizeClaimRefused \/ FinalizeClaimFails \/ Adopt \/ Release
    BY <2>9 DEF FinalizeClaim, FinalizeClaimRefused, FinalizeClaimFails, LoseClaim,
                Adopt, Release, Succeed, Refused, reading, working, custody
  <2>10. CASE Answered \/ UNCHANGED surfaceVars
    BY <2>10 DEF Answered, surfaceVars
  <2> QED
    BY <2>1, <2>2, <2>3, <2>4, <2>5, <2>6, <2>7, <2>8, <2>9, <2>10 DEF SurfaceNext
<1> QED
  BY <1>1, <1>2

(* From the call on an error is one a version was negotiated for.          *)
LEMMA ErrorsAreSpoken ==
    ASSUME PassedInv, stage \in CallStages, NEW kind
    PROVE  Refused(kind, ErrorVersion).kind = kind
<1>1. ErrorVersion # "junk"
  BY DEF PassedInv, ErrorVersion, SupportedVersions
<1> QED
  BY <1>1 DEF Refused

LEMMA CustodyHolds ==
    /\ SurfaceInit => CustodyInv
    /\ CaseInv /\ PassedInv /\ CallInv /\ CustodyInv /\ [SurfaceNext]_surfaceVars
         => CustodyInv'
<1>1. SurfaceInit => CustodyInv
  BY DEF SurfaceInit, CustodyInv, AfterCall
<1>2. ASSUME CaseInv, PassedInv, CallInv, CustodyInv, [SurfaceNext]_surfaceVars
      PROVE  CustodyInv'
  <2> USE <1>2 DEF CustodyInv, HeldOrLost, AfterCall, Proceed, NeedsClaim, Claimed
  <2>1. CASE stage \notin {"claim", "invoke"} \cup AfterCall
    <3>1. UNCHANGED <<req, claim, owner>> /\ stage' \notin {"invoke"} \cup (AfterCall \ {"done"})
      BY <2>1 DEF SurfaceNext, Authenticate, LogPayload, NormalizeAlias,
                  GuardRestShape, EnforceLimit, CacheCard, NegotiateVersion,
                  WrongVerb, ServeDocument, ServeRest, Dispatch, Validate, Route,
                  Claim, ClaimFails, LoseClaim, CallSucceeds, CallFails,
                  FinalizeClaim, FinalizeClaimRefused, FinalizeClaimFails, Adopt,
                  Release, Answered, surfaceVars, Answer, Refuse, working, custody
    <3> QED
      BY <2>1, <3>1
  <2>2. CASE Claim
    BY <2>2 DEF Claim, Refuse, reading, CaseInv
  <2>3. CASE ClaimFails
    BY <2>3 DEF ClaimFails, Refuse
  <2>4. CASE LoseClaim
    BY <2>4 DEF LoseClaim, reading
  <2>5. CASE CallSucceeds
    BY <2>5 DEF CallSucceeds, reading, SessionMutations
  <2>6. CASE CallFails
    <3>1. answer'.kind # "sessionforbidden"
      BY <2>6 DEF CallFails, Refused, ErrorFor, Outcomes
    <3> QED
      BY <2>6, <3>1 DEF CallFails, AfterFailure, custody, reading
  <2>7. CASE FinalizeClaim
    BY <2>7 DEF FinalizeClaim, reading
  <2>8. CASE FinalizeClaimRefused
    BY <2>8 DEF FinalizeClaimRefused, working, custody, reading
  <2>9. CASE FinalizeClaimFails
    <3>1. answer'.kind = "internal" /\ called
      BY <2>9, ErrorsAreSpoken DEF FinalizeClaimFails, CallStages, CallInv
    <3> QED
      BY <2>9, <3>1 DEF FinalizeClaimFails, reading
  <2>10. CASE Adopt \/ Release
    BY <2>10 DEF Adopt, Release
  <2>11. CASE Answered \/ UNCHANGED surfaceVars
    BY <2>11 DEF Answered, surfaceVars
  <2> QED
    BY <2>1, <2>2, <2>3, <2>4, <2>5, <2>6, <2>7, <2>8, <2>9, <2>10, <2>11
    DEF SurfaceNext, Authenticate, LogPayload, NormalizeAlias, GuardRestShape,
        EnforceLimit, CacheCard, NegotiateVersion, WrongVerb, ServeDocument,
        ServeRest, Dispatch, Validate, Route
<1> QED
  BY <1>1, <1>2

StagesInv == CaseInv /\ PassedInv /\ CallInv /\ CustodyInv

LEMMA StagesHold == SurfaceSpec => []StagesInv
<1>1. SurfaceInit => StagesInv
  BY CaseHolds, PassedHolds, CallHolds, CustodyHolds DEF StagesInv
<1>2. StagesInv /\ [SurfaceNext]_surfaceVars => StagesInv'
  BY CaseHolds, PassedHolds, CallHolds, CustodyHolds DEF StagesInv
<1> QED
  BY <1>1, <1>2, PTL DEF SurfaceSpec

-----------------------------------------------------------------------------
(* A step that asks the upstream finds everything checked; no later step   *)
(* of the request touches what was checked.                                *)
LEMMA EffectsStep ==
    StagesInv /\ EffectsAreAllowed /\ [SurfaceNext]_surfaceVars => EffectsAreAllowed'
<1> SUFFICES ASSUME StagesInv, EffectsAreAllowed, [SurfaceNext]_surfaceVars, called'
             PROVE  EffectsAreAllowed'
  BY DEF EffectsAreAllowed
<1> USE DEF StagesInv
<1>1. CASE CallSucceeds \/ CallFails
  <2>1. /\ stage = "invoke"
        /\ UNCHANGED <<conf, req, principal, negotiated, method>>
    BY <1>1 DEF CallSucceeds, CallFails, reading
  <2>2. principal \in Recognised /\ negotiated \in SupportedVersions
    BY <2>1 DEF PassedInv, CallStages, Exempt
  <2>3. conf.limit > 0 => req.size <= conf.limit
    BY <2>1 DEF PassedInv, CallStages, Fits, Unlimited, CaseInv
  <2>4. method \in Writes => MayWrite(conf.profile)
    BY <2>1, ResolvedMayWrite DEF PassedInv, CallStages, CaseInv
  <2>6. Entitled
    BY <2>1 DEF CallInv, CallStages
  <2>5. req.owner = "other" => method \notin Acts
    BY <2>1 DEF CallInv
  <2> QED
    BY <2>1, <2>2, <2>3, <2>4, <2>5, <2>6
    DEF EffectsAreAllowed, Writes, Acts, NeedsClaim, Entitled, Has
<1>2. CASE ~ (CallSucceeds \/ CallFails)
  <2>1. called /\ UNCHANGED <<conf, req, principal, negotiated, method>>
    BY <1>2 DEF SurfaceNext, Authenticate, LogPayload, NormalizeAlias, GuardRestShape,
                EnforceLimit, CacheCard, NegotiateVersion, WrongVerb, ServeDocument,
                ServeRest, Dispatch, Validate, Route, Claim, ClaimFails,
                FinalizeClaim, FinalizeClaimRefused, FinalizeClaimFails, LoseClaim,
                Adopt, Release, Answered, surfaceVars, reading, working, custody,
                CallInv, AfterCall
  <2> QED
    BY <2>1 DEF EffectsAreAllowed, NeedsClaim, Has
<1> QED
  BY <1>1, <1>2

(* The upstream is asked for nothing but what the deployment switches on,  *)
(* the credential allows and the owner of the session may do, in a spoken  *)
(* version and with a body within the limit: whatever handlers,            *)
(* middlewares and errors the request met on its way.                      *)
THEOREM CallsAreAllowed == SurfaceSpec => []EffectsAreAllowed
<1>1. SurfaceInit => EffectsAreAllowed
  BY DEF SurfaceInit, EffectsAreAllowed
<1> QED
  BY <1>1, EffectsStep, StagesHold, PTL DEF SurfaceSpec

(* What is at hand when a request gets its answer, action by action.       *)
LEMMA ClaimsStep ==
    StagesInv /\ ClaimsFollowTheCall /\ [SurfaceNext]_surfaceVars => ClaimsFollowTheCall'
<1> SUFFICES ASSUME StagesInv, ClaimsFollowTheCall, [SurfaceNext]_surfaceVars
             PROVE  ClaimsFollowTheCall'
  OBVIOUS
<1> USE DEF StagesInv, CustodyInv, HeldOrLost, ClaimsFollowTheCall, Done, NeedsClaim,
            Claimed, AfterCall
<1>1. CASE stage \notin {"claim", "invoke"} \cup AfterCall
  <2>1. /\ UNCHANGED <<req, claim, owner, called>>
        /\ answer'.kind # "sessionforbidden"
    BY <1>1 DEF CallInv, SurfaceNext, Authenticate, LogPayload, NormalizeAlias,
           GuardRestShape, EnforceLimit, CacheCard, NegotiateVersion, WrongVerb,
           ServeDocument, ServeRest, Dispatch, Validate, Route, Claim, ClaimFails,
           LoseClaim, CallSucceeds, CallFails, FinalizeClaim, FinalizeClaimRefused,
           FinalizeClaimFails, Adopt, Release, Answered, surfaceVars, Answer, Refuse,
           Refused, working, custody
  <2> QED
    BY <1>1, <2>1 DEF CallInv
<1>2. CASE Claim
  BY <1>2 DEF Claim, Refuse, Refused, Proceed, CallInv
<1>3. CASE ClaimFails
  BY <1>3 DEF ClaimFails, Refuse, Refused, working, custody, CallInv
<1>4. CASE LoseClaim \/ FinalizeClaimRefused \/ FinalizeClaimFails
  BY <1>4 DEF LoseClaim, FinalizeClaimRefused, FinalizeClaimFails, Proceed
<1>5. CASE CallSucceeds
  BY <1>5 DEF CallSucceeds, Succeed, Proceed, reading, SessionMutations, CallInv
<1>6. CASE CallFails
  <2>1. answer'.kind \notin {"sessionforbidden", "success", "nocontent"}
    BY <1>6 DEF CallFails, Refused, ErrorFor, Outcomes
  <2> QED
    BY <1>6, <2>1 DEF CallFails, AfterFailure, Proceed, custody, reading
<1>7. CASE FinalizeClaim
  BY <1>7 DEF FinalizeClaim, Succeed, Proceed, reading, CallInv
<1>8. CASE Adopt
  <2>1. /\ stage = "adopt" /\ claim' = "none" /\ owner' = "caller" /\ called'
        /\ method' = "fork" /\ method \in SessionMutations
    BY <1>8 DEF Adopt, CallInv, reading, SessionMutations
  <2>2. \A kind : Refused(kind, ErrorVersion).kind = kind
    BY <2>1, ErrorsAreSpoken DEF CallStages
  <2>3. \/ answer'.kind \in {"success", "nocontent"} /\ forked' = "caller"
        \/ answer'.kind = "sessionforbidden" /\ forked' = "other"
        \/ answer'.kind = "internal"
    BY <1>8, <2>2 DEF Adopt, Succeed
  <2>4. method' \in SessionMutations
    BY <1>8, <2>1 DEF Adopt, reading
  <2> QED
    BY <2>1, <2>3, <2>4
<1>9. CASE Release
  BY <1>9 DEF Release, Proceed, reading, CallInv
<1>10. CASE Answered \/ UNCHANGED surfaceVars
  BY <1>10 DEF Answered, surfaceVars
<1> QED
  BY <1>1, <1>2, <1>3, <1>4, <1>5, <1>6, <1>7, <1>8, <1>9, <1>10
  DEF SurfaceNext, Authenticate, LogPayload, NormalizeAlias, GuardRestShape,
      EnforceLimit, CacheCard, NegotiateVersion, WrongVerb, ServeDocument,
      ServeRest, Dispatch, Validate, Route

(* A claim does not stay pending behind an answer, and a success leaves    *)
(* none. The session becomes the caller's only by a call that was made:    *)
(* one that went well, one whose finalisation was torn by the store, or a  *)
(* fork that could not get its new session. Whoever is told that a session *)
(* is not its own is told the truth, also when its claim ran out meanwhile.*)
THEOREM ClaimsAreSettled == SurfaceSpec => []ClaimsFollowTheCall
<1>1. SurfaceInit => ClaimsFollowTheCall
  BY DEF SurfaceInit, ClaimsFollowTheCall, Done
<1> QED
  BY <1>1, ClaimsStep, StagesHold, PTL DEF SurfaceSpec

-----------------------------------------------------------------------------
(* Who is not recognised is exempt from authentication or turned away; the *)
(* log saw the body before anybody changed the name of its method.         *)
LEMMA SensitiveAreKnown == ExtensionMethods \ ProviderMethods \subseteq SensitiveMethods
  BY DEF ExtensionMethods, SensitiveMethods, SessionMethods

LEMMA PrivacyStep ==
    StagesInv /\ PrivacyInv /\ [SurfaceNext]_surfaceVars => PrivacyInv'
<1> SUFFICES ASSUME StagesInv, PrivacyInv, [SurfaceNext]_surfaceVars
             PROVE  PrivacyInv'
  OBVIOUS
<1> USE DEF StagesInv, PrivacyInv
<1>1. SensitiveStayUnlogged'
  <2>1. CASE LogPayload
    BY <2>1, SensitiveAreKnown DEF LogPayload, SensitiveStayUnlogged
  <2>2. CASE ~ LogPayload
    <3>1. UNCHANGED <<req, logged>>
      BY <2>2 DEF SurfaceNext, Authenticate, NormalizeAlias, GuardRestShape,
                  EnforceLimit, CacheCard, NegotiateVersion, WrongVerb, ServeDocument,
                  ServeRest, Dispatch, Validate, Route, Claim, ClaimFails,
                  CallSucceeds, CallFails, FinalizeClaim, FinalizeClaimRefused,
                  FinalizeClaimFails, LoseClaim, Adopt, Release, Answered,
                  surfaceVars, reading
    <3> QED
      BY <3>1 DEF SensitiveStayUnlogged
  <2> QED
    BY <2>1, <2>2
<1>2. StrangersSeeOnlyCards'
  <2> SUFFICES ASSUME principal' = "none" PROVE StrangersSeeOnlyCards'
    BY DEF StrangersSeeOnlyCards
  <2> USE DEF StrangersSeeOnlyCards, Recognised, Capabilities
  <2>1. principal = "none" /\ UNCHANGED req
    BY DEF SurfaceNext, Authenticate, LogPayload, NormalizeAlias, GuardRestShape,
           EnforceLimit, CacheCard, NegotiateVersion, WrongVerb, ServeDocument,
           ServeRest, Dispatch, Validate, Route, Claim, ClaimFails, CallSucceeds,
           CallFails, FinalizeClaim, FinalizeClaimRefused, FinalizeClaimFails,
           LoseClaim, Adopt, Release, Answered, surfaceVars, reading
  <2>2. stage \notin {"auth", "done"} => Exempt
    BY <2>1 DEF PassedInv
  <2>3. stage \notin CallStages
    BY <2>1, <2>2 DEF PassedInv, CallStages, Exempt
  <2>4. CASE Authenticate \/ Answered \/ UNCHANGED surfaceVars
    BY <2>1, <2>4 DEF Authenticate, Answer, Answered, surfaceVars, working, custody
  <2>5. CASE LogPayload \/ NormalizeAlias \/ GuardRestShape \/ EnforceLimit
    BY <2>1, <2>5 DEF LogPayload, NormalizeAlias, GuardRestShape, EnforceLimit,
                      Refuse, Refused, working, custody
  <2>6. CASE CacheCard \/ NegotiateVersion \/ WrongVerb
    BY <2>1, <2>6 DEF CacheCard, NegotiateVersion, WrongVerb, Answer, Refused, working, custody
  <2>7. CASE ServeDocument \/ ServeRest \/ Dispatch
    BY <2>1, <2>2, <2>7 DEF ServeDocument, ServeRest, Dispatch, Exempt, Answer, Refuse,
                            Refused, working, custody
  <2> QED
    BY <2>3, <2>4, <2>5, <2>6, <2>7 DEF SurfaceNext, CallStages, Validate, Route,
           Claim, ClaimFails, LoseClaim, CallSucceeds, CallFails, FinalizeClaim,
           FinalizeClaimRefused, FinalizeClaimFails, Adopt, Release
<1> QED
  BY <1>1, <1>2

(* The body of a call to an extension that carries a session's content is  *)
(* never logged, and a stranger gets the public card and refusals.         *)
THEOREM StrangersAndLogs == SurfaceSpec => []PrivacyInv
<1>1. SurfaceInit => PrivacyInv
  BY DEF SurfaceInit, PrivacyInv, SensitiveStayUnlogged, StrangersSeeOnlyCards, NoAnswer,
         Listing
<1> QED
  BY <1>1, PrivacyStep, StagesHold, PTL DEF SurfaceSpec

-----------------------------------------------------------------------------
(* Up to the dispatch a call keeps its method or has the library's name    *)
(* for it; an alias as such is resolved by nobody.                         *)
LEMMA MethodsAreApart == CoreMethods \cap ExtensionMethods = {}
  BY DEF CoreMethods, PushMethods, ExtensionMethods, SessionMethods, SessionReads,
         SessionMutations, SessionControls, ProviderMethods, WorkspaceDiscovery,
         WorkspaceMutations, InterruptRecovery, InterruptCallbacks

LEMMA ResolvedAreExtensions ==
    ASSUME NEW profile \in Profiles
    PROVE  Resolvable(profile) \subseteq ExtensionMethods
  BY DEF Resolvable, Registry, JsonRpcMethods, ExtensionMethods, SessionMethods,
         SessionReads, SessionMutations, SessionControls, WorkspaceDiscovery

LEMMA AliasesAreOutside ==
    /\ DOMAIN Aliases \cap (CoreMethods \cup ExtensionMethods) = {}
    /\ \A name \in DOMAIN Aliases : Aliases[name] \in CoreMethods
<1>1. DOMAIN Aliases \cap CoreMethods = {}
  BY DEF Aliases, CoreMethods, PushMethods
<1>2. DOMAIN Aliases \cap ExtensionMethods = {}
  BY DEF Aliases, ExtensionMethods, SessionMethods, SessionReads,
         SessionMutations, SessionControls, ProviderMethods, WorkspaceDiscovery,
         WorkspaceMutations, InterruptRecovery, InterruptCallbacks
<1>3. \A name \in DOMAIN Aliases : Aliases[name] \in CoreMethods
  BY DEF Aliases, CoreMethods, PushMethods
<1> QED
  BY <1>1, <1>2, <1>3

Aliased ==
  /\ req.path = "rpc" /\ req.verb = "POST" /\ req.shape = "call"
  /\ req.method \in DOMAIN Aliases

(* The version of the client is that of its errors at every stage, and what *)
(* its call is named up to the dispatch.                                    *)
NamesInv ==
  /\ negotiated # "none" => negotiated = Requested
  /\ answer.kind \in Refusals =>
       answer.format = IF Requested \in {"1.0", "1.1"} THEN "v1" ELSE "legacy"
  /\ Aliased /\ stage # "done" =>
       /\ stage \notin CallStages
       /\ req.version # "1.0" \/ stage \in {"auth", "log", "alias"} => method = req.method
       /\ req.version = "1.0" /\ stage \notin {"auth", "log", "alias"} => method \in CoreMethods
  /\ AliasesAreServed

LEMMA ErrorsAreFormatted ==
    ASSUME NEW kind, negotiated # "none" => negotiated = Requested
    PROVE  Refused(kind, ErrorVersion).kind \in Refusals =>
             Refused(kind, ErrorVersion).format =
               IF Requested \in {"1.0", "1.1"} THEN "v1" ELSE "legacy"
<1>1. ErrorVersion = Requested
  BY DEF ErrorVersion, Requested
<1> QED
  BY <1>1 DEF Refused, FormatFor, Refusals

LEMMA FormatStep ==
    ASSUME StagesInv, NamesInv, [SurfaceNext]_surfaceVars
    PROVE  /\ negotiated' # "none" => negotiated' = Requested'
           /\ answer'.kind \in Refusals =>
                answer'.format = IF Requested' \in {"1.0", "1.1"} THEN "v1" ELSE "legacy"
<1> DEFINE Formatted(a) == a.kind \in Refusals =>
             a.format = IF Requested \in {"1.0", "1.1"} THEN "v1" ELSE "legacy"
<1>1. UNCHANGED <<conf, req>>
  BY DEF SurfaceNext, Authenticate, LogPayload, NormalizeAlias, GuardRestShape,
         EnforceLimit, CacheCard, NegotiateVersion, WrongVerb, ServeDocument,
         ServeRest, Dispatch, Validate, Route, Claim, ClaimFails, CallSucceeds,
         CallFails, FinalizeClaim, FinalizeClaimRefused, FinalizeClaimFails,
         LoseClaim, Adopt, Release, Answered, surfaceVars
<1>2. Requested' = Requested
  BY <1>1 DEF Requested
<1>3. \A kind : Formatted(Refused(kind, ErrorVersion))
  BY ErrorsAreFormatted DEF NamesInv
<1>5. {"unauthorized", "notmodified", "card", "document", "delegated", "nocontent",
       "notallowed", "success", "crash"} \cap Refusals = {}
  BY DEF Refusals
<1>6. Formatted(answer)
  BY DEF NamesInv
<1> HIDE DEF Formatted
<1>7. CASE NegotiateVersion
  <2>1. negotiated' # "none" => negotiated' = Requested
    BY <1>7 DEF NegotiateVersion, NamesInv
  <2>2. CASE UNCHANGED answer
    BY <1>2, <1>6, <2>1, <2>2 DEF Formatted
  <2>3. CASE answer' # answer
    <3>1. PICK kind : answer' = Refused(kind, req.version) /\ Requested \notin SupportedVersions
      BY <1>7, <2>3 DEF NegotiateVersion
    <3>2. req.version = Requested
      BY <3>1 DEF Requested, StagesInv, CaseInv
    <3>3. Formatted(answer')
      BY <3>1, <3>2 DEF Formatted, Refused, FormatFor, Refusals
    <3> QED
      BY <1>2, <2>1, <3>3 DEF Formatted
  <2> QED
    BY <2>2, <2>3
<1>8. ASSUME ~ NegotiateVersion PROVE negotiated' = negotiated
  BY <1>8 DEF SurfaceNext, Authenticate, LogPayload, NormalizeAlias, GuardRestShape,
              EnforceLimit, CacheCard, WrongVerb, ServeDocument, ServeRest, Dispatch,
              Validate, Route, Claim, ClaimFails, CallSucceeds, CallFails,
              FinalizeClaim, FinalizeClaimRefused, FinalizeClaimFails, LoseClaim,
              Adopt, Release, Answered, surfaceVars, reading
<1>9. ASSUME ~ NegotiateVersion PROVE Formatted(answer')
  <2>1. \/ answer' = answer
        \/ \E kind \in {"unauthorized", "notmodified", "card", "document", "delegated",
                        "nocontent", "notallowed", "success", "crash"} :
              answer' = [kind |-> kind, format |-> "none"]
        \/ \E kind : answer' = Refused(kind, ErrorVersion)
    BY <1>9 DEF SurfaceNext, Authenticate, LogPayload, NormalizeAlias, GuardRestShape,
                EnforceLimit, CacheCard, WrongVerb, ServeDocument, ServeRest,
                Dispatch, Validate, Route, Claim, ClaimFails, CallSucceeds, CallFails,
                FinalizeClaim, FinalizeClaimRefused, FinalizeClaimFails, LoseClaim,
                Adopt, Release, Answered, surfaceVars, Answer, Refuse, Succeed
  <2> QED
    BY <2>1, <1>3, <1>5, <1>6 DEF Formatted
<1> QED
  BY <1>2, <1>7, <1>8, <1>9 DEF Formatted, NamesInv

LEMMA AliasStep ==
    ASSUME StagesInv, NamesInv, [SurfaceNext]_surfaceVars, Aliased
    PROVE  /\ stage' # "done" =>
                /\ stage' \notin CallStages
                /\ req.version # "1.0" \/ stage' \in {"auth", "log", "alias"}
                     => method' = req.method
                /\ req.version = "1.0" /\ stage' \notin {"auth", "log", "alias"}
                     => method' \in CoreMethods
           /\ stage' = "done" =>
                IF req.version = "1.0"
                  THEN answer'.kind \in {"delegated", "unauthorized", "toolarge"}
                  ELSE answer'.kind # "delegated"
<1> USE DEF Aliased, Proceed
<1>1. ~ Exempt /\ stage \in Stages
  BY DEF Exempt, StagesInv, PassedInv
<1>2. CASE stage = "done"
  BY <1>2 DEF SurfaceNext, Answered, surfaceVars, NamesInv, AliasesAreServed, Done,
              Authenticate, LogPayload, NormalizeAlias, GuardRestShape, EnforceLimit,
              CacheCard, NegotiateVersion, WrongVerb, ServeDocument, ServeRest,
              Dispatch, Validate, Route, Claim, ClaimFails, CallSucceeds, CallFails,
              FinalizeClaim, FinalizeClaimRefused, FinalizeClaimFails, LoseClaim,
              Adopt, Release, CallStages
<1> SUFFICES ASSUME stage # "done"
             PROVE  /\ stage' # "done" =>
                         /\ stage' \notin CallStages
                         /\ req.version # "1.0" \/ stage' \in {"auth", "log", "alias"}
                              => method' = req.method
                         /\ req.version = "1.0" /\ stage' \notin {"auth", "log", "alias"}
                              => method' \in CoreMethods
                    /\ stage' = "done" =>
                         IF req.version = "1.0"
                           THEN answer'.kind \in {"delegated", "unauthorized", "toolarge"}
                           ELSE answer'.kind # "delegated"
  BY <1>2
<1>3. /\ stage \notin CallStages
      /\ req.version # "1.0" \/ stage \in {"auth", "log", "alias"} => method = req.method
      /\ req.version = "1.0" /\ stage \notin {"auth", "log", "alias"} => method \in CoreMethods
  BY DEF NamesInv
<1>5. req.version = "1.0" => ErrorVersion = "1.0"
  BY DEF NamesInv, ErrorVersion, Requested
<1>6. CASE Authenticate
  BY <1>1, <1>3, <1>6 DEF Authenticate, Answer, CallStages, reading, working, custody
<1>7. CASE LogPayload \/ GuardRestShape \/ EnforceLimit
  BY <1>3, <1>5, <1>7 DEF LogPayload, GuardRestShape, EnforceLimit, Refuse, Refused, CallStages
<1>8. CASE NormalizeAlias
  BY <1>3, <1>5, <1>8, AliasesAreOutside
  DEF NormalizeAlias, UsesAliases, Refuse, Refused, CallStages
<1>9. CASE CacheCard
  BY <1>3, <1>9 DEF CacheCard, CallStages, reading
<1>10. CASE NegotiateVersion
  BY <1>3, <1>10 DEF NegotiateVersion, Refused, CallStages, Requested, SupportedVersions
<1>11. CASE Dispatch
  <2>1. DOMAIN MethodMap[conf.profile] \subseteq ExtensionMethods
    BY ResolvedAreExtensions DEF MethodMap, StagesInv, CaseInv
  <2>2. method \notin DOMAIN MethodMap[conf.profile]
    BY <1>3, <1>11, <2>1, AliasesAreOutside, MethodsAreApart DEF Dispatch
  <2>3. req.version # "1.0" => method \notin CoreMethods
    BY <1>3, AliasesAreOutside
  <2> QED
    BY <1>3, <1>11, <2>2, <2>3 DEF Dispatch, Answer, Refuse, Refused
<1>12. ~ (WrongVerb \/ ServeDocument \/ ServeRest \/ Answered)
  BY DEF WrongVerb, ServeDocument, ServeRest, Answered
<1>13. CASE UNCHANGED surfaceVars
  BY <1>3, <1>13 DEF surfaceVars
<1> QED
  BY <1>3, <1>6, <1>7, <1>8, <1>9, <1>10, <1>11, <1>12, <1>13
  DEF SurfaceNext, CallStages, Validate, Route, Claim, ClaimFails, CallSucceeds,
      CallFails, FinalizeClaim, FinalizeClaimRefused, FinalizeClaimFails, LoseClaim,
      Adopt, Release

LEMMA NamesStep ==
    StagesInv /\ NamesInv /\ [SurfaceNext]_surfaceVars => NamesInv'
<1> SUFFICES ASSUME StagesInv, NamesInv, [SurfaceNext]_surfaceVars PROVE NamesInv'
  OBVIOUS
<1>1. UNCHANGED req
  BY DEF SurfaceNext, Authenticate, LogPayload, NormalizeAlias, GuardRestShape,
         EnforceLimit, CacheCard, NegotiateVersion, WrongVerb, ServeDocument,
         ServeRest, Dispatch, Validate, Route, Claim, ClaimFails, CallSucceeds,
         CallFails, FinalizeClaim, FinalizeClaimRefused, FinalizeClaimFails,
         LoseClaim, Adopt, Release, Answered, surfaceVars
<1>2. Aliased' = Aliased
  BY <1>1 DEF Aliased
<1>3. CASE Aliased
  BY <1>1, <1>3, FormatStep, AliasStep DEF NamesInv, AliasesAreServed, Done
<1>4. CASE ~ Aliased
  BY <1>1, <1>2, <1>4, FormatStep DEF NamesInv, AliasesAreServed, Aliased
<1> QED
  BY <1>3, <1>4

(* An error has the format of the version the client named, wherever on    *)
(* the way it is raised, and the names of 1.0 serve clients that name 1.0. *)
THEOREM ClientsAreUnderstood == SurfaceSpec => []VersionInv
<1>1. SurfaceInit => NamesInv
  BY DEF SurfaceInit, NamesInv, AliasesAreServed, Done, CallStages, NoAnswer, Refusals
<1>2. NamesInv => VersionInv
  BY DEF NamesInv, VersionInv, ErrorsSpeakTheVersion
<1> QED
  BY <1>1, <1>2, NamesStep, StagesHold, PTL DEF SurfaceSpec

-----------------------------------------------------------------------------
(* What is held of the body is nothing, all of it or what the limit allows. *)
LEMMA HeldIsBounded ==
    ASSUME CaseInv
    PROVE  /\ Held \in {0, conf.limit, req.size}
           /\ conf.limit > 0 => Held <= conf.limit
  BY DEF Held, Fits, Unlimited, CaseInv

BufferInv == buffered \in {0, conf.limit, req.size} /\ BuffersAreBounded

LEMMA BufferStep ==
    StagesInv /\ BufferInv /\ [SurfaceNext]_surfaceVars => BufferInv'
<1> SUFFICES ASSUME StagesInv, BufferInv, [SurfaceNext]_surfaceVars PROVE BufferInv'
  OBVIOUS
<1>1. UNCHANGED <<conf, req>>
  BY DEF SurfaceNext, Authenticate, LogPayload, NormalizeAlias, GuardRestShape,
         EnforceLimit, CacheCard, NegotiateVersion, WrongVerb, ServeDocument,
         ServeRest, Dispatch, Validate, Route, Claim, ClaimFails, CallSucceeds,
         CallFails, FinalizeClaim, FinalizeClaimRefused, FinalizeClaimFails,
         LoseClaim, Adopt, Release, Answered, surfaceVars
<1>2. CASE buffered' \in {buffered, Held}
  BY <1>1, <1>2, HeldIsBounded DEF BufferInv, BuffersAreBounded, StagesInv
<1>3. CASE buffered' = req.size /\ (ServeRest \/ Dispatch)
  <2>1. \/ stage = "endpoint" /\ req.verb = "POST"
        \/ buffered' = buffered
    BY <1>3 DEF ServeRest, Dispatch
  <2>2. CASE stage = "endpoint" /\ req.verb = "POST"
    <3>1. conf.limit > 0 => req.size <= conf.limit
      BY <2>2 DEF StagesInv, PassedInv, CaseInv, Fits, Unlimited
    <3> QED
      BY <1>1, <1>3, <3>1 DEF BufferInv, BuffersAreBounded
  <2> QED
    BY <1>2, <2>1, <2>2
<1> QED
  BY <1>2, <1>3
  DEF SurfaceNext, Authenticate, LogPayload, NormalizeAlias, GuardRestShape,
      EnforceLimit, CacheCard, NegotiateVersion, WrongVerb, ServeDocument, ServeRest,
      Dispatch, Validate, Route, Claim, ClaimFails, CallSucceeds, CallFails,
      FinalizeClaim, FinalizeClaimRefused, FinalizeClaimFails, LoseClaim, Adopt,
      Release, Answered, surfaceVars, reading, ReadOrRefuse

(* The documents name methods of the service only, and what they offer or  *)
(* declare closed is named.                                                *)
Wellformed(document) ==
  /\ document.named \subseteq CoreMethods \cup ExtensionMethods
  /\ document.offered \cup document.closed \subseteq document.named

LEMMA DocumentNamesMethods ==
    ASSUME NEW profile, NEW examples \in SUBSET (CoreMethods \cup ExtensionMethods)
    PROVE  Wellformed(Document(profile, examples))
<1> DEFINE session   == SessionManagementParams(profile)
           workspace == WorkspaceControlParams(profile)
           wire      == WireContract(profile)
           retained  == MethodRetention(profile)
           d         == Document(profile, examples)
<1>1. session.methods \cup session.flags \subseteq ExtensionMethods
  BY DEF SessionManagementParams, SessionManagement, ExtensionMethods, SessionMethods,
         SessionControls
<1>2. workspace.methods \cup workspace.flags \cup workspace.stability \subseteq ExtensionMethods
  BY DEF WorkspaceControlParams, WorkspaceControl, ExtensionMethods
<1>3. wire.all \subseteq CoreMethods \cup ExtensionMethods
  BY DEF WireContract, Supported, ExtensionsOf, WorkspaceControl, ExtensionMethods,
         SessionMethods, SessionControls
<1>4. wire.unavailable \subseteq ExtensionMethods
  BY DEF WireContract, Conditional, ExtensionMethods, SessionMethods, SessionControls
<1>5. DOMAIN retained \subseteq CoreMethods \cup ExtensionMethods
  BY DEF MethodRetention
<1>6. ProviderMethods \cup InterruptRecovery \cup InterruptCallbacks \subseteq ExtensionMethods
  BY DEF ExtensionMethods
<1>7. /\ d.offered = examples \cup session.methods \cup ProviderMethods
                        \cup workspace.methods \cup InterruptRecovery
                        \cup InterruptCallbacks \cup wire.all
      /\ d.named = d.offered \cup session.flags \cup workspace.flags
                     \cup workspace.stability \cup DOMAIN retained \cup wire.unavailable
      /\ d.closed = wire.unavailable
  BY DEF Document
<1> HIDE DEF session, workspace, wire, retained, d
<1>8. Wellformed(d)
  BY <1>1, <1>2, <1>3, <1>4, <1>5, <1>6, <1>7 DEF Wellformed
<1> QED
  BY <1>8 DEF d

LEMMA DocumentsNameMethods ==
    ASSUME NEW profile
    PROVE  /\ Wellformed(PublicCard) /\ Wellformed(ExtendedCard(profile))
           /\ Wellformed(OpenApi(profile)) /\ Wellformed(Listing(Supported(profile)))
<1> USE DEF SessionManagement, WorkspaceControl, ExtensionMethods
<1>1. SkillExamples(profile) \subseteq ExtensionMethods
  BY DEF SkillExamples, WorkspaceDiscovery, WorkspaceMutations, SessionMethods,
         SessionControls
<1>2. ExtensionsOf(profile) \subseteq ExtensionMethods
  BY DEF ExtensionsOf, SessionMethods, SessionControls
<1>3. OpenApiDescription(profile) \subseteq ExtensionMethods
  BY DEF OpenApiDescription
<1>4. OpenApiExamples(profile) \subseteq CoreMethods \cup ExtensionMethods
  BY DEF OpenApiExamples, CoreMethods, SessionMethods, SessionControls
<1>5. Wellformed(ExtendedCard(profile))
  BY <1>1, DocumentNamesMethods DEF ExtendedCard
<1>6. Wellformed(OpenApi(profile))
  BY <1>3, <1>4, DocumentNamesMethods DEF OpenApi
<1>7. Wellformed(PublicCard) /\ Wellformed(Listing(Supported(profile)))
  BY <1>2 DEF PublicCard, Supported, Listing, Wellformed
<1> QED
  BY <1>5, <1>6, <1>7

(* The types of what the request and its answer carry.                     *)
CarriedInv ==
  /\ method \in {req.method} \cup CoreMethods
  /\ principal \in {"none"} \cup Recognised
  /\ logged \in {"nothing", "omitted", "method", "body"}
  /\ negotiated \in {"none"} \cup SupportedVersions
  /\ claim \in {"none", "pending", "lost", "leaked"} /\ called \in BOOLEAN
  /\ owner \in {req.owner, "caller", "other"}
  /\ forked \in {"none", "nobody", "caller", "other"}
  /\ Wellformed(shown)

LEMMA CarriedStep ==
    StagesInv /\ CarriedInv /\ [SurfaceNext]_surfaceVars => CarriedInv'
<1> SUFFICES ASSUME StagesInv, CarriedInv, [SurfaceNext]_surfaceVars PROVE CarriedInv'
  OBVIOUS
<1> USE DEF CarriedInv
<1>1. CASE Authenticate \/ LogPayload \/ GuardRestShape \/ EnforceLimit
  BY <1>1 DEF Authenticate, LogPayload, GuardRestShape, EnforceLimit, working, custody
<1>2. CASE NormalizeAlias
  BY <1>2, AliasesAreOutside DEF NormalizeAlias, working, custody
<1>3. CASE CacheCard \/ NegotiateVersion \/ WrongVerb \/ ServeRest
  BY <1>3 DEF CacheCard, NegotiateVersion, WrongVerb, ServeRest, reading, working, custody
<1>4. CASE ServeDocument \/ Dispatch
  BY <1>4, DocumentsNameMethods
  DEF ServeDocument, Dispatch, reading, working, custody, StagesInv, CaseInv
<1>5. CASE Validate \/ Route \/ Claim \/ ClaimFails \/ LoseClaim
  BY <1>5 DEF Validate, Route, Claim, ClaimFails, LoseClaim, reading, working, custody
<1>6. CASE CallSucceeds \/ CallFails
  BY <1>6 DEF CallSucceeds, CallFails, reading, custody
<1>7. CASE FinalizeClaim \/ FinalizeClaimRefused \/ FinalizeClaimFails \/ Adopt \/ Release
  BY <1>7 DEF FinalizeClaim, FinalizeClaimRefused, FinalizeClaimFails, LoseClaim,
              Adopt, Release, reading, working, custody
<1>8. CASE Answered \/ UNCHANGED surfaceVars
  BY <1>8 DEF Answered, surfaceVars
<1> QED
  BY <1>1, <1>2, <1>3, <1>4, <1>5, <1>6, <1>7, <1>8 DEF SurfaceNext

(* An answer is one of the answers, and whoever is done has one.           *)
AnswerInv ==
  /\ answer.kind \in {"none"} \cup Answers
  /\ answer.format \in {"none", "legacy", "v1"}
  /\ stage \in {"release", "done"} => answer.kind # "none"

LEMMA AnswerStep ==
    StagesInv /\ AnswerInv /\ [SurfaceNext]_surfaceVars => AnswerInv'
<1> SUFFICES ASSUME StagesInv, AnswerInv, [SurfaceNext]_surfaceVars PROVE AnswerInv'
  OBVIOUS
<1> DEFINE Real(a) == a.kind \in Answers /\ a.format \in {"none", "legacy", "v1"}
<1>1. \A kind \in Refusals : \A version : Real(Refused(kind, version))
  BY DEF Refused, FormatFor, Answers
<1>2. \A kind \in Answers : Real([kind |-> kind, format |-> "none"])
  OBVIOUS
<1>3. {"toolarge", "badshape", "version", "unsupported", "badparams", "forbidden",
       "sessionforbidden", "internal"} \subseteq Refusals
  BY DEF Refusals
<1>4. {"unauthorized", "notmodified", "card", "document", "delegated", "nocontent",
       "notallowed", "success", "crash"} \subseteq Answers
  BY DEF Answers
<1>5. \A outcome \in Outcomes : ErrorFor(outcome) \in Refusals \cup {"crash"}
  BY DEF Outcomes, ErrorFor, Refusals
<1>6. \A a : Real(a) => a.kind # "none"
  BY DEF Answers, Refusals
<1>7. CASE Real(answer')
  BY <1>6, <1>7 DEF AnswerInv
<1> HIDE DEF Real
<1>8. CASE answer' = answer /\ (stage' \in {"release", "done"} => stage \in {"release", "done"})
  BY <1>8 DEF AnswerInv
<1>9. CASE Authenticate \/ LogPayload \/ NormalizeAlias \/ GuardRestShape
            \/ EnforceLimit
  BY <1>1, <1>2, <1>3, <1>4, <1>7, <1>8, <1>9
  DEF Authenticate, LogPayload, NormalizeAlias, GuardRestShape, EnforceLimit,
      Answer, Refuse, Proceed
<1>10. CASE CacheCard \/ NegotiateVersion \/ WrongVerb \/ ServeDocument \/ ServeRest
            \/ Dispatch
  BY <1>1, <1>2, <1>3, <1>4, <1>7, <1>8, <1>10
  DEF CacheCard, NegotiateVersion, WrongVerb, ServeDocument, ServeRest, Dispatch,
      Answer, Refuse, Proceed
<1>11. CASE Validate \/ Route \/ Claim \/ ClaimFails
  BY <1>1, <1>2, <1>3, <1>4, <1>7, <1>8, <1>11
  DEF Validate, Route, Claim, ClaimFails, Answer, Refuse, Proceed
<1>12. CASE CallFails
  BY <1>1, <1>2, <1>4, <1>5, <1>7, <1>12 DEF CallFails
<1>13. CASE CallSucceeds \/ FinalizeClaim
  <2>1. \/ answer' = answer /\ stage' \in {"finalize", "adopt"}
        \/ \E kind \in {"success", "nocontent"} : answer' = [kind |-> kind, format |-> "none"]
    BY <1>13 DEF CallSucceeds, FinalizeClaim, Succeed, Proceed
  <2> QED
    BY <1>2, <1>4, <1>7, <1>8, <2>1
<1>14. CASE FinalizeClaimRefused \/ FinalizeClaimFails \/ Adopt
  <2>1. \/ \E kind \in {"internal", "sessionforbidden"} : answer' = Refused(kind, ErrorVersion)
        \/ \E kind \in {"success", "nocontent"} : answer' = [kind |-> kind, format |-> "none"]
    BY <1>14 DEF FinalizeClaimRefused, FinalizeClaimFails, LoseClaim, Adopt, Succeed
  <2> QED
    BY <1>1, <1>2, <1>3, <1>4, <1>7, <2>1
<1>15. CASE LoseClaim \/ Release \/ Answered \/ UNCHANGED surfaceVars
  BY <1>8, <1>15 DEF LoseClaim, Release, Answered, surfaceVars, Proceed
<1> QED
  BY <1>9, <1>10, <1>11, <1>12, <1>13, <1>14, <1>15 DEF SurfaceNext

(* Whichever of the five middlewares reads the body first, and whatever    *)
(* length it was declared with, no more of it is held than the limit; and  *)
(* nobody leaves without an answer.                                        *)
THEOREM BodiesFit == SurfaceSpec => []BodyInv
<1> DEFINE Inv == BufferInv /\ CarriedInv /\ AnswerInv
<1>1. SurfaceInit => Inv
  <2>1. SurfaceInit => BufferInv
    BY CaseHolds DEF SurfaceInit, BufferInv, BuffersAreBounded, CaseInv
  <2>2. SurfaceInit => CarriedInv
    <3>1. Wellformed(Listing({}))
      BY DEF Wellformed, Listing
    <3> QED
      BY <3>1 DEF SurfaceInit, CarriedInv
  <2>3. SurfaceInit => AnswerInv
    BY DEF SurfaceInit, AnswerInv, NoAnswer
  <2> QED
    BY <2>1, <2>2, <2>3
<1>2. StagesInv /\ Inv /\ [SurfaceNext]_surfaceVars => Inv'
  BY BufferStep, CarriedStep, AnswerStep
<1>3. StagesInv /\ Inv => BodyInv
  BY DEF StagesInv, PassedInv, BufferInv, CarriedInv, AnswerInv, BodyInv,
         SurfaceTypeOK, Done, NoAnswer, Wellformed
<1> QED
  BY <1>1, <1>2, <1>3, StagesHold, PTL DEF SurfaceSpec

-----------------------------------------------------------------------------
(* The handlers take what the contracts document, family by family.        *)
LEMMA LifecycleTakesDocumented ==
    ASSUME NEW profile, NEW m \in Registry(profile).session_lifecycle
    PROVE  RequiredParams(m) \cup OptionalParams(m) \subseteq LifecycleAllows(m)
  BY DEF Registry, RequiredParams, OptionalParams, LifecycleAllows, Metadata, Routing,
         NeedsNoSession, ProviderMethods, WorkspaceDiscovery, WorkspaceMutations,
         InterruptRecovery, InterruptCallbacks, SessionMethods, SessionReads,
         SessionMutations, SessionControls

LEMMA LifecycleNeedsDocumented ==
    ASSUME NEW profile, NEW m \in Registry(profile).session_lifecycle, NEW fields,
           RequiredParams(m) \subseteq fields,
           m = "summarize" => {"request.providerID", "request.modelID"} \subseteq fields
    PROVE  LifecycleNeeds(m, fields) \subseteq fields
<1>1. CASE m = "summarize"
  BY <1>1 DEF RequiredParams, LifecycleNeeds, NeedsNoSession, ProviderMethods,
         WorkspaceDiscovery, WorkspaceMutations, InterruptRecovery, InterruptCallbacks
<1>2. CASE m # "summarize"
  BY <1>2 DEF Registry, RequiredParams, LifecycleNeeds, NeedsNoSession, ProviderMethods,
         WorkspaceDiscovery, WorkspaceMutations, InterruptRecovery, InterruptCallbacks,
         SessionMethods, SessionReads, SessionMutations, SessionControls
<1> QED
  BY <1>1, <1>2

LEMMA ControlTakesDocumented ==
    ASSUME NEW m \in SessionControls
    PROVE  /\ RequiredParams(m) \cup OptionalParams(m) \subseteq ControlAllows(m)
           /\ ControlNeeds(m) \subseteq RequiredParams(m)
<1> USE DEF RequiredParams, OptionalParams, ControlAllows, ControlNeeds, Metadata, Routing,
         NeedsNoSession, ProviderMethods, WorkspaceDiscovery, WorkspaceMutations,
         InterruptRecovery, InterruptCallbacks
<1>1. CASE m = "prompt_async"
  BY <1>1
<1>2. CASE m = "command"
  BY <1>2
<1>3. CASE m = "shell"
  BY <1>3
<1> QED
  BY <1>1, <1>2, <1>3 DEF SessionControls

LEMMA WorkspacesTakeDocumented ==
    ASSUME NEW profile, NEW m \in Registry(profile).workspace_control, NEW fields,
           Conforms(m, fields), m = "create_worktree" => fields # {}
    PROVE  fields \subseteq WorkspaceAllows(m) /\ WorkspaceNeeds(m, fields) \subseteq fields
<1> USE DEF Registry, RequiredParams, OptionalParams, Metadata, Routing, NeedsNoSession,
         ProviderMethods, WorkspaceDiscovery, WorkspaceMutations, InterruptRecovery,
         InterruptCallbacks, SessionMethods, SessionReads, SessionMutations, SessionControls
<1>1. RequiredParams(m) \cup OptionalParams(m) \subseteq WorkspaceAllows(m)
  BY DEF WorkspaceAllows
<1>2. WorkspaceNeeds(m, fields) \subseteq fields
  <2>1. CASE m = "create_worktree"
    BY <2>1 DEF WorkspaceNeeds, Conforms
  <2>2. CASE m # "create_worktree"
    BY <2>2 DEF WorkspaceNeeds, Conforms
  <2> QED
    BY <2>1, <2>2
<1> QED
  BY <1>1, <1>2 DEF Conforms

LEMMA ListingsTakeDocumented ==
    ASSUME NEW m \in {"list_sessions", "get_session_messages"}
    PROVE  /\ (RequiredParams(m) \cup OptionalParams(m)) \cap ListingRefuses = {}
           /\ m = "get_session_messages" => "session_id" \in RequiredParams(m)
  BY DEF RequiredParams, OptionalParams, ListingRefuses, NeedsNoSession, ProviderMethods,
         WorkspaceDiscovery, WorkspaceMutations, InterruptRecovery, InterruptCallbacks

LEMMA ProvidersTakeDocumented ==
    ASSUME NEW m \in ProviderMethods
    PROVE  RequiredParams(m) \cup OptionalParams(m)
             \subseteq IF m = "list_models" THEN {"provider_id"} ELSE {}
  BY DEF RequiredParams, OptionalParams, NeedsNoSession, ProviderMethods,
         SessionMethods, SessionReads, SessionMutations, SessionControls,
         InterruptCallbacks

LEMMA InterruptsTakeDocumented ==
    /\ \A m \in InterruptRecovery : RequiredParams(m) \cup OptionalParams(m) = {}
    /\ \A m \in InterruptCallbacks :
         OptionalParams(m) \subseteq Metadata \cup IF m = "reply_permission" THEN {"message"} ELSE {}
<1> USE DEF RequiredParams, OptionalParams, NeedsNoSession, Metadata, InterruptCallbacks,
         InterruptRecovery, SessionMethods, SessionReads, SessionMutations, SessionControls
<1>1. \A m \in InterruptRecovery : RequiredParams(m) \cup OptionalParams(m) = {}
  OBVIOUS
<1>2. \A m \in InterruptCallbacks :
         OptionalParams(m) \subseteq Metadata \cup IF m = "reply_permission" THEN {"message"} ELSE {}
  OBVIOUS
<1> QED
  BY <1>1, <1>2

(* Where a contract says less than its handler asks: an empty request for  *)
(* a worktree, and the model of a summary, which is named whole.           *)
Understated(m, fields) ==
  \/ m = "create_worktree" /\ fields = {}
  \/ m = "summarize" /\ ~ {"request.providerID", "request.modelID"} \subseteq fields

LEMMA DocumentedIsTaken ==
    ASSUME NEW profile, NEW m \in Resolvable(profile), NEW fields,
           Conforms(m, fields), ~ Understated(m, fields)
    PROVE  Validates(HandlerOf(profile, m), m, fields)
<1> DEFINE R == Registry(profile)
           h == HandlerOf(profile, m)
<1>1. h \in DOMAIN R /\ m \in R[h]
  BY DEF HandlerOf, Resolvable
<1>2. DOMAIN R = {"session_lifecycle", "session_listing", "provider_discovery",
                  "interrupt_query", "workspace_control", "session_control",
                  "interrupt_callback"}
  BY DEF Registry
<1> HIDE DEF h
<1>3. RequiredParams(m) \subseteq fields
      /\ fields \subseteq RequiredParams(m) \cup OptionalParams(m)
  BY DEF Conforms
<1>4. CASE h = "session_lifecycle"
  <2>1. m \in Registry(profile).session_lifecycle
    BY <1>1, <1>4
  <2>2. fields \subseteq LifecycleAllows(m) /\ LifecycleNeeds(m, fields) \subseteq fields
    BY <1>3, <2>1, LifecycleTakesDocumented, LifecycleNeedsDocumented DEF Understated
  <2> QED
    BY <1>4, <2>2 DEF Validates, h
<1>5. CASE h = "session_control"
  <2>1. m \in SessionControls
    BY <1>1, <1>5 DEF Registry, SessionControls
  <2> QED
    BY <1>3, <1>5, <2>1, ControlTakesDocumented DEF Validates, h
<1>6. CASE h = "session_listing"
  <2>1. m \in {"list_sessions", "get_session_messages"}
    BY <1>1, <1>6 DEF Registry
  <2> QED
    BY <1>3, <1>6, <2>1, ListingsTakeDocumented DEF Validates, h
<1>7. CASE h = "provider_discovery"
  <2>1. m \in ProviderMethods
    BY <1>1, <1>7 DEF Registry
  <2> QED
    BY <1>3, <1>7, <2>1, ProvidersTakeDocumented DEF Validates, h
<1>8. CASE h = "workspace_control"
  <2>1. m \in Registry(profile).workspace_control
    BY <1>1, <1>8
  <2> QED
    BY <1>8, <2>1, WorkspacesTakeDocumented DEF Validates, h, Understated
<1>9. CASE h \in {"interrupt_query", "interrupt_callback"}
  <2>1. \/ h = "interrupt_query" /\ m \in InterruptRecovery
        \/ h = "interrupt_callback" /\ m \in InterruptCallbacks
    BY <1>1, <1>9 DEF Registry
  <2> QED
    BY <1>3, <2>1, InterruptsTakeDocumented DEF Validates, h
<1> QED
  BY <1>1, <1>2, <1>4, <1>5, <1>6, <1>7, <1>8, <1>9 DEF h

DocumentedInv ==
  answer.kind = "badparams" /\ Conforms(method, req.fields) =>
    req.outside \/ Understated(method, req.fields)

LEMMA DocumentedStep ==
    StagesInv /\ DocumentedInv /\ [SurfaceNext]_surfaceVars => DocumentedInv'
<1> SUFFICES ASSUME StagesInv, DocumentedInv, [SurfaceNext]_surfaceVars PROVE DocumentedInv'
  OBVIOUS
<1>1. CASE Validate
  <2>1. CASE answer'.kind # "badparams"
    BY <2>1 DEF DocumentedInv
  <2>2. CASE answer'.kind = "badparams"
    <3>1. stage = "validate" /\ answer.kind # "badparams" /\ UNCHANGED <<req, method>>
      BY <1>1 DEF Validate, reading, StagesInv, CallInv
    <3>2. ~ Validates(Handler, method, req.fields)
      BY <1>1, <2>2, <3>1 DEF Validate, Refuse, Refused, Answer
    <3>3. method \in Resolvable(conf.profile) /\ Handler = HandlerOf(conf.profile, method)
      BY <3>1 DEF StagesInv, PassedInv, CaseInv, CallStages, Handler, MethodMap
    <3>4. Conforms(method, req.fields) => Understated(method, req.fields)
      BY <3>2, <3>3, DocumentedIsTaken
    <3> QED
      BY <3>1, <3>4 DEF DocumentedInv
  <2> QED
    BY <2>1, <2>2
<1>2. CASE Route
  <2>1. UNCHANGED <<req, method>> /\ (answer' = answer \/ req.outside)
    BY <1>2 DEF Route, reading
  <2> QED
    BY <2>1 DEF DocumentedInv
<1>3. CASE CallFails
  <2>1. answer'.kind # "badparams"
    BY <1>3 DEF CallFails, Refused, ErrorFor, Outcomes
  <2> QED
    BY <2>1 DEF DocumentedInv
<1>4. CASE stage = "alias"
  <2>1. answer'.kind # "badparams"
    BY <1>4 DEF StagesInv, CallInv, SurfaceNext, Authenticate, LogPayload,
                NormalizeAlias, GuardRestShape, EnforceLimit, CacheCard,
                NegotiateVersion, WrongVerb, ServeDocument, ServeRest, Dispatch,
                Validate, Route, Claim, ClaimFails, CallSucceeds, CallFails,
                FinalizeClaim, FinalizeClaimRefused, FinalizeClaimFails, LoseClaim,
                Adopt, Release, Answered, surfaceVars, Refuse, Refused
  <2> QED
    BY <2>1 DEF DocumentedInv
<1>5. CASE stage # "alias" /\ ~ (Validate \/ Route \/ CallFails)
  <2>1. UNCHANGED <<req, method>> /\ (answer' = answer \/ answer'.kind # "badparams")
    BY <1>5 DEF SurfaceNext, Authenticate, LogPayload, NormalizeAlias, GuardRestShape,
                EnforceLimit, CacheCard, NegotiateVersion, WrongVerb, ServeDocument,
                ServeRest, Dispatch, Claim, ClaimFails, CallSucceeds, FinalizeClaim,
                FinalizeClaimRefused, FinalizeClaimFails, LoseClaim, Adopt, Release,
                Answered, surfaceVars, reading, Refuse, Refused, Answer, Succeed
  <2> QED
    BY <2>1 DEF DocumentedInv
<1> QED
  BY <1>1, <1>2, <1>3, <1>4, <1>5

(* Whatever set of fields a call carries, if its contract documents it the *)
(* handler takes it, in the two contracts that understate the need apart.  *)
THEOREM ContractsAreKept == SurfaceSpec => []ContractCallsAreServed
<1>1. SurfaceInit => DocumentedInv
  BY DEF SurfaceInit, DocumentedInv, NoAnswer
<1>2. DocumentedInv => ContractCallsAreServed
  BY DEF DocumentedInv, ContractCallsAreServed, Understated
<1> QED
  BY <1>1, <1>2, DocumentedStep, StagesHold, PTL DEF SurfaceSpec

-----------------------------------------------------------------------------
(* The registry and every list of methods come to the same: all of them    *)
(* but those the deployment withholds.                                     *)
Withheld(profile) ==
  {m \in {"shell"} \cup WorkspaceMutations : ~ IsMethodEnabled(profile, m)}

LEMMA OthersAreOpen ==
    /\ (SessionReads \cup SessionMutations \cup ProviderMethods \cup InterruptRecovery
           \cup InterruptCallbacks \cup WorkspaceDiscovery \cup CoreMethods
           \cup (SessionControls \ {"shell"}))
         \cap ({"shell"} \cup WorkspaceMutations) = {}
    /\ "shell" \in SessionControls /\ "shell" \notin WorkspaceMutations
  BY DEF SessionReads, SessionMutations, ProviderMethods, InterruptRecovery,
         InterruptCallbacks, WorkspaceMutations, WorkspaceDiscovery, SessionControls,
         CoreMethods, PushMethods

LEMMA ResolvableAreOpen ==
    ASSUME NEW profile
    PROVE  Resolvable(profile) = ExtensionMethods \ Withheld(profile)
<1> DEFINE R == Registry(profile)
<1>1. Resolvable(profile) =
        R.session_lifecycle \cup R.session_listing \cup R.provider_discovery
          \cup R.interrupt_query \cup R.workspace_control \cup R.session_control
          \cup R.interrupt_callback
  <2>1. DOMAIN R = {"session_lifecycle", "session_listing", "provider_discovery",
                    "interrupt_query", "workspace_control", "session_control",
                    "interrupt_callback"}
    BY DEF Registry
  <2> QED
    BY <2>1 DEF Resolvable
<1>2. "shell" \in JsonRpcMethods(profile) <=> IsMethodEnabled(profile, "shell")
  BY DEF JsonRpcMethods, SessionManagement, WorkspaceControl, SessionMethods,
         SessionControls, ProviderMethods, WorkspaceDiscovery, WorkspaceMutations,
         InterruptRecovery, InterruptCallbacks
<1>3. WorkspaceMutations \cap JsonRpcMethods(profile) =
        {m \in WorkspaceMutations : IsMethodEnabled(profile, m)}
  BY DEF JsonRpcMethods, SessionManagement, WorkspaceControl, SessionMethods,
         SessionControls, SessionReads, SessionMutations, ProviderMethods,
         WorkspaceDiscovery, WorkspaceMutations, InterruptRecovery, InterruptCallbacks
<1>4. R.session_lifecycle \cup R.session_listing = SessionReads \cup SessionMutations
  BY DEF Registry, SessionReads
<1>5. R.session_control = SessionControls \ Withheld(profile)
  BY <1>2 DEF Registry, SessionControls, Withheld, WorkspaceMutations
<1>6. R.workspace_control = (WorkspaceDiscovery \cup WorkspaceMutations) \ Withheld(profile)
  BY <1>3, OthersAreOpen DEF Registry, Withheld
<1>7. /\ R.provider_discovery = ProviderMethods /\ R.interrupt_query = InterruptRecovery
      /\ R.interrupt_callback = InterruptCallbacks
  BY DEF Registry
<1> HIDE DEF R
<1> QED
  BY <1>1, <1>4, <1>5, <1>6, <1>7, OthersAreOpen
  DEF ExtensionMethods, SessionMethods, Withheld

LEMMA FamiliesAreOpen ==
    ASSUME NEW profile
    PROVE  /\ WorkspaceControl(profile) =
                (WorkspaceDiscovery \cup WorkspaceMutations) \ Withheld(profile)
           /\ SessionManagement(profile) = SessionMethods \ Withheld(profile)
           /\ ExtensionsOf(profile) = ExtensionMethods \ Withheld(profile)
<1>1. WorkspaceControl(profile) =
        (WorkspaceDiscovery \cup WorkspaceMutations) \ Withheld(profile)
  BY OthersAreOpen DEF WorkspaceControl, Withheld
<1>2. /\ (SessionMethods \ {"shell"}) \cup {m \in {"shell"} : IsMethodEnabled(profile, m)}
           = SessionMethods \ Withheld(profile)
      /\ SessionManagement(profile) = SessionMethods \ Withheld(profile)
  BY OthersAreOpen DEF Withheld, SessionMethods, SessionManagement
<1> QED
  BY <1>1, <1>2, OthersAreOpen DEF ExtensionsOf, ExtensionMethods, Withheld

LEMMA ExamplesAreOpen ==
    ASSUME NEW profile
    PROVE  SkillExamples(profile) \cup OpenApiDescription(profile)
             \cup OpenApiExamples(profile)
               \subseteq (ExtensionMethods \ Withheld(profile)) \cup CoreMethods
<1> DEFINE Open == ExtensionMethods \ Withheld(profile)
<1>1. ProviderMethods \cup InterruptRecovery \cup InterruptCallbacks
        \cup WorkspaceDiscovery \cup (SessionMethods \ {"shell"}) \subseteq Open
  BY OthersAreOpen DEF Withheld, ExtensionMethods, SessionMethods
<1>2. SessionManagement(profile) \cup WorkspaceControl(profile) \subseteq Open
  BY FamiliesAreOpen DEF ExtensionMethods
<1>3. {m \in {"shell", "create_worktree"} : IsMethodEnabled(profile, m)} \subseteq Open
  BY DEF Withheld, ExtensionMethods, SessionMethods, SessionControls, WorkspaceMutations
<1>4. {m \in WorkspaceMutations : IsMethodEnabled(profile, "create_workspace")} \subseteq Open
  BY DEF Withheld, ExtensionMethods, WorkspaceMutations, IsMethodEnabled, Conditional
<1>5. {"list_projects", "list_workspaces"} \subseteq Open
  BY <1>1 DEF WorkspaceDiscovery
<1> HIDE DEF Open
<1>6. SkillExamples(profile) \subseteq Open
  BY <1>1, <1>3, <1>5 DEF SkillExamples
<1>7. OpenApiDescription(profile) \subseteq Open
  BY <1>1, <1>2 DEF OpenApiDescription
<1>8. OpenApiExamples(profile) \subseteq Open \cup CoreMethods
  BY <1>1, <1>3, <1>4 DEF OpenApiExamples, CoreMethods
<1> QED
  BY <1>6, <1>7, <1>8 DEF Open

LEMMA ProfilesAgree ==
    ASSUME NEW profile
    PROVE  LET served == Resolvable(profile) \cup CoreMethods
               retained == MethodRetention(profile)
           IN  /\ served = (ExtensionMethods \ Withheld(profile)) \cup CoreMethods
               /\ Withheld(profile) = (CoreMethods \cup ExtensionMethods) \ served
               /\ Supported(profile) = served
               /\ WireContract(profile).all = served
               /\ WireContract(profile).unavailable = Withheld(profile)
               /\ Withheld(profile) = {m \in DOMAIN retained : retained[m] = "disabled"}
<1> DEFINE served == (ExtensionMethods \ Withheld(profile)) \cup CoreMethods
<1>1. Resolvable(profile) \cup CoreMethods = served
  BY ResolvableAreOpen
<1>2. Supported(profile) = served
  BY FamiliesAreOpen DEF Supported
<1>3. \A m \in DOMAIN Conditional(profile) : Conditional(profile)[m] <=> IsMethodEnabled(profile, m)
  BY DEF IsMethodEnabled
<1>4. DOMAIN Conditional(profile) = {"shell"} \cup WorkspaceMutations
  BY DEF Conditional
<1>5. WireContract(profile).unavailable = Withheld(profile)
  BY <1>3, <1>4 DEF WireContract, Withheld
<1>6. Withheld(profile) = (CoreMethods \cup ExtensionMethods) \ served
  BY OthersAreOpen DEF Withheld, ExtensionMethods, SessionMethods
<1>7. \A m \in CoreMethods \cup ExtensionMethods :
         MethodRetention(profile)[m] = "disabled" <=> m \in Withheld(profile)
  BY <1>3, <1>4 DEF MethodRetention, Withheld
<1>8. DOMAIN MethodRetention(profile) = CoreMethods \cup ExtensionMethods
  BY DEF MethodRetention
<1>9. Withheld(profile) =
        {m \in DOMAIN MethodRetention(profile) : MethodRetention(profile)[m] = "disabled"}
  BY <1>6, <1>7, <1>8
<1> QED
  BY <1>1, <1>2, <1>5, <1>6, <1>9 DEF WireContract

(* A document that carries every contract names every method, offers those *)
(* that are resolved and declares the others closed.                       *)
LEMMA DocumentIsTrue ==
    ASSUME NEW profile,
           NEW examples \in SUBSET ((ExtensionMethods \ Withheld(profile)) \cup CoreMethods)
    PROVE  LET d == Document(profile, examples)
               served == Resolvable(profile) \cup CoreMethods
           IN  d.offered \subseteq served /\ d.closed = d.named \ served
<1> DEFINE d == Document(profile, examples)
           served == Resolvable(profile) \cup CoreMethods
<1>1. /\ d.offered = examples \cup SessionManagement(profile) \cup ProviderMethods
                        \cup WorkspaceControl(profile) \cup InterruptRecovery
                        \cup InterruptCallbacks \cup WireContract(profile).all
      /\ DOMAIN MethodRetention(profile) \subseteq d.named
      /\ d.closed = WireContract(profile).unavailable
  BY DEF Document, SessionManagementParams, WorkspaceControlParams
<1>2. d.named \subseteq CoreMethods \cup ExtensionMethods
  BY DocumentNamesMethods DEF Wellformed
<1>3. d.named = CoreMethods \cup ExtensionMethods
  BY <1>1, <1>2 DEF MethodRetention
<1>4. /\ served = (ExtensionMethods \ Withheld(profile)) \cup CoreMethods
      /\ Withheld(profile) = (CoreMethods \cup ExtensionMethods) \ served
      /\ WireContract(profile).all = served
      /\ WireContract(profile).unavailable = Withheld(profile)
  BY ProfilesAgree
<1>5. ProviderMethods \cup InterruptRecovery \cup InterruptCallbacks
        \cup SessionManagement(profile) \cup WorkspaceControl(profile)
          \subseteq ExtensionMethods \ Withheld(profile)
  BY FamiliesAreOpen, OthersAreOpen DEF Withheld, ExtensionMethods, SessionMethods
<1> HIDE DEF d, served
<1>6. d.offered \subseteq served
  BY <1>1, <1>4, <1>5
<1>7. d.closed = d.named \ served
  BY <1>1, <1>3, <1>4
<1> QED
  BY <1>6, <1>7 DEF d, served

LEMMA ListingsAreTrue ==
    ASSUME NEW profile
    PROVE  LET served == Resolvable(profile) \cup CoreMethods
           IN  /\ PublicCard.offered \subseteq served
               /\ PublicCard.closed = PublicCard.named \ served
<1>1. InterruptCallbacks \subseteq Resolvable(profile)
  BY ResolvableAreOpen, OthersAreOpen DEF Withheld, ExtensionMethods
<1> QED
  BY <1>1 DEF PublicCard, Listing

DocumentInv == DocumentsTellTheTruth /\ (stage # "done" => shown.named = {})

LEMMA DocumentStep ==
    StagesInv /\ DocumentInv /\ [SurfaceNext]_surfaceVars => DocumentInv'
<1> SUFFICES ASSUME StagesInv, DocumentInv, [SurfaceNext]_surfaceVars PROVE DocumentInv'
  OBVIOUS
<1> USE DEF DocumentInv
<1> DEFINE served == Resolvable(conf.profile) \cup CoreMethods
           retained == MethodRetention(conf.profile)
           wire == WireContract(conf.profile)
<1>1. /\ Supported(conf.profile) = served /\ wire.all = served
      /\ wire.unavailable = {m \in DOMAIN retained : retained[m] = "disabled"}
  BY ProfilesAgree
<1>2. /\ PublicCard.offered \subseteq served
      /\ PublicCard.closed = PublicCard.named \ served
  BY ListingsAreTrue
<1>9. \A d \in {ExtendedCard(conf.profile), OpenApi(conf.profile)} :
         d.offered \subseteq served /\ d.closed = d.named \ served
  BY DocumentIsTrue, ExamplesAreOpen DEF ExtendedCard, OpenApi
<1>10. \A d \in {ExtendedCard(conf.profile), OpenApi(conf.profile)} :
          d.closed = wire.unavailable
  BY DEF ExtendedCard, OpenApi, Document
<1> HIDE DEF served, retained, wire
<1>3. CASE ServeDocument
  <2>1. /\ UNCHANGED <<conf, req, method>> /\ stage' = "done"
        /\ \/ shown' = PublicCard /\ answer'.kind = "card"
           \/ /\ shown' \in {ExtendedCard(conf.profile), OpenApi(conf.profile)}
              /\ answer'.kind = "document"
           \/ shown' = shown /\ answer'.kind = "notmodified"
    BY <1>3 DEF ServeDocument, Answer, Proceed, reading
  <2>2. CASE shown' = PublicCard /\ answer'.kind = "card"
    BY <1>2, <2>1, <2>2 DEF DocumentsTellTheTruth, served
  <2>3. CASE /\ shown' \in {ExtendedCard(conf.profile), OpenApi(conf.profile)}
             /\ answer'.kind = "document"
    BY <1>1, <1>9, <1>10, <2>1, <2>3 DEF DocumentsTellTheTruth, served, retained, wire
  <2>4. CASE shown' = shown
    BY <1>3, <2>1, <2>4 DEF ServeDocument, DocumentsTellTheTruth
  <2> QED
    BY <2>1, <2>2, <2>3, <2>4
<1>4. CASE Dispatch
  <2>1. UNCHANGED <<conf, req, method>> /\ shown.named = {}
    BY <1>4 DEF Dispatch
  <2>2. CASE shown' = shown
    BY <2>1, <2>2 DEF DocumentsTellTheTruth
  <2>3. CASE shown' # shown
    <3>1. /\ shown' = Listing(Supported(conf.profile)) /\ stage' = "done"
          /\ method \notin DOMAIN MethodMap[conf.profile] /\ method \notin CoreMethods
          /\ answer'.kind # "document"
      BY <1>4, <2>1, <2>3 DEF Dispatch, Refuse, Refused, Proceed
    <3>2. method \notin served
      BY <3>1 DEF MethodMap, StagesInv, CaseInv, served
    <3>3. shown'.offered = served /\ shown'.named = served /\ shown'.closed = {}
      BY <1>1, <3>1 DEF Listing
    <3> QED
      BY <1>1, <2>1, <3>1, <3>2, <3>3 DEF DocumentsTellTheTruth, served
  <2> QED
    BY <2>2, <2>3
<1>5. CASE Answered \/ UNCHANGED surfaceVars
  BY <1>5 DEF Answered, surfaceVars, DocumentsTellTheTruth, Done
<1>6. CASE stage # "done" /\ ~ (ServeDocument \/ Dispatch)
  <2>1. shown' = shown
    BY <1>6 DEF SurfaceNext, Authenticate, LogPayload, NormalizeAlias, GuardRestShape,
                EnforceLimit, CacheCard, NegotiateVersion, WrongVerb, ServeRest,
                Validate, Route, Claim, ClaimFails, CallSucceeds, CallFails,
                FinalizeClaim, FinalizeClaimRefused, FinalizeClaimFails, LoseClaim,
                Adopt, Release, Answered, surfaceVars
  <2> QED
    BY <1>6, <2>1 DEF DocumentsTellTheTruth
<1> QED
  BY <1>3, <1>4, <1>5, <1>6
  DEF SurfaceNext, Authenticate, LogPayload, NormalizeAlias, GuardRestShape,
      EnforceLimit, CacheCard, NegotiateVersion, WrongVerb, ServeDocument, ServeRest,
      Dispatch, Validate, Route, Claim, ClaimFails, CallSucceeds, CallFails,
      FinalizeClaim, FinalizeClaimRefused, FinalizeClaimFails, LoseClaim, Adopt,
      Release

(* What the cards, the OpenAPI document and the list in an error offer is  *)
(* resolved by the deployment. A closed method is still named by a document *)
(* (by its flags, its stability, the profile): every one of them, and no   *)
(* other, is declared unavailable in the same document.                    *)
THEOREM DocumentsAreTrue == SurfaceSpec => []DocumentsTellTheTruth
<1>1. SurfaceInit => DocumentInv
  BY DEF SurfaceInit, DocumentInv, DocumentsTellTheTruth, Done, Listing
<1> QED
  BY <1>1, DocumentStep, StagesHold, PTL DEF SurfaceSpec, DocumentInv
=============================================================================
