-------------------------------- MODULE MCEdges --------------------------------
(* The two edges of the service, checked in one run: the requests it serves  *)
(* (Surface) and those it makes of peers and of the upstream (ToolLoop). A   *)
(* behaviour is one of either, while the other stands still.                 *)
EXTENDS Surface, ToolLoop

CONSTANTS e1, e2
VARIABLE part

MCLimit == [k \in Kinds |-> 1]

-----------------------------------------------------------------------------
\* The deployments and requests of the instance.

Open   == [shell |-> TRUE, mutations |-> TRUE, sandbox |-> "workspace-write",
           scope |-> "workspace_only"]
Closed == [Open EXCEPT !.shell = FALSE, !.mutations = FALSE]
Frozen == [Open EXCEPT !.sandbox = "read-only"]

Deployed(profile) ==
  [log |-> FALSE, logLimit |-> 0, limit |-> 2, default |-> "0.3",
   profile |-> profile]

Plain ==
  [verb |-> "POST", path |-> "rpc", cred |-> "plain", version |-> "absent",
   declared |-> TRUE, size |-> 1, json |-> TRUE, shape |-> "call",
   method |-> "list_models", fields |-> {}, outside |-> FALSE,
   owner |-> "nobody", id |-> TRUE, cached |-> FALSE]

\* What the middlewares look at, in every combination, on a few calls.
Envelopes ==
  {[Deployed(Closed) EXCEPT !.log = l[1], !.logLimit = l[2], !.limit = n,
                            !.default = v] :
     l \in {<<FALSE, 0>>, <<TRUE, 0>>, <<TRUE, 1>>}, n \in {0, 2},
     v \in SupportedVersions}

Posted ==
  {[Plain EXCEPT !.method = m] :
     m \in {"SendMessage", "message/send", "get_session_todo", "shell",
            "list_models", "unknown"}}
  \cup {[Plain EXCEPT !.shape = "junk"]}
  \cup {[Plain EXCEPT !.path = "send", !.shape = s] : s \in {"call", "message", "rest"}}

Read ==
  {[Plain EXCEPT !.verb = v[1], !.path = v[2]] :
     v \in {<<"GET", "rpc">>, <<"GET", "tasks">>, <<"OPTIONS", "rpc">>}}

Wrapped(plain) ==
  {[plain EXCEPT !.cred = c, !.version = v, !.declared = d, !.size = n, !.json = j] :
     c \in {"wrong", "plain"}, v \in Versions, d \in BOOLEAN, n \in {1, 3},
     j \in BOOLEAN}

EnvelopeCases ==
  [conf : Envelopes, req : UNION {Wrapped(plain) : plain \in Posted \cup Read}]

\* Every method, with the fields it needs, one less, one more, all, and one
\* that nobody knows.
FieldSets(m) ==
  LET needs == RequiredParams(m)
      takes == OptionalParams(m)
  IN {needs, needs \cup takes, needs \cup {"bogus"}, needs \cup {"request.bogus"},
      needs \cup {"request"}, needs \cup {"cursor"}, needs \cup {"directory"},
      needs \cup Metadata}
       \cup {needs \cup {field} : field \in takes}
       \cup {needs \ {field} : field \in needs}

Entitlements ==
  {<<Deployed(Open), cred>> : cred \in Recognised}
    \cup {<<Deployed(profile), "both">> : profile \in {Closed, Frozen}}

Owners(m) ==
  IF m \in SessionMutations \cup SessionControls
    THEN {"nobody", "caller", "other"} ELSE {"nobody"}

CallCases ==
  {[conf |-> e[1],
    req |-> [Plain EXCEPT !.cred = e[2], !.method = c[1], !.fields = c[2],
                          !.owner = c[3], !.outside = c[4], !.id = c[5],
                          !.version = c[6]]] :
     e \in Entitlements,
     c \in {<<m, f, o, out, id, v>> \in
              UNION {{m} \X FieldSets(m) \X Owners(m) \X BOOLEAN \X BOOLEAN
                       \X {"0.3", "1.0"} : m \in ExtensionMethods} :
              /\ out => f \cap (Routing \cup {"query.directory"}) # {}
              /\ id \/ f = RequiredParams(m)
              /\ v = "1.0" \/ f = RequiredParams(m)}}

UnknownCases ==
  {[conf |-> Deployed(p), req |-> [Plain EXCEPT !.method = m, !.id = id, !.version = v]] :
     p \in Profiles, m \in {"unknown", "shell", "create_workspace"} \cup DOMAIN Aliases,
     id \in BOOLEAN, v \in {"absent", "1.0"}}

DocumentCases ==
  {[conf |-> Deployed(p),
    req |-> [Plain EXCEPT !.verb = v, !.path = d, !.cred = c, !.cached = k]] :
     p \in Profiles, v \in {"GET", "POST"}, d \in {"card", "extended", "document"},
     c \in Credentials, k \in BOOLEAN}

MCCases == EnvelopeCases \cup CallCases \cup UnknownCases \cup DocumentCases

-----------------------------------------------------------------------------
Unasked == conf = Deployed(Closed) /\ req = Plain

EdgesInit ==
  /\ SurfaceInit /\ LoopInit
  /\ (part = "loop" /\ Unasked) \/ part = "surface"

EdgesNext ==
  \/ part = "surface" /\ SurfaceNext /\ UNCHANGED <<part, loopVars>>
  \/ part = "loop" /\ LoopNext /\ UNCHANGED <<part, surfaceVars>>

EdgesSpec == EdgesInit /\ [][EdgesNext]_<<part, surfaceVars, loopVars>>
===============================================================================
