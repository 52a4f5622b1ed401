------------------------------- MODULE Execution -------------------------------
(***************************************************************************)
(* Requests that drive upstream sessions, from admission to cleanup: the   *)
(* execution coordinator (execution/coordinator.py) for message/send and   *)
(* message/stream, the session control and lifecycle handlers              *)
(* (jsonrpc/handlers) for the methods that act on an existing session, and *)
(* tasks/cancel (execution/executor.py).  They share the session manager,  *)
(* one lock per session, and the registry of running executions.           *)
(*                                                                         *)
(* Each coroutine is a program counter; a step runs from one await to the  *)
(* next, so awaits are where steps of different requests interleave and    *)
(* where a cancellation is delivered.                                      *)
(***************************************************************************)
EXTENDS SessionManager

CONSTANTS Keys,         \* execution keys: (task id, context id)
          Existing,     \* upstream sessions that exist at the start
          KindOf,       \* request -> "send", "control" or "fork"
          IdentityOf,   \* request -> its caller
          ContextOf,    \* request -> binding context of its conversation
          PreferredOf,  \* request -> session it names, or None
          KeyOf,        \* request -> execution key
          Streaming,    \* requests served as a stream
          KeyContext    \* execution key -> its plain context

ASSUME RequestAttributes ==
    /\ Existing \subseteq Sessions
    /\ KindOf \in [Requests -> {"send", "control", "fork"}]
    /\ IdentityOf \in [Requests -> Identities]
    /\ ContextOf \in [Requests -> Contexts]
    /\ PreferredOf \in [Requests -> Sessions \cup {None}]
    /\ \A r \in Requests : KindOf[r] # "send" => PreferredOf[r] # None
    /\ KeyOf \in [Requests -> Keys]
    /\ Streaming \subseteq {r \in Requests : KindOf[r] = "send"}
    /\ KeyContext \in [Keys -> Contexts]

VARIABLES pc,        \* request -> the await it is at
          sid,       \* request -> session it acts on
          pending,   \* request -> it still holds a claim to settle
          awaiting,  \* request -> request whose create task it awaits
          lockRef,   \* requests that obtained their session's lock object
          held,      \* ghost: requests that acquired it and have it still
          locked,    \* session -> its lock is locked
          running,   \* registry: key -> execution registered as running
          boundTo,   \* registry: key -> execution whose session is recorded
          consuming, \* requests whose stream task runs
          signalled, \* requests whose stream delivered a terminal signal
          final,     \* request -> terminal event its execution emitted
          doomed,    \* requests with a cancellation to be delivered
          gone,      \* requests whose client closed the stream
          cancel,    \* key -> the tasks/cancel call for it
          leased,    \* ghost: requests whose claim's lease has not run out
          robbed     \* ghost: sessions whose lock a non-holder released

lockVars     == <<lockRef, held, locked, robbed>>
registryVars == <<running, boundTo>>
streamVars   == <<consuming, signalled>>
flowVars     == <<pc, sid, pending, awaiting, final, doomed, gone, leased>>
vars == <<storeVars, managerVars, lockVars, registryVars, streamVars, flowVars,
          cancel>>

-------------------------------------------------------------------------------
Driving == {"send", "finalize", "finalbind", "respond", "terminal"}
Working == {"claim", "rebind", "lookup", "creating", "record", "getlock",
            "queued"} \cup Driving
PCs == {"idle", "op", "adopt", "release", "unlock", "done"} \cup Working

Executions == {r \in Requests : KindOf[r] = "send"}
PairOf(r)  == <<IdentityOf[r], ContextOf[r]>>
Live(r)    == pc[r] \notin {"idle", "done"}

CancelRecords ==
    [phase   : {"idle", "read", "popped", "done"},
     target  : Requests \cup {None},   \* execution to be cancelled
     session : Sessions \cup {None},   \* session to be aborted
     pair    : Pairs \cup {None},      \* conversation to be forgotten
     create  : Requests \cup {None}]   \* create task to be cancelled

NoCancel == [phase |-> "idle", target |-> None, session |-> None,
             pair |-> None, create |-> None]
Answered == [NoCancel EXCEPT !.phase = "done"]

TypeOK ==
    /\ ManagerTypeOK
    /\ pc \in [Requests -> PCs]
    /\ sid \in [Requests -> Sessions \cup {None}]
    /\ pending \in [Requests -> BOOLEAN]
    /\ awaiting \in [Requests -> Requests \cup {None}]
    /\ lockRef \subseteq Requests /\ held \subseteq Requests
    /\ locked \in [Sessions -> BOOLEAN]
    /\ running \in [Keys -> Requests \cup {None}]
    /\ boundTo \in [Keys -> Requests \cup {None}]
    /\ consuming \subseteq Streaming /\ signalled \subseteq Streaming
    /\ final \in [Requests -> {"none", "completed", "failed"}]
    /\ doomed \subseteq Requests /\ gone \subseteq Streaming
    /\ cancel \in [Keys -> CancelRecords]
    /\ leased \subseteq Requests /\ robbed \subseteq Sessions

Init ==
    /\ ManagerInit(Existing)
    /\ pc = [r \in Requests |-> "idle"]
    /\ sid = [r \in Requests |-> None]
    /\ pending = [r \in Requests |-> FALSE]
    /\ awaiting = [r \in Requests |-> None]
    /\ lockRef = {} /\ held = {} /\ robbed = {}
    /\ locked = [s \in Sessions |-> FALSE]
    /\ running = [k \in Keys |-> None]
    /\ boundTo = [k \in Keys |-> None]
    /\ consuming = {} /\ signalled = {}
    /\ final = [r \in Requests |-> "none"]
    /\ doomed = {} /\ gone = {} /\ leased = {}
    /\ cancel = [k \in Keys |-> NoCancel]

-------------------------------------------------------------------------------
(* Control flow.  A step of r that is not a cancellation needs r to have   *)
(* none to deliver.                                                        *)
At(r, label) == pc[r] = label /\ r \notin doomed
Goto(r, label) == pc' = [pc EXCEPT ![r] = label]

(* Where a request goes when its work ends, by success or by an exception: *)
(* the finally block of the coordinator, the exit of the claim guard.      *)
CleanupPc(r, owes) == IF owes THEN "release"
                      ELSE IF KindOf[r] = "send" THEN "unlock" ELSE "done"

-------------------------------------------------------------------------------
(* An error ends the task with a final event, whatever the transport.      *)
EmitError(r) == final' = [final EXCEPT ![r] = "failed"]

(* Admission.  A send that fails validation ends at once; any other is     *)
(* registered as running under its key, over whatever was there.           *)
Register(r) == running' = [running EXCEPT ![KeyOf[r]] = r]

Reject(r) ==
    /\ At(r, "idle") /\ KindOf[r] = "send"
    /\ Goto(r, "done")
    /\ EmitError(r)
    /\ UNCHANGED <<storeVars, managerVars, lockVars, registryVars, streamVars,
                   sid, pending, awaiting, doomed, gone, leased, cancel>>

Start(r) ==
    /\ At(r, "idle")
    /\ Goto(r, IF PreferredOf[r] = None THEN "lookup" ELSE "claim")
    /\ IF KindOf[r] = "send" THEN Register(r) ELSE UNCHANGED running
    /\ sid' = [sid EXCEPT ![r] = PreferredOf[r]]
    /\ UNCHANGED <<storeVars, managerVars, lockVars, boundTo, streamVars,
                   pending, awaiting, final, doomed, gone, leased, cancel>>

-------------------------------------------------------------------------------
(* Binding a session.  Claim is the named-session branch of                *)
(* get_or_create_session and the entry of the handlers' claim guard.       *)
Claim(r) ==
    LET owes == ClaimIsPending(IdentityOf[r], sid[r]) IN
    /\ At(r, "claim")
    /\ ClaimPreferredSession(IdentityOf[r], sid[r])
    /\ pending' = [pending EXCEPT ![r] = owes]
    /\ leased' = IF owes THEN leased \cup {r} ELSE leased
    /\ Goto(r, IF KindOf[r] # "send" THEN "op"
               ELSE IF owes THEN "getlock" ELSE "rebind")
    /\ UNCHANGED <<managerVars, lockVars, registryVars, streamVars, sid,
                   awaiting, final, doomed, gone, cancel>>

Rebind(r) ==
    /\ At(r, "rebind")
    /\ BindSession(PairOf(r), sid[r])
    /\ Goto(r, "getlock")
    /\ UNCHANGED <<managerVars, lockVars, registryVars, streamVars, sid,
                   pending, awaiting, final, doomed, gone, leased, cancel>>

LookupBound(r) ==
    /\ At(r, "lookup")
    /\ binding[PairOf(r)] # None
    /\ sid' = [sid EXCEPT ![r] = binding[PairOf(r)]]
    /\ Goto(r, "getlock")
    /\ UNCHANGED <<storeVars, managerVars, lockVars, registryVars, streamVars,
                   pending, awaiting, final, doomed, gone, leased, cancel>>

LookupJoin(r) ==
    /\ At(r, "lookup")
    /\ binding[PairOf(r)] = None
    /\ inflight[PairOf(r)] # None
    /\ awaiting' = [awaiting EXCEPT ![r] = inflight[PairOf(r)]]
    /\ Goto(r, "creating")
    /\ UNCHANGED <<storeVars, managerVars, lockVars, registryVars, streamVars,
                   sid, pending, final, doomed, gone, leased, cancel>>

LookupStart(r) ==
    /\ At(r, "lookup")
    /\ binding[PairOf(r)] = None
    /\ StartCreate(r, PairOf(r))
    /\ awaiting' = [awaiting EXCEPT ![r] = r]
    /\ Goto(r, "creating")
    /\ UNCHANGED <<storeVars, minted, lockVars, registryVars, streamVars, sid,
                   pending, final, doomed, gone, leased, cancel>>

(* The upstream's answer reaches every request that awaits the task.       *)
Created(r) ==
    /\ At(r, "creating")
    /\ create[awaiting[r]] \in Sessions
    /\ Goto(r, "record")
    /\ UNCHANGED <<storeVars, managerVars, lockVars, registryVars, streamVars,
                   sid, pending, awaiting, final, doomed, gone, leased, cancel>>

Record(r) ==
    /\ At(r, "record")
    /\ RecordCreated(PairOf(r), create[awaiting[r]])
    /\ DropInflight(PairOf(r), awaiting[r])
    /\ sid' = [sid EXCEPT ![r] = create[awaiting[r]]]
    /\ Goto(r, "getlock")
    /\ UNCHANGED <<create, minted, lockVars, registryVars, streamVars, pending,
                   awaiting, final, doomed, gone, leased, cancel>>

-------------------------------------------------------------------------------
(* The session lock.  Its waiters are the requests at "queued".            *)
GetSessionLock(r) ==
    /\ At(r, "getlock")
    /\ lockRef' = lockRef \cup {r}
    /\ Goto(r, "queued")
    /\ UNCHANGED <<storeVars, managerVars, held, locked, robbed, registryVars,
                   streamVars, sid, pending, awaiting, final, doomed, gone,
                   leased, cancel>>

(* The lock, the registry's session entry and the stream task come without *)
(* an await between them.                                                  *)
Acquire(r) ==
    /\ At(r, "queued")
    /\ ~locked[sid[r]]
    /\ locked' = [locked EXCEPT ![sid[r]] = TRUE]
    /\ held' = held \cup {r}
    /\ boundTo' = [boundTo EXCEPT ![KeyOf[r]] = r]
    /\ consuming' = consuming \cup ({r} \cap Streaming)
    /\ Goto(r, "send")
    /\ UNCHANGED <<storeVars, managerVars, lockRef, robbed, running, signalled,
                   sid, pending, awaiting, final, doomed, gone, leased, cancel>>

-------------------------------------------------------------------------------
(* The turn.  A send succeeds only on a session the upstream has.          *)
Send(r) ==
    /\ At(r, "send")
    /\ sid[r] \in minted
    /\ Goto(r, IF pending[r] THEN "finalize" ELSE "respond")
    /\ UNCHANGED <<storeVars, managerVars, lockVars, registryVars, streamVars,
                   sid, pending, awaiting, final, doomed, gone, leased, cancel>>

(* Settling the claim: the owner first, for an execution the binding next, *)
(* each in a critical section of its own.                                  *)
Finalize(r) ==
    /\ At(r, "finalize")
    /\ FinalizeSessionClaim(IdentityOf[r], sid[r])
    /\ leased' = leased \ {r}
    /\ pending' = [pending EXCEPT ![r] = KindOf[r] = "send"]
    /\ Goto(r, CASE KindOf[r] = "send" -> "finalbind"
                 [] KindOf[r] = "fork" -> "adopt"
                 [] OTHER -> "done")
    /\ UNCHANGED <<managerVars, lockVars, registryVars, streamVars, sid,
                   awaiting, final, doomed, gone, cancel>>

FinalBind(r) ==
    /\ At(r, "finalbind")
    /\ BindSession(PairOf(r), sid[r])
    /\ pending' = [pending EXCEPT ![r] = FALSE]
    /\ Goto(r, "respond")
    /\ UNCHANGED <<managerVars, lockVars, registryVars, streamVars, sid,
                   awaiting, final, doomed, gone, leased, cancel>>

(* The answer asked for tools: their results are sent as the next turn.    *)
ContinueWithTools(r) ==
    /\ At(r, "respond")
    /\ Goto(r, "send")
    /\ UNCHANGED <<storeVars, managerVars, lockVars, registryVars, streamVars,
                   sid, pending, awaiting, final, doomed, gone, leased, cancel>>

(* A stream waits for its terminal signal; any other answer completes.     *)
AwaitTerminal(r) ==
    /\ At(r, "respond") /\ r \in Streaming
    /\ Goto(r, "terminal")
    /\ UNCHANGED <<storeVars, managerVars, lockVars, registryVars, streamVars,
                   sid, pending, awaiting, final, doomed, gone, leased, cancel>>

Complete(r) ==
    /\ \/ At(r, "respond") /\ r \notin Streaming
       \/ At(r, "terminal") /\ r \in signalled
    /\ final' = [final EXCEPT ![r] = "completed"]
    /\ Goto(r, CleanupPc(r, pending[r]))
    /\ UNCHANGED <<storeVars, managerVars, lockVars, registryVars, streamVars,
                   sid, pending, awaiting, doomed, gone, leased, cancel>>

-------------------------------------------------------------------------------
(* The stream task: session.idle or session.error is one terminal signal;  *)
(* the upstream may close the stream at any time, with or without it.      *)
StreamSignals(r) ==
    /\ r \in consuming
    /\ signalled' = signalled \cup {r}
    /\ UNCHANGED <<storeVars, managerVars, lockVars, registryVars, consuming,
                   flowVars, cancel>>

StreamEnds(r) ==
    /\ r \in consuming
    /\ consuming' = consuming \ {r}
    /\ UNCHANGED <<storeVars, managerVars, lockVars, registryVars, signalled,
                   flowVars, cancel>>

-------------------------------------------------------------------------------
(* Session control and lifecycle methods: one upstream operation inside    *)
(* the claim guard; a fork brings a new session, which its caller adopts.  *)
ForkSession(r) ==
    \E s \in Sessions \ minted :
        /\ create' = [create EXCEPT ![r] = s]
        /\ minted' = minted \cup {s}

Operate(r) ==
    /\ At(r, "op")
    /\ sid[r] \in minted
    /\ IF KindOf[r] = "fork" THEN ForkSession(r) ELSE UNCHANGED <<create, minted>>
    /\ Goto(r, CASE pending[r] -> "finalize"
                 [] ~pending[r] /\ KindOf[r] = "fork" -> "adopt"
                 [] OTHER -> "done")
    /\ UNCHANGED <<storeVars, inflight, lockVars, registryVars, streamVars, sid,
                   pending, awaiting, final, doomed, gone, leased, cancel>>

Adopt(r) ==
    /\ At(r, "adopt")
    /\ FinalizeSessionClaim(IdentityOf[r], create[r])
    /\ Goto(r, "done")
    /\ UNCHANGED <<managerVars, lockVars, registryVars, streamVars, sid,
                   pending, awaiting, final, doomed, gone, leased, cancel>>

-------------------------------------------------------------------------------
(* What a critical section that fails, or is cancelled at an await inside  *)
(* it, may leave in the database.                                          *)
TornWrite(r) ==
    \/ UNCHANGED storeVars
    \/ /\ pc[r] = "claim" /\ Backend = "database"
       /\ ClaimPreferredSession(IdentityOf[r], sid[r])
    \/ /\ pc[r] = "record" /\ Backend = "database"
       /\ \/ RecordBindingOnly(PairOf(r), create[awaiting[r]])
          \/ RecordCreated(PairOf(r), create[awaiting[r]])
    \/ /\ pc[r] = "finalize"
       /\ FinalizeOwnerOnly(IdentityOf[r], sid[r])

(* Why a request's work may raise.                                         *)
Raises(r) ==
    \/ pc[r] \in {"claim", "finalize"} /\ ~MayHold(IdentityOf[r], sid[r])
    \/ pc[r] = "adopt" /\ ~MayHold(IdentityOf[r], create[r])
    \/ pc[r] = "creating" /\ create[awaiting[r]] = "failed"
    \/ /\ pc[r] = "record"
       /\ owner[create[awaiting[r]]] \notin {None, IdentityOf[r]}
    \/ pc[r] \in {"send", "op", "respond"}
    \/ pc[r] = "terminal" /\ (r \in signalled \/ r \notin consuming)
    \/ Backend = "database" /\ pc[r] \in {"claim", "rebind", "lookup", "record",
                                          "finalize", "finalbind", "adopt"}

(* An exception: a failed task event or an error response, then cleanup.   *)
(* A failed create task, and a session owned by another, leave the map.    *)
Fail(r) ==
    /\ At(r, pc[r]) /\ Raises(r)
    /\ TornWrite(r)
    /\ IF \/ pc[r] = "creating"
          \/ /\ pc[r] = "record"
             /\ owner[create[awaiting[r]]] \notin {None, IdentityOf[r]}
       THEN DropInflight(PairOf(r), awaiting[r])
       ELSE UNCHANGED inflight
    /\ EmitError(r)
    /\ Goto(r, CleanupPc(r, pending[r]))
    /\ UNCHANGED <<create, minted, lockVars, registryVars, streamVars, sid,
                   pending, awaiting, doomed, gone, leased, cancel>>

(* A cancellation is delivered at an await of the work: no event, straight *)
(* to cleanup.  Cancelling a request that awaits a create task cancels the *)
(* task itself, whoever else awaits it; it stays in the map.               *)
Interrupt(r) ==
    /\ pc[r] \in Working /\ r \in doomed
    /\ TornWrite(r)
    /\ create' = IF pc[r] = "creating" /\ create[awaiting[r]] = "running"
                 THEN [create EXCEPT ![awaiting[r]] = "cancelled"] ELSE create
    /\ doomed' = doomed \ {r}
    /\ Goto(r, CleanupPc(r, pending[r]))
    /\ UNCHANGED <<inflight, minted, lockVars, registryVars, streamVars, sid,
                   pending, awaiting, final, gone, leased, cancel>>

(* The awaited create task was cancelled: CancelledError passes every      *)
(* except clause, here and in the coordinator.                             *)
ShareCancellation(r) ==
    /\ At(r, "creating")
    /\ create[awaiting[r]] = "cancelled"
    /\ Goto(r, CleanupPc(r, pending[r]))
    /\ UNCHANGED <<storeVars, managerVars, lockVars, registryVars, streamVars,
                   sid, pending, awaiting, final, doomed, gone, leased, cancel>>

-------------------------------------------------------------------------------
(* Cleanup: the claim, the stream task, the lock, the registry.  A release *)
(* that the database refuses is ignored.                                   *)
Release(r) ==
    /\ pc[r] = "release"
    /\ \/ ReleasePreferredSessionClaim(IdentityOf[r], sid[r])
       \/ Backend = "database" /\ UNCHANGED storeVars
    /\ pending' = [pending EXCEPT ![r] = FALSE]
    /\ leased' = leased \ {r}
    /\ Goto(r, CleanupPc(r, FALSE))
    /\ UNCHANGED <<managerVars, lockVars, registryVars, streamVars, sid,
                   awaiting, final, doomed, gone, cancel>>

(* A cancellation delivered while the database releases the claim leaves   *)
(* the finally block: nothing after it runs.                               *)
InterruptRelease(r) ==
    /\ pc[r] = "release" /\ r \in doomed /\ Backend = "database"
    /\ \/ ReleasePreferredSessionClaim(IdentityOf[r], sid[r])
       \/ UNCHANGED storeVars
    /\ doomed' = doomed \ {r}
    /\ leased' = leased \ {r}
    /\ Goto(r, "done")
    /\ UNCHANGED <<managerVars, lockVars, registryVars, streamVars, sid,
                   pending, awaiting, final, gone, cancel>>

(* The code asks whether the lock is locked, not whether it is the holder. *)
UnlocksIfCompleted(r) ==   \* mutant: releases on the good path only
    r \in lockRef /\ locked[sid[r]] /\ final[r] = "completed"
Unlocks(r) == r \in lockRef /\ locked[sid[r]]

(* The registry entries go whoever put them there.                         *)
DeregisterRunning(r) ==    \* mutant: forgets the session entry
    /\ running' = [running EXCEPT ![KeyOf[r]] = None]
    /\ UNCHANGED boundTo
Deregister(r) ==
    /\ running' = [running EXCEPT ![KeyOf[r]] = None]
    /\ boundTo' = [boundTo EXCEPT ![KeyOf[r]] = None]

Unlock(r) ==
    /\ pc[r] = "unlock"
    /\ locked' = IF Unlocks(r) THEN [locked EXCEPT ![sid[r]] = FALSE] ELSE locked
    /\ robbed' = IF Unlocks(r) /\ r \notin held
                 THEN robbed \cup {sid[r]} ELSE robbed
    /\ held' = held \ {r}
    /\ lockRef' = lockRef \ {r}
    /\ consuming' = consuming \ {r}
    /\ signalled' = signalled \ {r}
    /\ Deregister(r)
    /\ doomed' = doomed \ {r}
    /\ Goto(r, "done")
    /\ UNCHANGED <<storeVars, managerVars, sid, pending, awaiting, final, gone,
                   leased, cancel>>

(* Locks live in a weak map: one that only ended executions refer to goes. *)
CollectUnlessQueued(s) ==  \* mutant: a lock nobody waits for goes
    /\ locked[s]
    /\ \A r \in lockRef : sid[r] = s => pc[r] # "queued"
    /\ locked' = [locked EXCEPT ![s] = FALSE]
    /\ held' = {r \in held : sid[r] # s}
    /\ lockRef' = {r \in lockRef : sid[r] # s}
    /\ UNCHANGED <<storeVars, managerVars, robbed, registryVars, streamVars,
                   flowVars, cancel>>
CollectLock(s) ==
    /\ locked[s]
    /\ \A r \in lockRef : sid[r] = s => pc[r] = "done"
    /\ locked' = [locked EXCEPT ![s] = FALSE]
    /\ held' = {r \in held : sid[r] # s}
    /\ lockRef' = {r \in lockRef : sid[r] # s}
    /\ UNCHANGED <<storeVars, managerVars, robbed, registryVars, streamVars,
                   flowVars, cancel>>

-------------------------------------------------------------------------------
(* The client of a stream goes away: the request handler cancels the task  *)
(* that runs the execution and closes its event queue.                     *)
Disconnect(r) ==
    /\ r \in Streaming \ gone /\ Live(r)
    /\ gone' = gone \cup {r}
    /\ doomed' = doomed \cup {r}
    /\ UNCHANGED <<storeVars, managerVars, lockVars, registryVars, streamVars,
                   pc, sid, pending, awaiting, final, leased, cancel>>

(* The conversation a cancel by caller i forgets: what the registry has    *)
(* not recorded defaults to the caller and to the plain context.           *)
Forgotten(k, i) ==
    <<IF running[k] = None THEN i ELSE IdentityOf[running[k]],
      IF boundTo[k] = None THEN KeyContext[k] ELSE ContextOf[boundTo[k]]>>

(* tasks/cancel: the canceled event, then one look at the registry.  The   *)
(* task was not terminal when the call was admitted, some awaits before.   *)
CancelRead(k, i) ==
    /\ cancel[k].phase = "idle"
    /\ \E r \in Executions : KeyOf[r] = k /\ pc[r] # "idle"
    /\ cancel' = [cancel EXCEPT ![k] =
         [phase   |-> "read",
          target  |-> running[k],
          session |-> IF boundTo[k] = None THEN None ELSE sid[boundTo[k]],
          pair    |-> Forgotten(k, i),
          create  |-> None]]
    /\ UNCHANGED <<storeVars, managerVars, lockVars, registryVars, streamVars,
                   flowVars>>

(* The conversation is forgotten; an execution that has ended since is not *)
(* cancelled.                                                              *)
CancelPop(k) ==
    LET call == cancel[k] IN
    /\ call.phase = "read"
    /\ PopCachedSession(call.pair)
    /\ cancel' = [cancel EXCEPT ![k] =
         [phase   |-> "popped",
          target  |-> IF call.target # None /\ Live(call.target)
                      THEN call.target ELSE None,
          session |-> call.session,
          pair    |-> call.pair,
          create  |-> inflight[call.pair]]]
    /\ UNCHANGED <<create, minted, lockVars, registryVars, streamVars,
                   flowVars>>

(* After the abort of the session, answered or timed out: the execution    *)
(* and the create task are cancelled.                                      *)
CancelKill(k) ==
    LET target == cancel[k].target
        task   == cancel[k].create IN
    /\ cancel[k].phase = "popped"
    /\ doomed' = IF target # None /\ Live(target)
                 THEN doomed \cup {target} ELSE doomed
    /\ create' = IF task # None /\ create[task] = "running"
                 THEN [create EXCEPT ![task] = "cancelled"] ELSE create
    /\ cancel' = [cancel EXCEPT ![k] = Answered]
    /\ UNCHANGED <<storeVars, inflight, minted, lockVars, registryVars,
                   streamVars, pc, sid, pending, awaiting, final, gone, leased>>

(* The database refuses the pop: the cancel call ends there.               *)
CancelFails(k) ==
    /\ Backend = "database"
    /\ cancel[k].phase = "read"
    /\ cancel' = [cancel EXCEPT ![k] = Answered]
    /\ UNCHANGED <<storeVars, managerVars, lockVars, registryVars, streamVars,
                   flowVars>>

-------------------------------------------------------------------------------
(* The upstream and the store on their own.                                *)
CreateAnswers(r) ==
    /\ CreateSucceeds(r) \/ CreateFails(r)
    /\ UNCHANGED <<storeVars, lockVars, registryVars, streamVars, flowVars,
                   cancel>>

Expire(s) ==
    /\ ExpireClaim(s)
    /\ leased' = {r \in leased : sid[r] # s}
    /\ UNCHANGED <<managerVars, lockVars, registryVars, streamVars, pc, sid,
                   pending, awaiting, final, doomed, gone, cancel>>

Forget ==
    /\ \/ \E p \in Pairs : ForgetBinding(p)
       \/ \E s \in Sessions : ForgetOwner(s)
    /\ UNCHANGED <<managerVars, lockVars, registryVars, streamVars, flowVars,
                   cancel>>

-------------------------------------------------------------------------------
(* The steps of a request's own coroutine.                                 *)
Bind(r)    == Claim(r) \/ Rebind(r) \/ LookupBound(r) \/ LookupJoin(r)
              \/ LookupStart(r) \/ Created(r) \/ Record(r) \/ GetSessionLock(r)
Turn(r)    == Send(r) \/ Finalize(r) \/ FinalBind(r) \/ ContinueWithTools(r)
              \/ AwaitTerminal(r) \/ Complete(r) \/ Operate(r) \/ Adopt(r)
Unwind(r)  == Fail(r) \/ Interrupt(r) \/ ShareCancellation(r)
              \/ Release(r) \/ InterruptRelease(r) \/ Unlock(r)
Stream(r)  == StreamSignals(r) \/ StreamEnds(r)
Advance(r) == Reject(r) \/ Start(r) \/ Bind(r) \/ Acquire(r) \/ Turn(r)
              \/ Unwind(r)
CancelTask(k) == (\E i \in Identities : CancelRead(k, i))
                 \/ CancelPop(k) \/ CancelKill(k) \/ CancelFails(k)

Next ==
    \/ \E r \in Requests : \/ Advance(r) \/ Stream(r)
                           \/ Disconnect(r) \/ CreateAnswers(r)
    \/ \E k \in Keys : CancelTask(k)
    \/ \E s \in Sessions : Expire(s) \/ CollectLock(s)
    \/ Forget

Spec == Init /\ [][Next]_vars

-------------------------------------------------------------------------------
(* Safety.                                                                 *)

(* An identity may drive a session it owns; a session whose owner row was  *)
(* lost is beyond what the service can promise.                            *)
Entitled(i, s) == owner[s] = i \/ s \in orphaned

(* An execution that drives its session with its claim, if any, settled.   *)
Settled(r) == KindOf[r] = "send" /\ pc[r] \in Driving /\ ~pending[r]

(* Every conversation is bound to a session its identity owns: binding and *)
(* owner are written in separate critical sections, and the lookup of      *)
(* get_or_create_session trusts the binding without asking for the owner.  *)
BindingsAreOwned ==
    \A p \in Pairs : binding[p] # None => Entitled(p[1], binding[p])

(* An execution past its claim generates on behalf of the session's owner, *)
(* whatever claims, finalisations and expiries came between its reads.     *)
OnlyOwnersDrive ==
    \A r \in Requests : Settled(r) => Entitled(IdentityOf[r], sid[r])

(* A session never passes from one identity to another: the only change of *)
(* an owner is to be set, or (memory repository) to be forgotten.          *)
OwnersStay ==
    [][\A s \in Sessions :
          owner[s] # None => \/ owner'[s] = owner[s]
                             \/ Backend = "memory" /\ owner'[s] = None]_owner

(* Two executions generate on one session at once only if a request that   *)
(* was not the holder released its lock.                                   *)
MutexUnlessRobbed ==
    \A q, r \in Executions :
        /\ q # r /\ sid[q] = sid[r]
        /\ pc[q] \in Driving /\ pc[r] \in Driving
        => sid[r] \in robbed

(* A locked session lock has a holder that has not ended: nobody waits for *)
(* a lock that no one will release.                                        *)
LocksHaveHolders ==
    \A s \in Sessions :
        locked[s] => \E r \in held : sid[r] = s /\ Live(r)

(* A create task that runs outside the in-flight map is one that a cancel  *)
(* took out and is about to cancel, so no two requests of a conversation   *)
(* that is not being cancelled create two sessions.                        *)
StrayCreatesAreDoomed ==
    \A r \in Executions :
        create[r] = "running" /\ inflight[PairOf(r)] # r =>
            \E k \in Keys : cancel[k].phase = "popped" /\ cancel[k].create = r

(* An execution that ended leaves nothing behind: no lock, no stream task, *)
(* no registry entry that a later cancel would follow.                     *)
EndedLeavesNothing ==
    \A r \in Executions :
        pc[r] = "done" =>
            /\ r \notin held \cup consuming
            /\ \A k \in Keys : r \notin {running[k], boundTo[k]}

(* A pending claim blocks other identities only while a request that made  *)
(* it is still being served.                                               *)
ClaimsHaveClaimants ==
    \A s \in Sessions :
        claim[s] # None =>
            \E r \in Requests : /\ Live(r) /\ pending[r]
                                /\ sid[r] = s /\ IdentityOf[r] = claim[s]

(* The settled executions are the users of their sessions: seen so, the    *)
(* service implements the custody of sessions, step by step.               *)
Using == [r \in Requests |-> IF Settled(r) THEN sid[r] ELSE None]

Custody == INSTANCE SessionCustody WITH
    Users <- Requests, Volatile <- Backend = "memory", lost <- orphaned,
    using <- Using

SessionsAreInCustody == Custody!CustodySpec

-------------------------------------------------------------------------------
(* Liveness.  Every coroutine step whose await is answered is taken; the   *)
(* session lock is granted first come first served, so a waiter gets it    *)
(* if it becomes free again and again.  The upstream is assumed to answer  *)
(* every call, if only with a timeout, to signal the end of a turn or      *)
(* close its stream, and to stop asking for tools at some point.           *)
Fairness ==
    \A r \in Requests :
        /\ WF_vars(Bind(r) \/ Turn(r) \/ Unwind(r))
        /\ SF_vars(Acquire(r))
        /\ WF_vars(CreateAnswers(r))
        /\ WF_vars(Stream(r))
        /\ SF_vars(AwaitTerminal(r) \/ Complete(r))

FairSpec == Spec /\ Fairness

(* Every request that is admitted ends: no lost wakeup on the lock, no     *)
(* request that waits for a create task nobody runs.                       *)
EveryRequestEnds ==
    \A r \in Requests : pc[r] # "idle" ~> pc[r] = "done"

-------------------------------------------------------------------------------
(* What the repository says and the code does not do.                      *)

(* The executions on one session take turns.                               *)
MutualExclusion ==
    \A q, r \in Executions :
        q # r /\ pc[q] \in Driving /\ pc[r] \in Driving => sid[q] # sid[r]

(* A first message never joins a create task that is already cancelled: it *)
(* would end without a session and without a terminal event.               *)
FirstMessagesGetSessions ==
    [][\A r \in Executions :
          pc[r] = "lookup" /\ pc'[r] = "creating"
          => create'[awaiting'[r]] # "cancelled"]_vars

(* While the lease of a request's claim runs, no other identity claims or  *)
(* owns the session.                                                       *)
LeaseProtects ==
    \A r \in leased : MayHold(IdentityOf[r], sid[r])

(* A cancel of a task with an execution that generates finds an execution  *)
(* to abort and to cancel, as long as nothing ended the task before.       *)
CancelFindsGeneration ==
    [][\A k \in Keys, r \in Executions :
          /\ cancel[k].phase = "idle" /\ cancel'[k].phase = "read"
          /\ KeyOf[r] = k /\ pc[r] \in Driving
          /\ \A q \in Executions : KeyOf[q] = k => final[q] = "none"
          => cancel'[k].target # None /\ cancel'[k].session # None]_vars

(* An execution that ended left its task in a terminal state, its own or a *)
(* cancel's: who subscribes to a non-terminal task gets an answer.         *)
EndedTasksAreTerminal ==
    \A r \in Executions :
        pc[r] = "done" => final[r] # "none" \/ cancel[KeyOf[r]].phase # "idle"
===============================================================================
