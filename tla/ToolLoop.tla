------------------------------- MODULE ToolLoop -------------------------------
(***************************************************************************)
(* What executions take from two pools: permits of the upstream client     *)
(* (_FastFailConcurrencyBudget), one kind for requests and one for event   *)
(* streams, and clients of remote agents, which the tool loop borrows when *)
(* a response calls a2a_call.  A streaming execution reads the event       *)
(* stream beside its turns and waits for session.idle at the end.          *)
(*                                                                         *)
(* The lock of a budget is never awaited in, so that taking and giving     *)
(* back a permit are single steps.                                         *)
(***************************************************************************)
EXTENDS PeerClients
CONSTANTS Limit,       \* "request", "stream" -> limit, 0 for no limit
          Streamers,   \* executions (Callers) that stream
          MaxTurns,    \* bound: requests of one execution
          MaxBreaks    \* bound: times event streams break

Kinds == {"request", "stream"}
ASSUME LimitAssumption == Limit \in [Kinds -> Nat] /\ MaxTurns \in Nat \ {0}

VARIABLES pc,        \* "send", "sending", "tools", "await", "cleanup" or "done"
          turns,     \* requests sent
          link,      \* the stream: "off", "try", "open", "dropped" or "ended"
          inflight,  \* kind -> permits taken
          idle,      \* execution -> session.idle of its turn: "due" or "published"
          signalled, \* executions whose consumer has seen session.idle
          stopped,   \* executions whose stop_event is set
          refused,   \* history: streams that were refused a permit
          breaks

loopOnlyVars == <<pc, turns, link, inflight, idle, signalled, stopped, refused, breaks>>
loopVars == <<peerVars, loopOnlyVars>>

LoopInit ==
    /\ PeerInit
    /\ pc = [e \in Callers |-> "send"] /\ turns = [e \in Callers |-> 0]
    /\ link = [e \in Callers |-> IF e \in Streamers THEN "try" ELSE "off"]
    /\ inflight = [k \in Kinds |-> 0]
    /\ idle = [e \in Callers |-> "due"]
    /\ signalled = {} /\ stopped = {} /\ refused = {} /\ breaks = 0

-------------------------------------------------------------------------------
Free(kind) == Limit[kind] = 0 \/ inflight[kind] < Limit[kind]
Taken(budget, kind) == IF Limit[kind] = 0 THEN budget ELSE [budget EXCEPT ![kind] = @ + 1]

(* mutant: a permit is not given back *)
Kept(budget, kind) == budget

GivenBack(budget, kind) ==
    IF Limit[kind] = 0 \/ budget[kind] = 0 THEN budget ELSE [budget EXCEPT ![kind] = @ - 1]

Goto(e, where) == pc' = [pc EXCEPT ![e] = where]
Moves(e, state) == link' = [link EXCEPT ![e] = state]

(* A request that finds no permit fails at once.                           *)
Send(e) ==
    /\ pc[e] = "send"
    /\ \/ /\ Free("request")
          /\ inflight' = Taken(inflight, "request")
          /\ turns' = [turns EXCEPT ![e] = @ + 1]
          /\ idle' = [idle EXCEPT ![e] = "due"]
          /\ Goto(e, "sending")
       \/ /\ ~Free("request")
          /\ Goto(e, "cleanup") /\ UNCHANGED <<inflight, turns, idle>>
    /\ UNCHANGED <<peerVars, link, signalled, stopped, refused, breaks>>

(* The response calls the tool, ends the loop, or is an error.             *)
SendReturns(e) ==
    /\ pc[e] = "sending"
    /\ inflight' = GivenBack(inflight, "request")
    /\ \/ turns[e] < MaxTurns /\ Goto(e, "tools")
       \/ Goto(e, IF e \in Streamers THEN "await" ELSE "cleanup")
       \/ Goto(e, "cleanup")
    /\ UNCHANGED <<peerVars, turns, link, idle, signalled, stopped, refused, breaks>>

(* A call of the tool: whatever comes of it is sent as its result.         *)
CallTool(e) ==
    /\ pc[e] = "tools" /\ \E u \in Urls : Borrow(e, u)
    /\ UNCHANGED loopOnlyVars

UseClient(e) == /\ CloseNext(e) \/ Enter(e) \/ Return(e)
                /\ UNCHANGED loopOnlyVars

ToolReturns(e) ==
    /\ Leave(e)
    /\ Goto(e, IF pc[e] = "tools" THEN "send" ELSE pc[e])
    /\ UNCHANGED <<turns, link, inflight, idle, signalled, stopped, refused, breaks>>

(* A call without a URL, or one that ends in an error: also that is a      *)
(* result.  An error on the way out takes the place of a cancellation.     *)
ToolFails(e) ==
    /\ Goto(e, "send")
    /\ \/ pc[e] = "tools" /\ at[e] = "idle" /\ UNCHANGED peerVars
       \/ pc[e] = "tools" /\ CloseFails(e)
       \/ pc[e] = "cleanup" /\ turns[e] < MaxTurns /\ CloseFails(e)
    /\ UNCHANGED <<turns, link, inflight, idle, signalled, stopped, refused, breaks>>

-------------------------------------------------------------------------------
OpenStream(e) ==
    /\ link[e] = "try" /\ e \notin stopped /\ Free("stream")
    /\ inflight' = Taken(inflight, "stream")
    /\ Moves(e, "open")
    /\ UNCHANGED <<peerVars, pc, turns, idle, signalled, stopped, refused, breaks>>

(* A stream that finds no permit is tried again later, like one that broke. *)
StreamRefused(e) ==
    /\ link[e] = "try" /\ e \notin stopped /\ ~Free("stream")
    /\ refused' = refused \cup {e}
    /\ UNCHANGED <<peerVars, pc, turns, link, inflight, idle, signalled, stopped, breaks>>

StreamBreaks(e) ==
    /\ link[e] = "open" /\ breaks < MaxBreaks
    /\ breaks' = breaks + 1
    /\ inflight' = GivenBack(inflight, "stream")
    /\ Moves(e, "try")
    /\ UNCHANGED <<peerVars, pc, turns, idle, signalled, stopped, refused>>

(* session.idle, once a turn: seen by a consumer that reads, else lost.    *)
Idles(e) ==
    /\ pc[e] \in {"sending", "tools", "await"} /\ turns[e] > 0 /\ idle[e] = "due"
    /\ idle' = [idle EXCEPT ![e] = "published"]
    /\ \/ /\ link[e] = "open" /\ e \notin stopped
          /\ signalled' = signalled \cup {e} /\ stopped' = stopped \cup {e}
       \/ /\ link[e] # "open" \/ e \in stopped
          /\ UNCHANGED <<signalled, stopped>>
    /\ UNCHANGED <<peerVars, pc, turns, link, inflight, refused, breaks>>

(* The consumer ends when it was told to stop, between two lines or in the *)
(* middle of an event: its generator is then dropped, and keeps the permit *)
(* until it is finalized.                                                  *)
StreamEnds(e) ==
    /\ link[e] \in {"try", "open"} /\ e \in stopped
    /\ \/ link[e] = "try" /\ Moves(e, "ended") /\ UNCHANGED inflight
       \/ link[e] = "open" /\ Moves(e, "ended") /\ inflight' = GivenBack(inflight, "stream")
       \/ link[e] = "open" /\ Moves(e, "dropped") /\ UNCHANGED inflight
    /\ UNCHANGED <<peerVars, pc, turns, idle, signalled, stopped, refused, breaks>>

Finalize(e) ==
    /\ link[e] = "dropped"
    /\ Moves(e, "ended")
    /\ inflight' = GivenBack(inflight, "stream")
    /\ UNCHANGED <<peerVars, pc, turns, idle, signalled, stopped, refused, breaks>>

(* The terminal signal is there, or the consumer has ended without it.     *)
Completes(e) ==
    /\ pc[e] = "await" /\ (e \in signalled \/ link[e] \in {"ended", "dropped"})
    /\ Goto(e, "cleanup")
    /\ UNCHANGED <<peerVars, turns, link, inflight, idle, signalled, stopped, refused, breaks>>

(* tasks/cancel: what the execution waits for is abandoned.  A client in   *)
(* use is returned on the way out, one that is being entered is not.       *)
Cancel(e) ==
    /\ pc[e] \notin {"cleanup", "done"} /\ e \notin stopped
    /\ Goto(e, "cleanup") /\ stopped' = stopped \cup {e}
    /\ inflight' = IF pc[e] = "sending" THEN GivenBack(inflight, "request") ELSE inflight
    /\ \/ at[e] = "idle" /\ UNCHANGED peerVars
       \/ at[e] = "using" /\ Return(e)
       \/ CloseFails(e)
    /\ UNCHANGED <<turns, link, idle, signalled, refused, breaks>>

(* Cleanup stops the consumer and waits until it has ended.                *)
Cleanup(e) ==
    /\ pc[e] = "cleanup" /\ at[e] = "idle"
    /\ stopped' = stopped \cup {e}
    /\ \/ link[e] \in {"try", "open"} /\ UNCHANGED pc
       \/ link[e] \notin {"try", "open"} /\ Goto(e, "done")
    /\ UNCHANGED <<peerVars, turns, link, inflight, idle, signalled, refused, breaks>>

Runs(e) == \/ Send(e) \/ SendReturns(e) \/ CallTool(e) \/ ToolFails(e) \/ ToolReturns(e)
           \/ UseClient(e) \/ Completes(e) \/ Cleanup(e)
Streams(e) == OpenStream(e) \/ StreamEnds(e) \/ Finalize(e)
LoopNext == \/ \E e \in Callers : \/ Runs(e) \/ Streams(e) \/ StreamRefused(e)
                                  \/ StreamBreaks(e) \/ Idles(e) \/ Cancel(e)
            \/ (CloseAll \/ TimePasses) /\ UNCHANGED loopOnlyVars

LoopFairness == \A e \in Callers : /\ WF_loopVars(Runs(e)) /\ WF_loopVars(OpenStream(e))
                                   /\ WF_loopVars(StreamEnds(e)) /\ WF_loopVars(Finalize(e))
                                   /\ WF_loopVars(Idles(e))
LoopSpec == LoopInit /\ [][LoopNext]_loopVars /\ LoopFairness

-------------------------------------------------------------------------------
LoopTypeOK ==
    /\ PeerTypeOK
    /\ pc \in [Callers -> {"send", "sending", "tools", "await", "cleanup", "done"}]
    /\ link \in [Callers -> {"off", "try", "open", "dropped", "ended"}]
    /\ turns \in [Callers -> 0..MaxTurns]
    /\ inflight \in [Kinds -> Nat]

(* A budget counts the permits in use and no other, on every way a request *)
(* or a stream can end, so that its limit holds and does not shrink.       *)
PermitsAreUsed ==
    /\ Limit["request"] # 0 =>
          inflight["request"] = Cardinality({e \in Callers : pc[e] = "sending"})
    /\ Limit["stream"] # 0 =>
          inflight["stream"] = Cardinality({e \in Callers : link[e] \in {"open", "dropped"}})
    /\ \A k \in Kinds : inflight[k] <= Limit[k]

(* Types, and budgets that count what is in use.                           *)
LoopInv == LoopTypeOK /\ PermitsAreUsed

(* As documented, the budget of streams fails fast: an execution whose     *)
(* stream is refused ends.                                                 *)
RefusedStreamsEnd == \A e \in Callers : e \in refused ~> pc[e] = "done"
===============================================================================
