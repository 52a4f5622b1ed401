----------------------------- MODULE Interrupts -----------------------------
(***************************************************************************)
(* The way of an interrupt through the service: the upstream asks, the     *)
(* stream consumer of the running request puts the question into the       *)
(* registry and tells the client (execution/stream_runtime.py), the client *)
(* replies through a callback that reads the registry, calls the upstream  *)
(* and forgets the question (jsonrpc/handlers/interrupt_callbacks.py), and *)
(* the upstream's own "replied" event makes the consumer forget it again.  *)
(* The three run concurrently and meet only in the registry.               *)
(*                                                                         *)
(* One session is modelled: its lock lets one consumer run at a time, and  *)
(* the consumers of later requests follow earlier ones through             *)
(* StreamEnds and StreamStarts.                                            *)
(***************************************************************************)
EXTENDS InterruptStore, FiniteSets, Sequences

CONSTANTS
    Callers,        \* concurrent callbacks
    TypeOf,         \* what the upstream asks under an id
    AskerOf,        \* the identity whose request caused the question
    Copies,         \* how many copies of an event may arrive: {1} or {1, 2}
    MaxTime         \* bound on the clock

ASSUME AskAssumption ==
    /\ TypeOf \in [Ids -> Types]
    /\ AskerOf \in [Ids -> Identities \cup {None}]
ASSUME CopiesAssumption == Copies \subseteq {1, 2}
ASSUME NoneIsNoStatus == None \notin [id : Ids, state : {"asked", "resolved"}]

VARIABLES
    upstream,       \* what the upstream holds of an id: external
    stream,         \* the event subscription of the running request
    events,         \* events on their way to the consumer
    pending,        \* pending_interrupt_request_ids of the stream state
    emitting,       \* the status event the consumer is about to enqueue
    status,         \* the last interrupt status the client was sent
    calls,          \* the callbacks
    acked           \* history: ids whose reply was answered "ok"
streamVars == <<stream, events, pending, emitting, status>>
vars == <<now, storeVars, upstream, streamVars, calls, acked>>

Event == [kind : {"asked", "replied"}, id : Ids]
Answers == {"none", "ok", "missing", "expired", "mismatch", "invalid", "error"}
Calls ==
    [phase : {"idle"}, id : {None}, type : {None}, identity : {None},
     answer : Answers]
    \cup
    [phase : {"replying", "discarding"}, id : Ids, type : Types,
     identity : Identities \cup {None}, answer : Answers]
Idle == [phase |-> "idle", id |-> None, type |-> None, identity |-> None,
         answer |-> "none"]

TypeOK ==
    /\ StoreTypeOK
    /\ upstream \in [Ids -> {"none", "open", "closed"}]
    /\ stream \in {"connected", "retrying", "ended"}
    /\ events \in Seq(Event)
    /\ pending \subseteq Ids
    /\ emitting \in [id : Ids, state : {"asked", "resolved"}] \cup {None}
    /\ status \in [Ids -> {"none", "asked", "resolved"}]
    /\ calls \in [Callers -> Calls]
    /\ acked \subseteq Ids

Init ==
    /\ StoreInit
    /\ upstream = [i \in Ids |-> "none"]
    /\ stream = "ended"
    /\ events = <<>>
    /\ pending = {}
    /\ emitting = None
    /\ status = [i \in Ids |-> "none"]
    /\ calls = [c \in Callers |-> Idle]
    /\ acked = {}

-----------------------------------------------------------------------------
(* The upstream service *)

(* An event reaches a connected subscriber, possibly twice, and nobody     *)
(* else: the subscription replays nothing.                                 *)
Publish(kind, i) ==
    LET e == [kind |-> kind, id |-> i]
    IN  \E n \in Copies :
            events' = IF stream = "connected"
                        THEN events \o [k \in 1..n |-> e]
                        ELSE events

(* The upstream asks, under an id it never used before. *)
Ask(i) ==
    /\ upstream[i] = "none"
    /\ upstream' = [upstream EXCEPT ![i] = "open"]
    /\ Publish("asked", i)
    /\ UNCHANGED <<now, storeVars, stream, pending, emitting, status, calls, acked>>

(* The question is settled past this service, in the upstream's own UI. *)
SettleElsewhere(i) ==
    /\ upstream[i] = "open"
    /\ upstream' = [upstream EXCEPT ![i] = "closed"]
    /\ Publish("replied", i)
    /\ UNCHANGED <<now, storeVars, stream, pending, emitting, status, calls, acked>>

-----------------------------------------------------------------------------
(* The stream consumer *)

StreamStarts ==
    /\ stream = "ended"
    /\ stream' = "connected"
    /\ UNCHANGED <<now, storeVars, upstream, events, pending, emitting, status,
                   calls, acked>>

CanRead(kind) ==
    /\ stream = "connected" /\ emitting = None
    /\ events # <<>> /\ Head(events).kind = kind

(* An asked event marks the id; only the first one goes on to the registry *)
(* and to the client.                                                      *)
MarkNothing(i) == UNCHANGED pending  \* mutant: a repeated event is not recognised
MarkPending(i) == pending' = pending \cup {i}
ClearPending(i) == pending' = pending \ {i}

StreamAsked ==
    LET i == Head(events).id
    IN  /\ CanRead("asked")
        /\ events' = Tail(events)
        /\ MarkPending(i)
        /\ IF i \in pending
             THEN UNCHANGED <<storeVars, emitting>>
             ELSE /\ Remember(i, TypeOf[i], AskerOf[i])
                  /\ emitting' = [id |-> i, state |-> "asked"]
        /\ UNCHANGED <<now, upstream, stream, status, calls, acked>>

(* A replied event always discards; it is told to the client only if the   *)
(* id was pending here.                                                    *)
StreamRepliedTells ==             \* mutant: told to the client in any case
    LET i == Head(events).id
    IN  /\ CanRead("replied")
        /\ events' = Tail(events)
        /\ ClearPending(i)
        /\ Discard(i)
        /\ emitting' = [id |-> i, state |-> "resolved"]
        /\ UNCHANGED <<now, upstream, stream, status, calls, acked>>
StreamReplied ==
    LET i == Head(events).id
    IN  /\ CanRead("replied")
        /\ events' = Tail(events)
        /\ ClearPending(i)
        /\ Discard(i)
        /\ emitting' = IF i \in pending THEN [id |-> i, state |-> "resolved"]
                                        ELSE None
        /\ UNCHANGED <<now, upstream, stream, status, calls, acked>>

StreamEmits ==
    /\ emitting # None
    /\ status' = [status EXCEPT ![emitting.id] = emitting.state]
    /\ emitting' = None
    /\ UNCHANGED <<now, storeVars, upstream, stream, events, pending, calls, acked>>

(* The database refuses the write, or its answer is lost after the commit: *)
(* the exception leaves the event loop for the retry, past the emission.   *)
StreamWriteFails ==
    LET i == Head(events).id
    IN  /\ Backend = "database"
        /\ \/ CanRead("asked") /\ i \notin pending /\ MarkPending(i)
              /\ (UNCHANGED storeVars \/ Remember(i, TypeOf[i], AskerOf[i]))
           \/ CanRead("replied") /\ ClearPending(i)
              /\ (UNCHANGED storeVars \/ Discard(i))
        /\ stream' = "retrying"
        /\ events' = <<>>
        /\ UNCHANGED <<now, upstream, emitting, status, calls, acked>>

(* The connection breaks; what was under way is lost, the marks stay. *)
StreamBreaks ==
    /\ stream = "connected" /\ emitting = None
    /\ stream' = "retrying"
    /\ events' = <<>>
    /\ UNCHANGED <<now, storeVars, upstream, pending, emitting, status, calls, acked>>

StreamReconnects ==
    /\ stream = "retrying"
    /\ stream' = "connected"
    /\ UNCHANGED <<now, storeVars, upstream, events, pending, emitting, status,
                   calls, acked>>

(* The upstream closes the stream, or the request stops and cancels it,    *)
(* wherever it is: a status event not yet enqueued is never sent.          *)
StreamEnds ==
    /\ stream # "ended"
    /\ stream' = "ended"
    /\ events' = <<>>
    /\ pending' = {}
    /\ emitting' = None
    /\ UNCHANGED <<now, storeVars, upstream, status, calls, acked>>

-----------------------------------------------------------------------------
(* The callbacks *)

(* A caller or a binding without an identity is not compared. *)
Differs(a, b) == a # None /\ b # None /\ a # b

(* The reply is refused before the upstream hears of it; otherwise the     *)
(* handler goes on to "replying".  Bindings carry no credential (the       *)
(* consumer passes none), so the credential check never fires.             *)
VerdictForAnyone(i, type, identity, wellFormed) ==   \* mutant: no identity check
    IF Answer(i) # "active"                       THEN Answer(i)
    ELSE IF requests[i].interrupt_type # type     THEN "mismatch"
    ELSE IF ~wellFormed                           THEN "invalid"
    ELSE "none"
Verdict(i, type, identity, wellFormed) ==
    LET binding == requests[i]
    IN  IF Answer(i) # "active"                     THEN Answer(i)
        ELSE IF binding.interrupt_type # type       THEN "mismatch"
        ELSE IF Differs(binding.identity, identity) THEN "missing"
        ELSE IF ~wellFormed                         THEN "invalid"
        ELSE "none"

(* The handler answers; its slot is free for the next callback. *)
Finish(c, answer) ==
    calls' = [calls EXCEPT ![c] = [Idle EXCEPT !.answer = answer]]

CallResolves(c, i, type, identity) ==
    /\ calls[c].phase = "idle"
    /\ Resolve(i)
    /\ \E wellFormed \in BOOLEAN :
        LET verdict == Verdict(i, type, identity, wellFormed)
        IN  IF verdict # "none"
              THEN Finish(c, verdict)
              ELSE calls' = [calls EXCEPT ![c] =
                    [phase |-> "replying", id |-> i, type |-> type,
                     identity |-> identity, answer |-> "none"]]
    /\ UNCHANGED <<now, upstream, streamVars, acked>>

(* The upstream takes the reply. *)
CallReplies(c) ==
    LET i == calls[c].id
    IN  /\ calls[c].phase = "replying"
        /\ upstream[i] = "open"
        /\ upstream' = [upstream EXCEPT ![i] = "closed"]
        /\ Publish("replied", i)
        /\ calls' = [calls EXCEPT ![c].phase = "discarding", ![c].answer = "ok"]
        /\ UNCHANGED <<now, storeVars, stream, pending, emitting, status, acked>>

(* The upstream does not know the id any more: HTTP 404. *)
CallNotFound(c) ==
    /\ calls[c].phase = "replying"
    /\ upstream[calls[c].id] = "closed"
    /\ calls' = [calls EXCEPT ![c].phase = "discarding", ![c].answer = "missing"]
    /\ UNCHANGED <<now, storeVars, upstream, streamVars, acked>>

(* The reply fails otherwise: the budget is exhausted, the upstream is     *)
(* unreachable or answers another status.  It may have taken the reply     *)
(* before its answer got lost.  The binding is kept.                       *)
CallFailsForGood(c) ==            \* mutant: discards on every failure
    /\ calls[c].phase = "replying"
    /\ Discard(calls[c].id)
    /\ Finish(c, "error")
    /\ UNCHANGED <<now, upstream, streamVars, acked>>
CallFails(c) ==
    LET i == calls[c].id
    IN  /\ calls[c].phase = "replying"
        /\ \/ UNCHANGED <<upstream, events>>
           \/ /\ upstream[i] = "open"
              /\ upstream' = [upstream EXCEPT ![i] = "closed"]
              /\ Publish("replied", i)
        /\ Finish(c, "error")
        /\ UNCHANGED <<now, storeVars, stream, pending, emitting, status, acked>>

CallDiscards(c) ==
    /\ calls[c].phase = "discarding"
    /\ Discard(calls[c].id)
    /\ Finish(c, calls[c].answer)
    /\ acked' = IF calls[c].answer = "ok" THEN acked \cup {calls[c].id} ELSE acked
    /\ UNCHANGED <<now, upstream, streamVars>>

(* The database fails under the discard, before or after its commit.  (A    *)
(* lookup that fails changes nothing.)                                     *)
CallDatabaseFails(c) ==
    /\ Backend = "database"
    /\ calls[c].phase = "discarding"
    /\ UNCHANGED storeVars \/ Discard(calls[c].id)
    /\ Finish(c, "error")
    /\ UNCHANGED <<now, upstream, streamVars, acked>>

(* permissions.list and questions.list, with a caller's identity. *)
ListInterrupts ==
    /\ ListPending
    /\ UNCHANGED <<now, upstream, streamVars, calls, acked>>

-----------------------------------------------------------------------------
(* The process and the clock *)

Restart ==
    /\ Reload
    /\ stream' = "ended"
    /\ events' = <<>>
    /\ pending' = {}
    /\ emitting' = None
    /\ status' = IF Backend = "database" THEN status
                                         ELSE [i \in Ids |-> "none"]
    /\ calls' = [c \in Callers |-> Idle]
    /\ UNCHANGED <<now, upstream, acked>>

Tick ==
    /\ now < MaxTime
    /\ now' = now + 1
    /\ UNCHANGED <<storeVars, upstream, streamVars, calls, acked>>

Next ==
    \/ \E i \in Ids : Ask(i) \/ SettleElsewhere(i)
    \/ StreamStarts \/ StreamAsked \/ StreamReplied \/ StreamEmits
    \/ StreamWriteFails \/ StreamBreaks \/ StreamReconnects \/ StreamEnds
    \/ \E c \in Callers, i \in Ids, type \in Types,
          identity \in Identities \cup {None} : CallResolves(c, i, type, identity)
    \/ \E c \in Callers : CallReplies(c) \/ CallNotFound(c) \/ CallFails(c)
                          \/ CallDiscards(c) \/ CallDatabaseFails(c)
    \/ ListInterrupts
    \/ Restart
    \/ Tick

Spec == Init /\ [][Next]_vars

(***************************************************************************)
(* A reply that was answered "ok" is the end of its question: no event     *)
(* that arrives late or twice, no later consumer and no restart brings the *)
(* id back, so a second reply hears "missing".                             *)
(***************************************************************************)
AnsweredStayForgotten == \A i \in acked : Answer(i) = "missing"

(***************************************************************************)
(* The client is told of a question only when it can be answered, and as   *)
(* long as the upstream waits for the answer the registry keeps it: to the *)
(* end of its TTL a callback would be let through, whatever callbacks were *)
(* refused, failed or timed out meanwhile.                                 *)
(***************************************************************************)
AnnouncedAreAnswerable ==
    \A i \in Ids : status[i] = "asked" /\ upstream[i] = "open" =>
        /\ due[i] # None
        /\ now < due[i] => Answer(i) = "active"

(***************************************************************************)
(* What a callback is about to relay, or has relayed, is of the type that  *)
(* the upstream asked for, and from the identity whose request was asked   *)
(* if both are known: also when the registry changed since it was looked   *)
(* up (docs/guide.md:1171).                                                *)
(***************************************************************************)
CallbacksMatchTheAsk ==
    \A c \in Callers : calls[c].phase \in {"replying", "discarding"} =>
        /\ calls[c].type = TypeOf[calls[c].id]
        /\ ~Differs(AskerOf[calls[c].id], calls[c].identity)

(***************************************************************************)
(* The client hears "resolved" only of a question it was asked, and once:  *)
(* duplicated events, and events of questions another consumer announced,  *)
(* are suppressed (docs/guide.md:231).                                     *)
(***************************************************************************)
ResolvedFollowsAsked ==
    [][\A i \in Ids : emitting # None /\ emitting' = None /\ emitting.id = i
                      /\ status'[i] = "resolved"
                        => status[i] = "asked"]_vars

-----------------------------------------------------------------------------
(* What the proofs add to these properties to make them inductive.         *)

(* A binding says what was asked, and by whose request. *)
BindingsMatchTheAsk ==
    \A i \in Ids : requests[i] # None =>
        /\ requests[i].interrupt_type = TypeOf[i]
        /\ requests[i].identity = AskerOf[i]

(* Whoever is about to discard an id knows that the upstream is done with  *)
(* it: the consumer from the event, a callback from the upstream's answer. *)
DiscardsComeAfter ==
    /\ \A k \in 1..Len(events) :
          events[k].kind = "replied" => upstream[events[k].id] = "closed"
    /\ \A c \in Callers :
          calls[c].phase = "discarding" => upstream[calls[c].id] = "closed"

(* The registry keeps what the client was told of, or is about to be. *)
ToldAreKept ==
    \A i \in Ids :
        /\ upstream[i] # "closed"
        /\ status[i] = "asked" \/ emitting = [id |-> i, state |-> "asked"]
        => due[i] # None

(* Nothing is known of an id here: not in the registry, not to a callback. *)
Unheard(i) ==
    /\ due[i] = None /\ i \notin acked
    /\ \A c \in Callers : calls[c].id # i

(* An "asked" event that the consumer would act on is the first the service *)
(* hears of its id, and none comes behind the "replied" event of its id, so *)
(* that nothing brings an answered question back.                          *)
AsksComeFirst ==
    /\ \A i \in Ids : upstream[i] = "none" => Unheard(i)
    /\ \A k \in 1..Len(events) :
          events[k].kind = "asked" =>
             /\ upstream[events[k].id] # "none"
             /\ events[k].id \in pending \/ Unheard(events[k].id)
    /\ \A j, k \in 1..Len(events) :
          j < k /\ events[j].kind = "replied" /\ events[k].kind = "asked"
             => events[j].id # events[k].id
    /\ \A i \in acked : due[i] = None

(* The client was told, or is being told, of what the consumer marked; what *)
(* it is about to be told is resolved was announced and is marked no more. *)
MarksAreAnnounced ==
    /\ \A i \in pending :
          status[i] = "asked" \/ emitting = [id |-> i, state |-> "asked"]
    /\ emitting # None /\ emitting.state = "resolved" =>
          status[emitting.id] = "asked" /\ emitting.id \notin pending

(* A question whose end the client was told, or is being told, is closed   *)
(* and nothing asks it again.                                              *)
ResolvedAreOver ==
    \A i \in Ids :
        /\ status[i] = "resolved" \/ emitting = [id |-> i, state |-> "resolved"]
           => /\ upstream[i] = "closed"
              /\ \A k \in 1..Len(events) : events[k].kind = "asked" => events[k].id # i
        /\ emitting = [id |-> i, state |-> "asked"] => status[i] # "resolved"
=============================================================================
