----------------------------- MODULE TaskService -----------------------------
(***************************************************************************)
(* The request handler around one task: the message request that runs it   *)
(* (message/send or message/stream) and consumes its events, and the       *)
(* cancel, subscribe and get requests that come meanwhile.  Saves go to    *)
(* the task store as to a register whose first terminal state wins         *)
(* (TaskRegister, which TaskStore implements), and may fail.               *)
(*                                                                         *)
(* External, as the handler uses them: the agent execution, which enqueues *)
(* events until a final one or until it is cancelled (its own steps are    *)
(* the module Execution), the event queue, whose taps get what is enqueued *)
(* after them, and the SDK's own handlers behind super().                  *)
(***************************************************************************)
EXTENDS TaskRegister, Integers, Sequences
CONSTANTS Task,        \* the task; other tasks share nothing with it
          Body,        \* its content, which no property here looks at
          Runner,      \* the message request
          Cancels, Subscribers,      \* the other requests
          MaxEvents,   \* bound: events the execution enqueues
          MaxFaults    \* bound: task store operations that fail

ASSUME TaskAssumption == Task \in Tasks /\ Body \in Bodies
ASSUME RequestsAssumption ==
    /\ Cancels \cap Subscribers = {} /\ Runner \notin Cancels \cup Subscribers
ASSUME BoundsAssumption == MaxEvents \in Nat \ {0} /\ MaxFaults \in Nat

Requests == {Runner} \cup Cancels \cup Subscribers
Observers == Cancels \cup Subscribers
Final == TerminalStates

VARIABLES mode,        \* what Runner is: "stream", "send", or "send" that
                       \* does not block
          producer,    \* the execution: "running", "cancelled", "ended" on its
                       \* own, or "stopped" by its cancellation
          emitted,     \* events it enqueued
          queue,       \* request -> events enqueued and not yet consumed
          pc,          \* request -> where it is
          answer,      \* request -> what its client was told last
          attached,    \* requests whose queue is tapped
          faults,      \* task store operations that failed
          left         \* the client of Runner went away

handlerVars == <<row, mode, producer, emitted, queue, pc, answer, attached, faults, left>>

Events == {"working", "auth_required"} \cup Final
ASSUME StatesAssumption == Events \cup {"submitted"} \subseteq States
Answers == Events \cup {"none", "submitted", "not_found", "not_cancelable", "unavailable"}

ServiceTypeOK ==
    /\ RegisterTypeOK
    /\ mode \in {"stream", "send", "nonblocking"}
    /\ producer \in {"running", "cancelled", "ended", "stopped"}
    /\ emitted \in 0..MaxEvents /\ faults \in 0..MaxFaults
    /\ queue \in [Requests -> Seq(Events)]
    /\ pc \in [Requests -> {"start", "consume", "background", "cleanup",
                            "recheck", "abort", "refresh", "done"}]
    /\ answer \in [Requests -> Answers]
    /\ attached \subseteq Requests
    /\ left \in BOOLEAN

(* The message request was set up: its queue exists, the execution runs,   *)
(* and the task is on record as submitted.                                 *)
Init ==
    /\ row = [t \in Tasks |-> IF t = Task THEN [state |-> "submitted", body |-> Body]
                                          ELSE None]
    /\ mode \in {"stream", "send", "nonblocking"}
    /\ producer = "running"
    /\ emitted = 0 /\ faults = 0
    /\ queue = [r \in Requests |-> <<>>]
    /\ pc = [r \in Requests |-> IF r = Runner THEN "consume" ELSE "start"]
    /\ answer = [r \in Requests |-> "none"]
    /\ attached = {Runner}
    /\ left = FALSE

-------------------------------------------------------------------------------
Stored == row[Task].state
Goto(r, step) == pc' = [pc EXCEPT ![r] = step]
Tell(r, what) == answer' = [answer EXCEPT ![r] = what]
Finish(r, what) == Goto(r, "done") /\ Tell(r, what)
Detach(r) == /\ attached' = attached \ {r}
             /\ queue' = [queue EXCEPT ![r] = <<>>]

(* A save of the snapshot an event makes.                                  *)
Record(event) ==
    row' = [row EXCEPT ![Task] = Accept(@, [state |-> event, body |-> Body])]

Fault == faults < MaxFaults /\ faults' = faults + 1

execVars == <<mode, producer, emitted>>
Over == producer \in {"ended", "stopped"}
taskVars == <<row, faults>>

-------------------------------------------------------------------------------
(* The execution enqueues an event; a final one is its last.               *)
Emit(event) ==
    /\ producer = "running"
    /\ IF emitted < MaxEvents - 1 THEN TRUE ELSE event \in Final
    /\ event \in Final => event \in {"completed", "failed"}
    /\ emitted' = emitted + 1
    /\ queue' = [r \in Requests |->
                   IF r \in attached THEN Append(queue[r], event) ELSE queue[r]]
    /\ producer' = IF event \in Final THEN "ended" ELSE producer
    /\ UNCHANGED <<row, mode, pc, answer, attached, faults, left>>

(* A cancelled execution ends without a final event.                       *)
ExecutionEnds ==
    /\ producer = "cancelled"
    /\ producer' = "stopped"
    /\ UNCHANGED <<row, mode, emitted, queue, pc, answer, attached, faults, left>>

-------------------------------------------------------------------------------
(* The message request.  Its aggregator saves an event before it passes it *)
(* on: a stream tells its client every event, message/send the last.       *)
Streaming == mode = "stream"
Breaks(event) == event = "auth_required" \/ mode = "nonblocking"

AfterEvent(event) ==
    \/ /\ Streaming /\ Tell(Runner, event)
       /\ IF event \in Final THEN Goto(Runner, "done") ELSE UNCHANGED pc
    \/ /\ ~Streaming /\ Breaks(event) /\ Tell(Runner, event)
       /\ Goto(Runner, IF event \in Final THEN "done" ELSE "background")
    \/ /\ ~Streaming /\ ~Breaks(event) /\ event \in Final
       /\ Tell(Runner, event) /\ Goto(Runner, "cleanup")
    \/ /\ ~Streaming /\ ~Breaks(event) /\ event \notin Final
       /\ UNCHANGED <<pc, answer>>

Consume(event) ==
    /\ pc[Runner] = "consume"
    /\ Record(event)
    /\ AfterEvent(event)

(* mutant: nobody consumes after the early answer *)
ConsumeNothing(event) ==
    /\ pc[Runner] = "background"
    /\ UNCHANGED <<row, answer>>
    /\ Goto(Runner, "done")

(* A message/send that answered early goes on consuming for the record.    *)
ContinueConsuming(event) ==
    /\ pc[Runner] = "background"
    /\ Record(event)
    /\ IF event \in Final THEN Goto(Runner, "done") ELSE UNCHANGED pc
    /\ UNCHANGED answer

RunnerTakes ==
    /\ queue[Runner] # <<>>
    /\ LET event == Head(queue[Runner])
       IN  Consume(event) \/ ContinueConsuming(event)
    /\ queue' = [queue EXCEPT ![Runner] = Tail(@)]
    /\ UNCHANGED <<execVars, attached, faults, left>>

(* The SDK closes the queue behind an execution that returned without a    *)
(* final event; that it does so behind a cancelled one is not assumed.     *)
QueueCloses ==
    /\ pc[Runner] \in {"consume", "background"}
    /\ queue[Runner] = <<>> /\ Over
    /\ IF pc[Runner] = "consume" /\ ~Streaming
       THEN Finish(Runner, Stored)
       ELSE Goto(Runner, "done") /\ UNCHANGED answer
    /\ UNCHANGED <<execVars, taskVars, queue, attached, left>>

(* The save fails.  A stream is given an error artifact and a final failed *)
(* status; message/send answers a failed task once the execution is over;  *)
(* in the background consumption just ends.  Nobody cancels the execution, *)
(* and nobody reads its later events.                                      *)
RunnerSaveFails ==
    /\ queue[Runner] # <<>> /\ Fault
    /\ \/ pc[Runner] = "consume" /\ Streaming /\ Finish(Runner, "failed")
       \/ /\ pc[Runner] = "consume" /\ ~Streaming
          /\ Goto(Runner, "cleanup") /\ Tell(Runner, "failed")
       \/ pc[Runner] = "background" /\ Goto(Runner, "done") /\ UNCHANGED answer
    /\ Detach(Runner)
    /\ UNCHANGED <<row, execVars, left>>

(* The client of a stream goes away: the execution is cancelled, the queue *)
(* is closed with what is in it.                                           *)
StreamDisconnects ==
    /\ Streaming /\ pc[Runner] = "consume"
    /\ left' = TRUE
    /\ producer' = IF producer = "running" THEN "cancelled" ELSE producer
    /\ Goto(Runner, "done")
    /\ Detach(Runner)
    /\ UNCHANGED <<taskVars, mode, emitted, answer>>

(* The client of a message/send goes away: the coroutine waits for the     *)
(* execution.  Its test for a disconnect asks the running task whether it  *)
(* is cancelled, which a running task never is: nothing is cancelled, and  *)
(* no one consumes what the execution enqueues from now on.                *)
SendDisconnects ==
    /\ ~Streaming /\ pc[Runner] = "consume"
    /\ left' = TRUE
    /\ Goto(Runner, "cleanup")
    /\ Detach(Runner)
    /\ UNCHANGED <<taskVars, execVars, answer>>

CleanupProducer ==
    /\ pc[Runner] = "cleanup" /\ Over
    /\ Goto(Runner, "done")
    /\ UNCHANGED <<taskVars, execVars, queue, answer, attached, left>>

RunnerNext ==
    \/ RunnerTakes \/ QueueCloses \/ RunnerSaveFails
    \/ StreamDisconnects \/ SendDisconnects \/ CleanupProducer

-------------------------------------------------------------------------------
(* tasks/cancel.  The stored state decides first: a canceled task is       *)
(* answered as it is, another terminal one cannot be canceled.             *)
CancelChecks(r) ==
    /\ pc[r] = "start"
    /\ CASE Stored = "canceled" -> Finish(r, "canceled")
         [] Stored \in Final \ {"canceled"} -> Finish(r, "not_cancelable")
         [] OTHER -> Goto(r, "recheck") /\ UNCHANGED answer
    /\ UNCHANGED <<taskVars, execVars, queue, attached, left>>

(* The SDK reads the task again and refuses a terminal one; otherwise it   *)
(* taps the queue and lets the executor cancel, which enqueues the         *)
(* canceled event for this request only and ends the execution.            *)
CancelRechecks(r) ==
    /\ pc[r] = "recheck"
    /\ IF Stored \in Final
       THEN Goto(r, "refresh") /\ UNCHANGED attached
       ELSE Goto(r, "abort") /\ attached' = attached \cup {r}
    /\ UNCHANGED <<taskVars, execVars, queue, answer, left>>

(* mutant: the executor aborts the execution and reports nothing *)
CancelAbortsSilently(r) ==
    /\ pc[r] = "abort"
    /\ producer' = IF producer = "running" THEN "cancelled" ELSE producer
    /\ Goto(r, "consume")
    /\ UNCHANGED <<taskVars, mode, emitted, queue, answer, attached, left>>

CancelAborts(r) ==
    /\ pc[r] = "abort"
    /\ queue' = [queue EXCEPT ![r] = Append(@, "canceled")]
    /\ producer' = IF producer = "running" THEN "cancelled" ELSE producer
    /\ Goto(r, "consume")
    /\ UNCHANGED <<taskVars, mode, emitted, answer, attached, left>>

(* It consumes its tap up to the first final event: canceled, or the end   *)
(* the execution came to meanwhile, which is refused like a terminal task. *)
CancelTakes(r) ==
    /\ pc[r] = "consume" /\ queue[r] # <<>>
    /\ LET event == Head(queue[r])
       IN  /\ Record(event)
           /\ CASE event = "canceled" -> Finish(r, "canceled") /\ Detach(r)
                [] event \in Final \ {"canceled"} ->
                     Goto(r, "refresh") /\ UNCHANGED answer /\ Detach(r)
                [] event \notin Final ->
                     /\ queue' = [queue EXCEPT ![r] = Tail(@)]
                     /\ UNCHANGED <<pc, answer, attached>>
    /\ UNCHANGED <<execVars, faults, left>>

(* mutant: the refusal is passed on without looking again *)
CancelRefuses(r) ==
    /\ pc[r] = "refresh"
    /\ Finish(r, "not_cancelable")
    /\ UNCHANGED <<taskVars, execVars, queue, attached, left>>

(* Refused by the SDK: the task may have been canceled since the check.    *)
CancelRefreshes(r) ==
    /\ pc[r] = "refresh"
    /\ Finish(r, IF Stored = "canceled" THEN "canceled" ELSE "not_cancelable")
    /\ UNCHANGED <<taskVars, execVars, queue, attached, left>>

(* tasks/resubscribe: a terminal task is replayed once; a live one is      *)
(* tapped, if its queue is still there.                                    *)
Subscribe(r) ==
    /\ pc[r] = "start"
    /\ CASE Stored \in Final -> Finish(r, Stored) /\ UNCHANGED attached
         [] Stored \notin Final /\ Over ->
              Finish(r, "not_found") /\ UNCHANGED attached
         [] OTHER -> /\ attached' = attached \cup {r}
                     /\ Goto(r, "consume") /\ UNCHANGED answer
    /\ UNCHANGED <<taskVars, execVars, queue, left>>

SubscriberTakes(r) ==
    /\ pc[r] = "consume" /\ queue[r] # <<>>
    /\ LET event == Head(queue[r])
       IN  /\ Record(event)
           /\ IF event \in Final
              THEN Finish(r, event) /\ Detach(r)
              ELSE /\ Tell(r, event)
                   /\ queue' = [queue EXCEPT ![r] = Tail(@)]
                   /\ UNCHANGED <<pc, attached>>
    /\ UNCHANGED <<execVars, faults, left>>

SubscriptionCloses(r) ==
    /\ pc[r] = "consume" /\ queue[r] = <<>> /\ Over
    /\ Goto(r, "done")
    /\ UNCHANGED <<taskVars, execVars, queue, answer, attached, left>>

(* A read or a save fails: the client hears of an internal error.          *)
ObserverFails(r) ==
    /\ \/ pc[r] \in {"start", "recheck", "refresh"}
       \/ pc[r] = "consume" /\ queue[r] # <<>>
    /\ Fault
    /\ Finish(r, "unavailable") /\ Detach(r)
    /\ UNCHANGED <<row, execVars, left>>

CancelNext(r) ==
    \/ CancelChecks(r) \/ CancelRechecks(r) \/ CancelAborts(r)
    \/ CancelTakes(r) \/ CancelRefreshes(r)
SubscribeNext(r) == Subscribe(r) \/ SubscriberTakes(r) \/ SubscriptionCloses(r)

Next ==
    \/ \E event \in Events : Emit(event)
    \/ ExecutionEnds \/ RunnerNext
    \/ \E r \in Cancels : CancelNext(r)
    \/ \E r \in Subscribers : SubscribeNext(r)
    \/ \E r \in Observers : ObserverFails(r)

Spec == Init /\ [][Next]_handlerVars

(* The event loop runs whoever is ready, and executions end (module        *)
(* Execution, EveryRequestEnds): weak fairness of every step but faults    *)
(* and disconnects.                                                        *)
Progress ==
    /\ WF_handlerVars(\E event \in Events : Emit(event))
    /\ WF_handlerVars(ExecutionEnds)
    /\ WF_handlerVars(RunnerTakes \/ CleanupProducer)
    /\ WF_handlerVars(producer = "ended" /\ QueueCloses)
    /\ \A r \in Cancels : WF_handlerVars(CancelNext(r))
    /\ \A r \in Subscribers :
          /\ WF_handlerVars(Subscribe(r) \/ SubscriberTakes(r))
          /\ WF_handlerVars(producer = "ended" /\ SubscriptionCloses(r))
FairSpec == Spec /\ Progress

-------------------------------------------------------------------------------
(* A client whose cancel is refused was told the truth: the task is on     *)
(* record as ended, and not by cancellation.  (A repeated or racing cancel *)
(* of a canceled task is answered with it.)                                *)
RefusalsAreTrue ==
    \A r \in Cancels :
       answer[r] = "not_cancelable" => Stored \in Final \ {"canceled"}

(* Whoever was told of a final event by consuming it finds the task on     *)
(* record as terminal: a client that reads after the stream ended never    *)
(* sees it running.                                                        *)
FinalsAreRecorded ==
    \A r \in Requests : answer[r] \in Final /\ faults = 0 => Stored \in Final

(* Types, and answers that agree with the record.                          *)
ServiceInv == ServiceTypeOK /\ RefusalsAreTrue /\ FinalsAreRecorded

(* Where no client of the run went away and no save failed, a task whose   *)
(* execution is over and whose requests are answered is on record as       *)
(* terminal, whatever cancels and subscriptions came in between.           *)
UndisturbedTasksSettle ==
    ~left /\ faults = 0 /\ producer = "ended"
    /\ (\A r \in Requests : pc[r] \in {"start", "done"})
    => Stored \in Final

(* Every request is answered and its coroutine ends, whatever fails or is  *)
(* cancelled around it; only whoever reads the events of a cancelled       *)
(* execution depends on the SDK to close the queue.                        *)
EveryCallEnds ==
    \A r \in Requests :
       <>(pc[r] = "done" \/ (producer = "stopped" /\ r \notin Cancels))
===============================================================================
