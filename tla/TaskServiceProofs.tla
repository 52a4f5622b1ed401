--------------------------- MODULE TaskServiceProofs ---------------------------
(***************************************************************************)
(* Proofs about TaskService, for any number of cancels, subscribers,       *)
(* events and faults: what a client was told agrees with the record, and   *)
(* a task nobody disturbed ends on record as terminal.                     *)
(***************************************************************************)
EXTENDS TaskService, TLAPS

(* The task is on record, and an execution that runs may still enqueue.    *)
RecordInv ==
    /\ row[Task] # None
    /\ Stored \in {"submitted"} \cup Events
    /\ producer = "running" => emitted < MaxEvents

(* A cancel that the SDK refused: the task was terminal by then.           *)
RefreshInv == \A r \in Cancels : pc[r] = "refresh" => Stored \in Final

(* The final event of an undisturbed execution is on record, or on its way *)
(* to a message request that still consumes.                               *)
Undisturbed == ~left /\ faults = 0
Consumes == pc[Runner] \in {"consume", "background"}
SettleInv ==
    /\ producer = "running" =>
          \A i \in DOMAIN queue[Runner] : queue[Runner][i] \notin Final
    /\ Undisturbed /\ producer = "running" => Runner \in attached /\ Consumes
    /\ Undisturbed /\ producer = "ended" =>
          \/ Stored \in Final
          \/ /\ Consumes
             /\ \E i \in DOMAIN queue[Runner] : queue[Runner][i] \in Final

-------------------------------------------------------------------------------
(* The record.                                                             *)

(* Recording an event: a terminal state stays, a final event is followed   *)
(* by a terminal state.                                                    *)
LEMMA Recording ==
    ASSUME ServiceTypeOK, RecordInv, NEW event \in Events, Record(event)
    PROVE  /\ RegisterTypeOK' /\ row'[Task] # None
           /\ Stored' \in {"submitted"} \cup Events
           /\ Stored \in Final => Stored' = Stored
           /\ event \in Final => Stored' \in Final
<1> DEFINE snapshot == [state |-> event, body |-> Body]
<1> USE TaskAssumption, StatesAssumption, NoneIsNoSnapshot
<1>1. /\ snapshot \in Snapshots /\ row[Task] \in Snapshots
      /\ snapshot.state = event
  BY DEF ServiceTypeOK, RegisterTypeOK, RecordInv, Snapshots
<1>2. row' = [row EXCEPT ![Task] = Accept(row[Task], snapshot)]
  BY DEF Record
<1> HIDE DEF snapshot
<1>3. /\ Accept(row[Task], snapshot) \in {row[Task], snapshot}
      /\ row[Task].state \in Final => Accept(row[Task], snapshot) = row[Task]
      /\ row[Task].state \notin Final => Accept(row[Task], snapshot) = snapshot
  BY <1>1 DEF Accept, Persist, IsTerminal, Final
<1>4. row'[Task] = Accept(row[Task], snapshot) /\ RegisterTypeOK'
  BY <1>1, <1>2, <1>3 DEF ServiceTypeOK, RegisterTypeOK
<1> QED
  BY <1>1, <1>3, <1>4 DEF Stored, RecordInv, Events, Final

(* What a step does to the record: nothing, or it records an event.        *)
RecordsAtMost == UNCHANGED row \/ \E event \in Events : Record(event)

LEMMA QueueHead ==
    ASSUME ServiceTypeOK, NEW r \in Requests, queue[r] # <<>>
    PROVE  /\ Head(queue[r]) \in Events /\ Tail(queue[r]) \in Seq(Events)
           /\ queue[r] \in Seq(Events) /\ Len(queue[r]) > 0
BY DEF ServiceTypeOK

LEMMA RowStep == ServiceTypeOK /\ [Next]_handlerVars => RecordsAtMost
<1> SUFFICES ASSUME ServiceTypeOK, [Next]_handlerVars PROVE RecordsAtMost
  OBVIOUS
<1> USE DEF RecordsAtMost, taskVars, Requests
<1>1. ASSUME NEW event \in Events, Emit(event) PROVE RecordsAtMost
  BY <1>1 DEF Emit
<1>2. CASE ExecutionEnds
  BY <1>2 DEF ExecutionEnds
<1>3. CASE RunnerTakes
  BY <1>3, QueueHead DEF RunnerTakes, Consume, ContinueConsuming
<1>4. CASE QueueCloses \/ RunnerSaveFails \/ StreamDisconnects
           \/ SendDisconnects \/ CleanupProducer
  BY <1>4 DEF QueueCloses, RunnerSaveFails, StreamDisconnects,
              SendDisconnects, CleanupProducer
<1>5. ASSUME NEW r \in Cancels, CancelNext(r) PROVE RecordsAtMost
  BY <1>5, QueueHead
  DEF CancelNext, CancelChecks, CancelRechecks, CancelAborts, CancelTakes,
      CancelRefreshes
<1>6. ASSUME NEW r \in Subscribers, SubscribeNext(r) PROVE RecordsAtMost
  BY <1>6, QueueHead
  DEF SubscribeNext, Subscribe, SubscriberTakes, SubscriptionCloses
<1>7. ASSUME NEW r \in Observers, ObserverFails(r) PROVE RecordsAtMost
  BY <1>7 DEF ObserverFails
<1>8. CASE UNCHANGED handlerVars
  BY <1>8 DEF handlerVars
<1> QED
  BY <1>1, <1>2, <1>3, <1>4, <1>5, <1>6, <1>7, <1>8 DEF Next, RunnerNext

(* The first terminal state on record stays.                               *)
LEMMA FinalStays ==
    ASSUME ServiceTypeOK, RecordInv, [Next]_handlerVars, Stored \in Final
    PROVE  Stored' = Stored
BY RowStep, Recording DEF RecordsAtMost, Stored

-------------------------------------------------------------------------------
(* Types.                                                                  *)
LEMMA ServiceTypeStep ==
    ServiceTypeOK /\ RecordInv /\ [Next]_handlerVars
    => ServiceTypeOK' /\ RecordInv'
<1> SUFFICES ASSUME ServiceTypeOK, RecordInv, [Next]_handlerVars
             PROVE  ServiceTypeOK' /\ RecordInv'
  OBVIOUS
<1> DEFINE Steps == {"start", "consume", "background", "cleanup", "recheck",
                     "abort", "refresh", "done"}
           Counters ==
      /\ mode' = mode
      /\ producer' \in {producer, "cancelled", "ended", "stopped"}
      /\ emitted' = emitted \/ (producer = "running" /\ emitted' = emitted + 1)
      /\ producer' = "running" => emitted' < MaxEvents
      /\ faults' = faults \/ (faults < MaxFaults /\ faults' = faults + 1)
      /\ left' = left \/ left' = TRUE
           Requested ==
      /\ queue' \in [Requests -> Seq(Events)]
      /\ pc' \in [Requests -> Steps]
      /\ answer' \in [Requests -> Answers]
      /\ attached' \subseteq Requests
<1>1. /\ RegisterTypeOK' /\ row'[Task] # None
      /\ Stored' \in {"submitted"} \cup Events
  BY RowStep, Recording
  DEF RecordsAtMost, ServiceTypeOK, RegisterTypeOK, RecordInv, Stored
<1>2. /\ queue \in [Requests -> Seq(Events)] /\ pc \in [Requests -> Steps]
      /\ answer \in [Requests -> Answers] /\ attached \subseteq Requests
      /\ producer \in {"running", "cancelled", "ended", "stopped"}
      /\ producer = "running" => emitted < MaxEvents
  BY DEF ServiceTypeOK, RecordInv
<1>3. \A r \in Requests : queue[r] # <<>> =>
         Head(queue[r]) \in Events /\ Tail(queue[r]) \in Seq(Events)
  BY QueueHead
<1>4. /\ Stored \in Answers
      /\ \A event \in Events : event \in Answers
      /\ {"none", "submitted", "not_found", "not_cancelable", "unavailable",
          "canceled", "failed"} \subseteq Answers
      /\ "canceled" \in Events
  BY DEF RecordInv, Answers, Events, Final, TerminalStates
<1>5. /\ Runner \in Requests
      /\ \A r \in Cancels : r \in Requests
      /\ \A r \in Subscribers : r \in Requests
      /\ \A r \in Observers : r \in Requests
  BY DEF Requests, Observers
<1>6. \A r \in Requests : Detach(r) =>
         queue' \in [Requests -> Seq(Events)] /\ attached' \subseteq Requests
  BY <1>2 DEF Detach
<1>7. {"start", "consume", "background", "cleanup", "recheck", "abort",
       "refresh", "done"} \subseteq Steps
  OBVIOUS
<1>8. ASSUME NEW r \in Requests, NEW step \in Steps, Goto(r, step)
      PROVE  pc' \in [Requests -> Steps]
  BY <1>8, <1>2 DEF Goto
<1>9. ASSUME NEW r \in Requests, NEW what \in Answers, Tell(r, what)
      PROVE  answer' \in [Requests -> Answers]
  BY <1>9, <1>2 DEF Tell
<1> HIDE DEF Steps
<1>10. Counters
  <2> USE BoundsAssumption
      DEF Goto, Tell, Finish, Detach, taskVars, execVars, Fault
  <2>1. ASSUME NEW event \in Events, Emit(event) PROVE Counters
    <3>1. /\ producer = "running" /\ emitted' = emitted + 1 /\ emitted \in Nat
          /\ UNCHANGED <<mode, faults, left>>
          /\ producer' = IF event \in Final THEN "ended" ELSE producer
          /\ event \notin Final => emitted < MaxEvents - 1
      BY <2>1 DEF Emit, ServiceTypeOK
    <3> QED
      BY <3>1
  <2>2. CASE ExecutionEnds \/ RunnerNext
    BY <2>2, <1>2
    DEF ExecutionEnds, RunnerNext, RunnerTakes, QueueCloses, RunnerSaveFails,
        StreamDisconnects, SendDisconnects, CleanupProducer
  <2>3. ASSUME NEW r \in Cancels, CancelNext(r) PROVE Counters
    BY <2>3, <1>2
    DEF CancelNext, CancelChecks, CancelRechecks, CancelAborts, CancelTakes,
        CancelRefreshes
  <2>4. ASSUME NEW r \in Subscribers, SubscribeNext(r) PROVE Counters
    BY <2>4, <1>2 DEF SubscribeNext, Subscribe, SubscriberTakes, SubscriptionCloses
  <2>5. ASSUME NEW r \in Observers, ObserverFails(r) PROVE Counters
    BY <2>5, <1>2 DEF ObserverFails
  <2>6. CASE UNCHANGED handlerVars
    BY <2>6, <1>2 DEF handlerVars
  <2> QED
    BY <2>1, <2>2, <2>3, <2>4, <2>5, <2>6 DEF Next
<1>11. Requested
  <2> USE DEF taskVars, execVars, Finish
  <2>1. ASSUME NEW event \in Events, Emit(event) PROVE Requested
    BY <2>1, <1>2 DEF Emit
  <2>2. CASE ExecutionEnds \/ CleanupProducer \/ UNCHANGED handlerVars
    BY <2>2, <1>2, <1>5, <1>7, <1>8
    DEF ExecutionEnds, CleanupProducer, handlerVars
  <2>3. CASE RunnerTakes
    <3> DEFINE event == Head(queue[Runner])
    <3>1. /\ event \in Events /\ event \in Answers
          /\ queue' = [queue EXCEPT ![Runner] = Tail(queue[Runner])]
          /\ UNCHANGED attached /\ Tail(queue[Runner]) \in Seq(Events)
          /\ Consume(event) \/ ContinueConsuming(event)
      BY <2>3, <1>3, <1>4, <1>5 DEF RunnerTakes
    <3> HIDE DEF event
    <3>2. CASE Consume(event)
      BY <3>1, <3>2, <1>2, <1>5, <1>7, <1>8, <1>9 DEF Consume, AfterEvent
    <3>3. CASE ContinueConsuming(event)
      BY <3>1, <3>3, <1>2, <1>5, <1>7, <1>8 DEF ContinueConsuming
    <3> QED
      BY <3>1, <3>2, <3>3
  <2>4. CASE QueueCloses
    BY <2>4, <1>2, <1>4, <1>5, <1>7, <1>8, <1>9 DEF QueueCloses
  <2>5. CASE RunnerSaveFails
    BY <2>5, <1>2, <1>4, <1>5, <1>6, <1>7, <1>8, <1>9 DEF RunnerSaveFails
  <2>6. CASE StreamDisconnects \/ SendDisconnects
    BY <2>6, <1>2, <1>5, <1>6, <1>7, <1>8 DEF StreamDisconnects, SendDisconnects
  <2>7. ASSUME NEW r \in Cancels, CancelNext(r) PROVE Requested
    <3>1. CASE CancelChecks(r)
      BY <3>1, <1>2, <1>4, <1>5, <1>7, <1>8, <1>9 DEF CancelChecks
    <3>2. CASE CancelRechecks(r) \/ CancelRefreshes(r)
      BY <3>2, <1>2, <1>4, <1>5, <1>7, <1>8, <1>9
      DEF CancelRechecks, CancelRefreshes
    <3>3. CASE CancelAborts(r)
      BY <3>3, <1>2, <1>4, <1>5, <1>7, <1>8 DEF CancelAborts
    <3>4. CASE CancelTakes(r)
      <4>1. CASE Detach(r)
        BY <3>4, <4>1, <1>2, <1>4, <1>5, <1>6, <1>7, <1>8, <1>9 DEF CancelTakes
      <4>2. CASE ~Detach(r)
        BY <3>4, <4>2, <1>2, <1>3, <1>5 DEF CancelTakes
      <4> QED
        BY <4>1, <4>2
    <3> QED
      BY <2>7, <3>1, <3>2, <3>3, <3>4 DEF CancelNext
  <2>8. ASSUME NEW r \in Subscribers, SubscribeNext(r) PROVE Requested
    <3>1. CASE Subscribe(r) \/ SubscriptionCloses(r)
      BY <3>1, <1>2, <1>4, <1>5, <1>7, <1>8, <1>9 DEF Subscribe, SubscriptionCloses
    <3>2. CASE SubscriberTakes(r)
      <4> DEFINE event == Head(queue[r])
      <4>1. event \in Answers /\ Tail(queue[r]) \in Seq(Events)
        BY <3>2, <1>3, <1>4, <1>5 DEF SubscriberTakes
      <4> QED
        BY <3>2, <4>1, <1>2, <1>5, <1>6, <1>7, <1>8, <1>9 DEF SubscriberTakes
    <3> QED
      BY <2>8, <3>1, <3>2 DEF SubscribeNext
  <2>9. ASSUME NEW r \in Observers, ObserverFails(r) PROVE Requested
    BY <2>9, <1>2, <1>4, <1>5, <1>6, <1>7, <1>8, <1>9 DEF ObserverFails
  <2> QED
    BY <2>1, <2>2, <2>3, <2>4, <2>5, <2>6, <2>7, <2>8, <2>9 DEF Next, RunnerNext
<1>12. emitted' \in 0..MaxEvents /\ faults' \in 0..MaxFaults
  BY <1>10, <1>2, BoundsAssumption DEF ServiceTypeOK
<1>13. /\ mode' \in {"stream", "send", "nonblocking"}
       /\ producer' \in {"running", "cancelled", "ended", "stopped"}
       /\ producer' = "running" => emitted' < MaxEvents
  BY <1>10, <1>2 DEF ServiceTypeOK
<1>14. left' \in BOOLEAN
  BY <1>10 DEF ServiceTypeOK
<1> QED
  BY <1>1, <1>11, <1>12, <1>13, <1>14 DEF RecordInv, ServiceTypeOK, Steps

-------------------------------------------------------------------------------
(* Answers and the record.                                                 *)

(* Cancels, subscribers and the message request are different requests.    *)
LEMMA Distinct ==
    /\ Runner \in Requests /\ Cancels \subseteq Requests /\ Subscribers \subseteq Requests
    /\ \A r \in Observers : r # Runner /\ r \in Requests
    /\ \A r \in Cancels : r # Runner /\ r \notin Subscribers
BY RequestsAssumption DEF Requests, Observers

(* A cancel enters "refresh" only when the task is terminal.               *)
LEMMA RefreshStep ==
    ASSUME ServiceTypeOK, RecordInv, [Next]_handlerVars, RefreshInv
    PROVE  RefreshInv'
<1> SUFFICES ASSUME NEW r \in Cancels, pc'[r] = "refresh" PROVE Stored' \in Final
  BY DEF RefreshInv
<1>1. CASE Stored \in Final
  BY <1>1, FinalStays
<1>2. CASE Stored \notin Final
  <2>1. pc[r] # "refresh"
    BY <1>2 DEF RefreshInv
  <2>2. r \in Requests /\ r # Runner /\ r \notin Subscribers
    BY Distinct
  <2>3. pc \in [Requests -> {"start", "consume", "background", "cleanup",
                            "recheck", "abort", "refresh", "done"}]
    BY DEF ServiceTypeOK
  <2> USE <2>2, <2>3 DEF Goto, Tell, Finish, taskVars, execVars
  <2>4. PICK c \in Cancels : CancelNext(c)
    <3>1. ASSUME NEW event \in Events, Emit(event) PROVE pc' = pc
      BY <3>1 DEF Emit
    <3>2. CASE ExecutionEnds \/ RunnerNext
      BY <3>2, <2>1, Distinct
      DEF ExecutionEnds, RunnerNext, RunnerTakes, Consume, AfterEvent,
          ContinueConsuming, QueueCloses, RunnerSaveFails, StreamDisconnects,
          SendDisconnects, CleanupProducer
    <3>3. ASSUME NEW c \in Subscribers, SubscribeNext(c) PROVE FALSE
      BY <3>3, <2>1, Distinct
      DEF SubscribeNext, Subscribe, SubscriberTakes, SubscriptionCloses
    <3>4. ASSUME NEW c \in Observers, ObserverFails(c) PROVE FALSE
      BY <3>4, <2>1, Distinct DEF ObserverFails
    <3>5. CASE UNCHANGED handlerVars
      BY <3>5, <2>1 DEF handlerVars
    <3> QED
      BY <2>1, <3>1, <3>2, <3>3, <3>4, <3>5 DEF Next
  <2>5. c \in Requests
    BY Distinct
  <2>6. CASE CancelTakes(c)
    <3> DEFINE event == Head(queue[c])
    <3>1. event \in Events /\ Record(event)
      BY <2>5, <2>6, QueueHead DEF CancelTakes
    <3>2. event \in Final
      BY <2>1, <2>5, <2>6 DEF CancelTakes
    <3> HIDE DEF event
    <3> QED
      BY <3>1, <3>2, Recording
  <2> QED
    BY <1>2, <2>1, <2>4, <2>5, <2>6
    DEF CancelNext, CancelChecks, CancelRechecks, CancelAborts, CancelRefreshes
<1> QED
  BY <1>1, <1>2

(* A refusal stays true, because what is on record as terminal stays.      *)
LEMMA RefusalStep ==
    ASSUME ServiceTypeOK, RecordInv, [Next]_handlerVars, RefreshInv, RefusalsAreTrue
    PROVE  RefusalsAreTrue'
<1> SUFFICES ASSUME NEW r \in Cancels, answer'[r] = "not_cancelable"
             PROVE  Stored' \in Final \ {"canceled"}
  BY DEF RefusalsAreTrue
<1>1. Stored \in Final => Stored' = Stored
  BY FinalStays
<1>2. CASE answer[r] = "not_cancelable"
  BY <1>1, <1>2 DEF RefusalsAreTrue
<1>3. CASE answer[r] # "not_cancelable"
  <2>1. r \in Requests /\ r # Runner /\ r \notin Subscribers /\ "not_cancelable" \notin Events
    BY Distinct DEF Events, Final, TerminalStates
  <2>2. answer \in [Requests -> Answers]
    BY DEF ServiceTypeOK
  <2> USE <2>1, <2>2 DEF Goto, Tell, Finish, taskVars, execVars
  <2>3. PICK c \in Cancels : CancelNext(c)
    <3>1. ASSUME NEW event \in Events, Emit(event) PROVE answer' = answer
      BY <3>1 DEF Emit
    <3>2. CASE ExecutionEnds \/ RunnerNext
      BY <3>2, <1>3, Distinct
      DEF ExecutionEnds, RunnerNext, RunnerTakes, Consume, AfterEvent,
          ContinueConsuming, QueueCloses, RunnerSaveFails, StreamDisconnects,
          SendDisconnects, CleanupProducer
    <3>3. ASSUME NEW c \in Subscribers, SubscribeNext(c) PROVE FALSE
      BY <3>3, <1>3, Distinct
      DEF SubscribeNext, Subscribe, SubscriberTakes, SubscriptionCloses
    <3>4. ASSUME NEW c \in Observers, ObserverFails(c) PROVE FALSE
      BY <3>4, <1>3, Distinct DEF ObserverFails
    <3>5. CASE UNCHANGED handlerVars
      BY <3>5, <1>3 DEF handlerVars
    <3> QED
      BY <1>3, <3>1, <3>2, <3>3, <3>4, <3>5 DEF Next
  <2>4. c \in Requests
    BY Distinct
  <2>5. c = r /\ (CancelChecks(c) \/ CancelRefreshes(c))
    BY <1>3, <2>3, <2>4
    DEF CancelNext, CancelChecks, CancelRechecks, CancelAborts, CancelTakes,
        CancelRefreshes
  <2>6. Stored \in Final \ {"canceled"}
    BY <1>3, <2>5 DEF CancelChecks, CancelRefreshes, RefreshInv
  <2> QED
    BY <1>1, <2>6
<1> QED
  BY <1>2, <1>3

(* A final event is answered after it was recorded.                        *)
LEMMA FinalsStep ==
    ASSUME ServiceTypeOK, RecordInv, [Next]_handlerVars, FinalsAreRecorded
    PROVE  FinalsAreRecorded'
<1> SUFFICES ASSUME NEW r \in Requests, answer'[r] \in Final, faults' = 0,
                    Stored \notin Final
             PROVE  Stored' \in Final
  BY FinalStays DEF FinalsAreRecorded
<1>1. faults = 0
  <2>1. faults \in Nat /\ (faults' = faults \/ faults' = faults + 1)
    <3> USE DEF taskVars, Fault, handlerVars, ServiceTypeOK
    <3>1. faults \in Nat
      BY BoundsAssumption
    <3>2. ASSUME NEW event \in Events, Emit(event) PROVE faults' = faults
      BY <3>2 DEF Emit
    <3>3. CASE ExecutionEnds \/ RunnerNext \/ UNCHANGED handlerVars
      BY <3>3
      DEF ExecutionEnds, RunnerNext, RunnerTakes, QueueCloses, RunnerSaveFails,
          StreamDisconnects, SendDisconnects, CleanupProducer
    <3>4. ASSUME NEW c \in Cancels, CancelNext(c) PROVE faults' = faults
      BY <3>4
      DEF CancelNext, CancelChecks, CancelRechecks, CancelAborts, CancelTakes,
          CancelRefreshes
    <3>5. ASSUME NEW c \in Subscribers, SubscribeNext(c) PROVE faults' = faults
      BY <3>5 DEF SubscribeNext, Subscribe, SubscriberTakes, SubscriptionCloses
    <3>6. ASSUME NEW c \in Observers, ObserverFails(c) PROVE faults' = faults + 1
      BY <3>6 DEF ObserverFails
    <3> QED
      BY <3>1, <3>2, <3>3, <3>4, <3>5, <3>6 DEF Next
  <2> QED
    BY <2>1
<1>2. answer[r] \notin Final
  BY <1>1 DEF FinalsAreRecorded
<1>3. /\ answer \in [Requests -> Answers] /\ faults + 1 # 0
      /\ "not_found" \notin Final /\ "not_cancelable" \notin Final
      /\ "unavailable" \notin Final /\ "canceled" \in Final
  BY <1>1 DEF ServiceTypeOK, Final, TerminalStates
<1>4. ASSUME NEW c \in Requests, queue[c] # <<>>, Record(Head(queue[c])),
             Head(queue[c]) \in Final
      PROVE  Stored' \in Final
  BY <1>4, QueueHead, Recording
<1> USE <1>3, Distinct DEF Goto, Tell, Finish, taskVars, execVars, Fault
<1>5. ASSUME NEW event \in Events, Emit(event) PROVE FALSE
  BY <1>2, <1>5 DEF Emit
<1>6. CASE ExecutionEnds \/ StreamDisconnects \/ SendDisconnects
           \/ CleanupProducer \/ UNCHANGED handlerVars
  BY <1>2, <1>6
  DEF ExecutionEnds, StreamDisconnects, SendDisconnects, CleanupProducer, handlerVars
<1>7. CASE RunnerSaveFails
  BY <1>1, <1>7 DEF RunnerSaveFails
<1>8. CASE QueueCloses
  BY <1>2, <1>8 DEF QueueCloses
<1>9. CASE RunnerTakes
  BY <1>2, <1>4, <1>9 DEF RunnerTakes, Consume, ContinueConsuming, AfterEvent
<1>10. ASSUME NEW c \in Cancels, CancelNext(c) PROVE Stored' \in Final
  BY <1>2, <1>4, <1>10
  DEF CancelNext, CancelChecks, CancelRechecks, CancelAborts, CancelTakes,
      CancelRefreshes
<1>11. ASSUME NEW c \in Subscribers, SubscribeNext(c) PROVE Stored' \in Final
  BY <1>2, <1>4, <1>11
  DEF SubscribeNext, Subscribe, SubscriberTakes, SubscriptionCloses
<1>12. ASSUME NEW c \in Observers, ObserverFails(c) PROVE FALSE
  BY <1>1, <1>12 DEF ObserverFails
<1> QED
  BY <1>5, <1>6, <1>7, <1>8, <1>9, <1>10, <1>11, <1>12 DEF Next, RunnerNext

-------------------------------------------------------------------------------
(* The end of an undisturbed task.                                         *)

(* A queue whose head is taken keeps the rest.                             *)
LEMMA TailKeeps ==
    ASSUME NEW s \in Seq(Events), s # <<>>
    PROVE  /\ Len(Tail(s)) = Len(s) - 1 /\ Len(s) \in Nat /\ Len(s) > 0
           /\ \A i \in DOMAIN Tail(s) : i + 1 \in DOMAIN s /\ Tail(s)[i] = s[i + 1]
           /\ \A i \in DOMAIN s :
                 i = 1 \/ (i - 1 \in DOMAIN Tail(s) /\ Tail(s)[i - 1] = s[i])
           /\ Head(s) = s[1] /\ 1 \in DOMAIN s
OBVIOUS

(* The steps of the requests that observe: the message request, its queue  *)
(* and the tapping of it are left alone, and an execution only stops       *)
(* running by being cancelled.                                             *)
Apart ==
    /\ queue'[Runner] = queue[Runner] /\ pc'[Runner] = pc[Runner]
    /\ (Runner \in attached => Runner \in attached')
    /\ left' = left
    /\ producer' = producer \/ producer' \in {"cancelled", "stopped"}
    /\ faults = 0 \/ faults' # 0

LEMMA ObserversApart ==
    ASSUME ServiceTypeOK, NEW r \in Observers,
           CancelNext(r) \/ SubscribeNext(r) \/ ObserverFails(r)
    PROVE  Apart
<1>1. /\ Runner \in Requests /\ r \in Requests /\ r # Runner
      /\ queue \in [Requests -> Seq(Events)] /\ faults \in Nat
      /\ pc \in [Requests -> {"start", "consume", "background", "cleanup",
                              "recheck", "abort", "refresh", "done"}]
  BY Distinct, BoundsAssumption DEF ServiceTypeOK
<1> USE <1>1 DEF Apart, Goto, Tell, Finish, Detach, taskVars, execVars, Fault
<1>2. CASE CancelNext(r)
  BY <1>2
  DEF CancelNext, CancelChecks, CancelRechecks, CancelAborts, CancelTakes,
      CancelRefreshes
<1>3. CASE SubscribeNext(r)
  BY <1>3 DEF SubscribeNext, Subscribe, SubscriberTakes, SubscriptionCloses
<1>4. CASE ObserverFails(r)
  BY <1>4 DEF ObserverFails
<1> QED
  BY <1>2, <1>3, <1>4

LEMMA SettleStep ==
    ASSUME ServiceTypeOK, RecordInv, [Next]_handlerVars, SettleInv
    PROVE  SettleInv'
<1>1. /\ Runner \in Requests /\ queue \in [Requests -> Seq(Events)]
      /\ queue[Runner] \in Seq(Events) /\ faults \in Nat
      /\ producer \in {"running", "cancelled", "ended", "stopped"}
      /\ left \in BOOLEAN
      /\ pc \in [Requests -> {"start", "consume", "background", "cleanup",
                              "recheck", "abort", "refresh", "done"}]
  BY Distinct, BoundsAssumption DEF ServiceTypeOK
<1>2. Stored \in Final => Stored' \in Final
  BY FinalStays
<1>3. CASE Apart
  BY <1>1, <1>2, <1>3 DEF Apart, SettleInv, Undisturbed, Consumes
<1>4. ASSUME NEW event \in Events, Emit(event) PROVE SettleInv'
  <2>1. /\ producer = "running" /\ UNCHANGED <<pc, attached, faults, left>>
        /\ producer' = IF event \in Final THEN "ended" ELSE producer
        /\ queue'[Runner] = IF Runner \in attached THEN Append(queue[Runner], event)
                                                   ELSE queue[Runner]
    BY <1>1, <1>4 DEF Emit
  <2> DEFINE s == queue[Runner]
             n == Len(s) + 1
  <2>2. /\ n \in DOMAIN Append(s, event) /\ Append(s, event)[n] = event
        /\ \A i \in DOMAIN Append(s, event) :
              i = n \/ (i \in DOMAIN s /\ Append(s, event)[i] = s[i])
    BY <1>1
  <2> HIDE DEF n
  <2>3. CASE event \in Final
    BY <2>1, <2>2, <2>3 DEF SettleInv, Undisturbed, Consumes
  <2>4. CASE event \notin Final
    BY <2>1, <2>2, <2>4 DEF SettleInv, Undisturbed, Consumes
  <2> QED
    BY <2>3, <2>4
<1>5. CASE ExecutionEnds \/ UNCHANGED handlerVars
  BY <1>2, <1>5 DEF ExecutionEnds, handlerVars, SettleInv, Undisturbed, Consumes, Stored
<1>6. CASE RunnerTakes
  <2> DEFINE s == queue[Runner]
             event == Head(s)
  <2>1. /\ s # <<>> /\ UNCHANGED <<producer, mode, attached, faults, left>>
        /\ queue'[Runner] = Tail(s)
        /\ Consume(event) \/ ContinueConsuming(event)
        /\ event \in Events
    BY <1>1, <1>6, QueueHead DEF RunnerTakes, execVars
  <2>2. Record(event) /\ Consumes
    BY <2>1 DEF Consume, ContinueConsuming, Consumes
  <2>3. event \in Final => Stored' \in Final
    BY <2>1, <2>2, Recording
  <2>4. event \notin Final => Consumes'
    BY <1>1, <2>1 DEF Consume, ContinueConsuming, AfterEvent, Consumes, Goto
  <2>5. /\ \A i \in DOMAIN Tail(s) : i + 1 \in DOMAIN s /\ Tail(s)[i] = s[i + 1]
        /\ \A i \in DOMAIN s :
              i = 1 \/ (i - 1 \in DOMAIN Tail(s) /\ Tail(s)[i - 1] = s[i])
        /\ event = s[1] /\ 1 \in DOMAIN s
    BY <1>1, <2>1, TailKeeps
  <2> HIDE DEF s, event
  <2>6. producer' = "running" =>
           \A i \in DOMAIN queue'[Runner] : queue'[Runner][i] \notin Final
    BY <2>1, <2>5 DEF SettleInv, s
  <2>7. Undisturbed' /\ producer' = "running" => Runner \in attached' /\ Consumes'
    BY <2>1, <2>4, <2>5 DEF SettleInv, s, Undisturbed
  <2>8. Undisturbed' /\ producer' = "ended" =>
          \/ Stored' \in Final
          \/ /\ Consumes'
             /\ \E i \in DOMAIN queue'[Runner] : queue'[Runner][i] \in Final
    BY <1>2, <2>1, <2>3, <2>4, <2>5 DEF SettleInv, s, Undisturbed
  <2> QED
    BY <2>6, <2>7, <2>8 DEF SettleInv
<1>7. CASE QueueCloses
  BY <1>1, <1>2, <1>7
  DEF QueueCloses, SettleInv, Undisturbed, Consumes, execVars, taskVars, Over
<1>8. CASE RunnerSaveFails
  BY <1>1, <1>8
  DEF RunnerSaveFails, SettleInv, Undisturbed, Detach, Fault, execVars
<1>9. CASE StreamDisconnects \/ SendDisconnects
  BY <1>1, <1>9
  DEF StreamDisconnects, SendDisconnects, SettleInv, Undisturbed, Detach, execVars
<1>10. CASE CleanupProducer
  BY <1>1, <1>2, <1>10
  DEF CleanupProducer, SettleInv, Undisturbed, Consumes, execVars, taskVars, Over, Goto
<1>11. ASSUME NEW r \in Cancels, CancelNext(r) PROVE Apart
  BY <1>11, ObserversApart DEF Observers
<1>12. ASSUME NEW r \in Subscribers, SubscribeNext(r) PROVE Apart
  BY <1>12, ObserversApart DEF Observers
<1>13. ASSUME NEW r \in Observers, ObserverFails(r) PROVE Apart
  BY <1>13, ObserversApart
<1> QED
  BY <1>3, <1>4, <1>5, <1>6, <1>7, <1>8, <1>9, <1>10, <1>11, <1>12, <1>13
  DEF Next, RunnerNext

-------------------------------------------------------------------------------
HandlerInv == ServiceInv /\ RecordInv /\ RefreshInv /\ SettleInv

LEMMA HandlerInit == Init => HandlerInv
<1> SUFFICES ASSUME Init PROVE HandlerInv
  OBVIOUS
<1>1. /\ Runner \in Requests /\ "submitted" \notin Final /\ "none" \notin Final
      /\ [state |-> "submitted", body |-> Body] \in Snapshots
      /\ None \notin Snapshots
  BY Distinct, TaskAssumption, StatesAssumption, NoneIsNoSnapshot
  DEF Snapshots, Final, TerminalStates
<1>2. /\ row[Task] = [state |-> "submitted", body |-> Body] /\ RegisterTypeOK
      /\ row[Task].state = "submitted"
  BY <1>1, TaskAssumption DEF Init, RegisterTypeOK
<1>3. ServiceTypeOK
  <2>1. /\ mode \in {"stream", "send", "nonblocking"} /\ left \in BOOLEAN
        /\ producer \in {"running", "cancelled", "ended", "stopped"}
        /\ attached \subseteq Requests
    BY <1>1 DEF Init
  <2>2. emitted \in 0..MaxEvents /\ faults \in 0..MaxFaults
    BY BoundsAssumption DEF Init
  <2>3. /\ queue \in [Requests -> Seq(Events)] /\ answer \in [Requests -> Answers]
        /\ pc \in [Requests -> {"start", "consume", "background", "cleanup",
                                "recheck", "abort", "refresh", "done"}]
    BY DEF Init, Answers
  <2> QED
    BY <1>2, <2>1, <2>2, <2>3 DEF ServiceTypeOK
<1>4. RecordInv
  BY <1>1, <1>2, BoundsAssumption DEF Init, RecordInv, Stored
<1>5. RefreshInv /\ RefusalsAreTrue /\ FinalsAreRecorded
  BY <1>1, Distinct DEF Init, RefreshInv, RefusalsAreTrue, FinalsAreRecorded
<1>6. SettleInv
  BY <1>1 DEF Init, SettleInv, Consumes
<1> QED
  BY <1>3, <1>4, <1>5, <1>6 DEF HandlerInv, ServiceInv

LEMMA HandlerStep == HandlerInv /\ [Next]_handlerVars => HandlerInv'
BY ServiceTypeStep, RefreshStep, RefusalStep, FinalsStep, SettleStep
DEF HandlerInv, ServiceInv

(* What clients were told agrees with the record: who was refused a cancel *)
(* finds the task ended and not canceled, and who consumed a final event   *)
(* finds it terminal, whatever cancels, subscriptions, disconnects and     *)
(* failing saves come in between.                                          *)
THEOREM ClientsAreToldTheTruth == Spec => []ServiceInv
<1>1. HandlerInv => ServiceInv
  BY DEF HandlerInv
<1> QED
  BY HandlerInit, HandlerStep, <1>1, PTL DEF Spec

(* Where nobody disconnected and no save failed, a task whose execution    *)
(* ended on its own and whose requests are answered is on record as        *)
(* terminal.                                                               *)
THEOREM TasksSettle == Spec => []UndisturbedTasksSettle
<1>1. HandlerInv => UndisturbedTasksSettle
  BY Distinct DEF HandlerInv, SettleInv, UndisturbedTasksSettle, Undisturbed, Consumes
<1> QED
  BY HandlerInit, HandlerStep, <1>1, PTL DEF Spec
===============================================================================
