--------------------------- MODULE InterruptProofs ---------------------------
(***************************************************************************)
(* Proofs about Interrupts, for every set of ids, identities and callers,  *)
(* for both backends and any two TTLs.                                     *)
(***************************************************************************)
EXTENDS Interrupts, TLAPS

(* Types *)

LEMMA InitType == Init => TypeOK
  BY AskAssumption
  DEF Init, TypeOK, StoreInit, StoreTypeOK, Idle, Calls, Answers

(* What an operation may do to the registry keeps its types. *)
LEMMA BuryType ==
  ASSUME StoreTypeOK, NEW S, Bury(S), UNCHANGED due, now' = now
  PROVE  StoreTypeOK'
<1>1. NewTombstone \in Nat \cup {None}
  BY TTLAssumption DEF NewTombstone, StoreTypeOK
<1> QED
  BY <1>1 DEF StoreTypeOK, Bury, RequestsWithout, TombstonesWith, PrunedTombstones

LEMMA RememberType ==
  ASSUME StoreTypeOK, NEW i \in Ids, Remember(i, TypeOf[i], AskerOf[i]), now' = now
  PROVE  StoreTypeOK'
<1>1. NewTombstone \in Nat \cup {None}
  BY TTLAssumption DEF NewTombstone, StoreTypeOK
<1>2. [interrupt_type |-> TypeOf[i], identity |-> AskerOf[i],
       expires_at |-> now + RequestTTL] \in Bindings
  BY AskAssumption, TTLAssumption DEF StoreTypeOK, Bindings
<1>3. RequestsWithout(Swept) \in [Ids -> Bindings \cup {None}]
  BY DEF RequestsWithout, StoreTypeOK
<1>4. TombstonesWith(Swept) \in [Ids -> Nat \cup {None}]
  BY <1>1 DEF TombstonesWith, PrunedTombstones, StoreTypeOK
<1>5. now + RequestTTL \in Nat
  BY TTLAssumption DEF StoreTypeOK
<1> QED
  BY <1>2, <1>3, <1>4, <1>5 DEF StoreTypeOK, Remember

LEMMA DiscardType ==
  ASSUME StoreTypeOK, NEW i, Discard(i), now' = now
  PROVE  StoreTypeOK'
  BY DEF StoreTypeOK, Discard

LEMMA ReloadType ==
  ASSUME StoreTypeOK, Reload, now' = now
  PROVE  StoreTypeOK'
  BY DEF StoreTypeOK, Reload, storeVars

-----------------------------------------------------------------------------
(* The steps of Interrupts, as the registry sees them.                     *)
StoreStep ==
    \/ now' \in {now, now + 1} /\ UNCHANGED storeVars
    \/ /\ now' = now
       /\ \/ \E i \in Ids : Remember(i, TypeOf[i], AskerOf[i])
          \/ \E i \in Ids : Discard(i)
          \/ \E S \in SUBSET Overdue : Bury(S) /\ UNCHANGED due
          \/ Reload

(* The event at the head of the queue, and the queue after it. *)
LEMMA HeadAndTail ==
  ASSUME TypeOK, events # <<>>
  PROVE  /\ Head(events).id \in Ids
         /\ Tail(events) \in Seq(Event)
         /\ Head(events) = events[1]
         /\ 1 \in 1..Len(events)
         /\ \A k \in 1..Len(Tail(events)) :
               Tail(events)[k] = events[k + 1] /\ k + 1 \in 1..Len(events)
<1>1. events \in Seq(Event)
  BY DEF TypeOK
<1>2. /\ Head(events) \in Event
      /\ Head(events) = events[1]
      /\ Tail(events) \in Seq(Event)
      /\ Len(events) \in Nat \ {0}
      /\ Len(Tail(events)) = Len(events) - 1
  BY <1>1
<1>3. ASSUME NEW k \in 1..Len(Tail(events))
      PROVE  Tail(events)[k] = events[k + 1] /\ k + 1 \in 1..Len(events)
  BY <1>1, <1>2
<1>4. Head(events).id \in Ids
  BY <1>2 DEF Event
<1> QED
  BY <1>2, <1>3, <1>4

(* A callback under way is about an id. *)
LEMMA BusyCall ==
  ASSUME TypeOK, NEW c \in Callers, calls[c].phase \in {"replying", "discarding"}
  PROVE  /\ calls[c].id \in Ids
         /\ calls[c].type \in Types
         /\ calls[c].identity \in Identities \cup {None}
         /\ calls[c].answer \in Answers
  BY DEF TypeOK, Calls

LEMMA CallUpdate ==
  ASSUME TypeOK, NEW c \in Callers, calls[c].phase \in {"replying", "discarding"},
         NEW answer \in Answers
  PROVE  [calls EXCEPT ![c].phase = "discarding", ![c].answer = answer]
           \in [Callers -> Calls]
<1>1. calls[c] \in [phase : {"replying", "discarding"}, id : Ids, type : Types,
                   identity : Identities \cup {None}, answer : Answers]
  BY DEF TypeOK, Calls
<1>2. [calls[c] EXCEPT !.phase = "discarding", !.answer = answer] \in Calls
  BY <1>1 DEF Calls
<1> QED
  BY <1>2 DEF TypeOK

(* What the upstream publishes leaves the queue one of events. *)
LEMMA PublishType ==
  ASSUME TypeOK, NEW kind \in {"asked", "replied"}, NEW i \in Ids,
         Publish(kind, i)
  PROVE  /\ events' \in Seq(Event)
         /\ \A k \in 1..Len(events') :
               \/ k \in 1..Len(events) /\ events'[k] = events[k]
               \/ events'[k] = [kind |-> kind, id |-> i]
         /\ \A k \in 1..Len(events) : k \in 1..Len(events') /\ events'[k] = events[k]
         /\ \A k \in 1..Len(events') :
               k \notin 1..Len(events) => events'[k] = [kind |-> kind, id |-> i]
<1> DEFINE e == [kind |-> kind, id |-> i]
<1>1. events \in Seq(Event) /\ e \in Event
  BY DEF TypeOK, Event
<1>2. CASE events' = events
  BY <1>1, <1>2
<1>3. ASSUME NEW n \in 1..2, events' = events \o [k \in 1..n |-> e]
      PROVE  /\ events' \in Seq(Event)
             /\ \A k \in 1..Len(events') :
                   \/ k \in 1..Len(events) /\ events'[k] = events[k]
                   \/ events'[k] = e
             /\ \A k \in 1..Len(events) :
                   k \in 1..Len(events') /\ events'[k] = events[k]
             /\ \A k \in 1..Len(events') : k \notin 1..Len(events) => events'[k] = e
  <2>1. [k \in 1..n |-> e] \in Seq(Event) /\ Len([k \in 1..n |-> e]) = n
    BY <1>1
  <2> QED
    BY <1>1, <1>3, <2>1
<1>4. PICK n \in Copies :
          events' = IF stream = "connected" THEN events \o [k \in 1..n |-> e]
                                            ELSE events
  BY DEF Publish
<1>5. n \in 1..2
  BY CopiesAssumption
<1> QED
  BY <1>2, <1>3, <1>4, <1>5

(* Every step keeps the types and is one of the registry's. *)
LEMMA StepTypes ==
  ASSUME TypeOK, [Next]_vars
  PROVE  TypeOK' /\ StoreStep
<1> USE DEF StoreStep
<1>1. CASE UNCHANGED vars
  BY <1>1 DEF vars, streamVars, storeVars, TypeOK, StoreTypeOK
<1>2. ASSUME NEW i \in Ids, Ask(i) \/ SettleElsewhere(i)
      PROVE  TypeOK' /\ StoreStep
  <2>1. events' \in Seq(Event)
    BY <1>2, PublishType DEF Ask, SettleElsewhere
  <2> QED
    BY <1>2, <2>1 DEF Ask, SettleElsewhere, TypeOK, StoreTypeOK, storeVars
<1>3. CASE StreamStarts
  BY <1>3 DEF StreamStarts, TypeOK, StoreTypeOK, storeVars
<1>4. CASE StreamAsked
  <2> DEFINE i == Head(events).id
  <2>1. i \in Ids /\ Tail(events) \in Seq(Event)
    BY <1>4, HeadAndTail DEF StreamAsked, CanRead
  <2>2. UNCHANGED storeVars \/ Remember(i, TypeOf[i], AskerOf[i])
    BY <1>4 DEF StreamAsked
  <2>3. StoreTypeOK'
    BY <1>4, <2>1, <2>2, RememberType DEF StreamAsked, TypeOK, StoreTypeOK, storeVars
  <2> QED
    BY <1>4, <2>1, <2>2, <2>3 DEF StreamAsked, MarkPending, TypeOK, StoreTypeOK
<1>5. CASE StreamReplied
  <2> DEFINE i == Head(events).id
  <2>1. i \in Ids /\ Tail(events) \in Seq(Event)
    BY <1>5, HeadAndTail DEF StreamReplied, CanRead
  <2>2. StoreTypeOK'
    BY <1>5, DiscardType DEF StreamReplied, TypeOK
  <2> QED
    BY <1>5, <2>1, <2>2 DEF StreamReplied, ClearPending, TypeOK, StoreTypeOK
<1>6. CASE StreamEmits
  BY <1>6 DEF StreamEmits, TypeOK, StoreTypeOK, storeVars
<1>7. CASE StreamWriteFails
  <2> DEFINE i == Head(events).id
  <2>1. i \in Ids
    BY <1>7, HeadAndTail DEF StreamWriteFails, CanRead
  <2>2. \/ UNCHANGED storeVars
        \/ Remember(i, TypeOf[i], AskerOf[i])
        \/ Discard(i)
    BY <1>7 DEF StreamWriteFails
  <2>3. StoreTypeOK'
    BY <1>7, <2>1, <2>2, RememberType, DiscardType
    DEF StreamWriteFails, TypeOK, StoreTypeOK, storeVars
  <2>4. pending' \subseteq Ids /\ <<>> \in Seq(Event)
    BY <1>7, <2>1 DEF StreamWriteFails, MarkPending, ClearPending, TypeOK
  <2>5. now' = now /\ TypeOK'
    BY <1>7, <2>3, <2>4 DEF StreamWriteFails, TypeOK
  <2> QED
    BY <2>1, <2>2, <2>5
<1>8. CASE StreamBreaks \/ StreamReconnects \/ StreamEnds
  <2>1. <<>> \in Seq(Event)
    OBVIOUS
  <2>2. /\ UNCHANGED <<now, storeVars, upstream, status, calls, acked>>
        /\ stream' \in {"connected", "retrying", "ended"}
        /\ events' \in {events, <<>>}
        /\ pending' \in {pending, {}}
        /\ emitting' \in {emitting, None}
    BY <1>8 DEF StreamBreaks, StreamReconnects, StreamEnds
  <2> QED
    BY <2>1, <2>2 DEF TypeOK, StoreTypeOK, storeVars
<1>9. ASSUME NEW c \in Callers, NEW i \in Ids, NEW type \in Types,
             NEW identity \in Identities \cup {None},
             CallResolves(c, i, type, identity)
      PROVE  TypeOK' /\ StoreStep
  <2>1. PICK S : S \in SUBSET Overdue /\ Bury(S) /\ UNCHANGED due
    BY <1>9 DEF CallResolves, Resolve, Swept
  <2>2. StoreTypeOK'
    BY <1>9, <2>1, BuryType DEF CallResolves, TypeOK
  <2>3. PICK w \in BOOLEAN :
           IF Verdict(i, type, identity, w) # "none"
             THEN Finish(c, Verdict(i, type, identity, w))
             ELSE calls' = [calls EXCEPT ![c] =
                   [phase |-> "replying", id |-> i, type |-> type,
                    identity |-> identity, answer |-> "none"]]
    BY <1>9 DEF CallResolves
  <2>4. Verdict(i, type, identity, w) \in Answers
    BY DEF Verdict, Answer, Answers
  <2>5. calls' \in [Callers -> Calls]
    BY <2>3, <2>4 DEF TypeOK, Finish, Idle, Calls, Answers
  <2> QED
    BY <1>9, <2>1, <2>2, <2>5 DEF CallResolves, streamVars, TypeOK, StoreTypeOK
<1>10. ASSUME NEW c \in Callers, CallReplies(c) \/ CallFails(c)
       PROVE  TypeOK' /\ StoreStep
  <2>1. calls[c].phase = "replying" /\ calls[c].id \in Ids
    BY <1>10, BusyCall DEF CallReplies, CallFails
  <2>2. events' \in Seq(Event)
    BY <1>10, <2>1, PublishType DEF CallReplies, CallFails, TypeOK
  <2>3. calls' \in [Callers -> Calls]
    <3>1. CASE CallReplies(c)
      <4>1. calls' = [calls EXCEPT ![c].phase = "discarding", ![c].answer = "ok"]
        BY <3>1 DEF CallReplies
      <4> QED
        BY <4>1, <2>1, CallUpdate DEF Answers
    <3>2. CASE CallFails(c)
      <4>1. Finish(c, "error")
        BY <3>2 DEF CallFails
      <4> QED
        BY <4>1 DEF Finish, Idle, TypeOK, Calls, Answers
    <3> QED
      BY <1>10, <3>1, <3>2
  <2> QED
    BY <1>10, <2>2, <2>3 DEF CallReplies, CallFails, TypeOK, StoreTypeOK, storeVars
<1>11. ASSUME NEW c \in Callers, CallNotFound(c)
       PROVE  TypeOK' /\ StoreStep
  <2>1. calls' \in [Callers -> Calls]
    BY <1>11, CallUpdate DEF CallNotFound, Answers
  <2> QED
    BY <1>11, <2>1 DEF CallNotFound, streamVars, storeVars, TypeOK, StoreTypeOK
<1>12. ASSUME NEW c \in Callers, CallDiscards(c) \/ CallDatabaseFails(c)
       PROVE  TypeOK' /\ StoreStep
  <2>1. calls[c].id \in Ids /\ calls[c].answer \in Answers
    BY <1>12, BusyCall DEF CallDiscards, CallDatabaseFails
  <2>2. StoreTypeOK'
    BY <1>12, DiscardType
    DEF CallDiscards, CallDatabaseFails, TypeOK, StoreTypeOK, storeVars
  <2>3. calls' \in [Callers -> Calls] /\ acked' \subseteq Ids
    BY <1>12, <2>1
    DEF CallDiscards, CallDatabaseFails, Finish, Idle, TypeOK, Calls, Answers
  <2> QED
    BY <1>12, <2>1, <2>2, <2>3
    DEF CallDiscards, CallDatabaseFails, streamVars, TypeOK, StoreTypeOK
<1>13. CASE ListInterrupts
  <2>1. Swept \in SUBSET Overdue
    BY DEF Swept
  <2>2. StoreTypeOK'
    BY <1>13, BuryType DEF ListInterrupts, ListPending, TypeOK
  <2> QED
    BY <1>13, <2>1, <2>2 DEF ListInterrupts, ListPending, streamVars, TypeOK, StoreTypeOK
<1>14. CASE Restart
  <2>1. StoreTypeOK'
    BY <1>14, ReloadType DEF Restart, TypeOK
  <2>2. Idle \in Calls
    BY DEF Idle, Calls, Answers
  <2> QED
    BY <1>14, <2>1, <2>2 DEF Restart, TypeOK, StoreTypeOK
<1>15. CASE Tick
  BY <1>15 DEF Tick, streamVars, storeVars, TypeOK, StoreTypeOK
<1> QED
  BY <1>1, <1>2, <1>3, <1>4, <1>5, <1>6, <1>7, <1>8, <1>9, <1>10, <1>11,
     <1>12, <1>13, <1>14, <1>15
  DEF Next

-----------------------------------------------------------------------------
(***************************************************************************)
(* Every variable keeps to its type: the registry that two backends prune  *)
(* differently, the queue of events, the callbacks under way.              *)
(***************************************************************************)
THEOREM TypeSafety == Spec => []TypeOK
<1>1. TypeOK /\ [Next]_vars => TypeOK'
  BY StepTypes
<1> QED
  BY <1>1, InitType, PTL DEF Spec

-----------------------------------------------------------------------------
(* The tombstone window *)

LEMMA StoreStepKeepsPromise ==
  ASSUME StoreTypeOK, RowKeepsPromise, StoreStep
  PROVE  RowKeepsPromise'
<1> USE TTLAssumption, NoneIsOutside
<1>1. CASE now' \in {now, now + 1} /\ UNCHANGED storeVars
  BY <1>1 DEF RowKeepsPromise, RowKept, StoreTypeOK, storeVars
<1>2. ASSUME NEW S \in SUBSET Overdue, now' = now,
             requests' = RequestsWithout(S), tombstones' = TombstonesWith(S),
             UNCHANGED due
      PROVE  RowKeepsPromise'
  BY <1>2
  DEF RowKeepsPromise, RowKept, StoreTypeOK, RequestsWithout, TombstonesWith,
      PrunedTombstones, NewTombstone, Overdue, Bindings
<1>3. ASSUME NEW i \in Ids, now' = now, Remember(i, TypeOf[i], AskerOf[i])
      PROVE  RowKeepsPromise'
  <2>1. SUFFICES ASSUME NEW j \in Ids
                 PROVE  RowKept(j)'
    BY DEF RowKeepsPromise
  <2>2. CASE j = i
    <3>1. /\ requests'[j] = [interrupt_type |-> TypeOf[i], identity |-> AskerOf[i],
                             expires_at |-> now + RequestTTL]
          /\ tombstones'[j] = None
          /\ due'[j] = now + RequestTTL
      BY <1>3, <2>2 DEF Remember, RequestsWithout, TombstonesWith, StoreTypeOK
    <3>2. requests'[j] # None /\ requests'[j].expires_at = due'[j] /\ due'[j] # None
      BY <3>1, AskAssumption DEF StoreTypeOK, Types
    <3> QED
      BY <3>1, <3>2 DEF RowKept
  <2>3. CASE j # i
    <3>1. /\ requests'[j] = RequestsWithout(Swept)[j]
          /\ tombstones'[j] = TombstonesWith(Swept)[j]
          /\ due'[j] = due[j]
      BY <1>3, <2>3 DEF Remember, RequestsWithout, TombstonesWith, StoreTypeOK
    <3> QED
      BY <1>3, <3>1
      DEF RowKeepsPromise, RowKept, StoreTypeOK, RequestsWithout, TombstonesWith,
          PrunedTombstones, NewTombstone, Swept, Overdue, Bindings
  <2> QED
    BY <2>2, <2>3
<1>4. ASSUME NEW i \in Ids, now' = now, Discard(i)
      PROVE  RowKeepsPromise'
  BY <1>4 DEF RowKeepsPromise, RowKept, StoreTypeOK, Discard
<1>5. ASSUME now' = now, Reload
      PROVE  RowKeepsPromise'
  BY <1>5 DEF RowKeepsPromise, RowKept, StoreTypeOK, Reload, storeVars
<1> QED
  BY <1>1, <1>2, <1>3, <1>4, <1>5 DEF StoreStep, Bury

LEMMA PromiseMeansWindow ==
  ASSUME StoreTypeOK, RowKeepsPromise
  PROVE  TombstoneWindow
  BY TTLAssumption, NoneIsOutside
  DEF StoreTypeOK, RowKeepsPromise, RowKept, TombstoneWindow, Answer, PrunedTombstones,
      Overdue, Bindings

(***************************************************************************)
(* The documented window: for any two TTLs, any set of ids and either      *)
(* backend, a remembered question answers "active" up to its expiry and    *)
(* "expired" through the tombstone window, however the lazy pruning falls. *)
(***************************************************************************)
THEOREM WindowSafety == Spec => []TombstoneWindow
<1>1. Init => RowKeepsPromise
  BY DEF Init, StoreInit, RowKeepsPromise, RowKept
<1>2. TypeOK /\ RowKeepsPromise /\ [Next]_vars => RowKeepsPromise'
  BY StepTypes, StoreStepKeepsPromise DEF TypeOK
<1>3. TypeOK /\ RowKeepsPromise => TombstoneWindow
  BY PromiseMeansWindow DEF TypeOK
<1> QED
  BY <1>1, <1>2, <1>3, TypeSafety, PTL DEF Spec

-----------------------------------------------------------------------------
(* Callbacks and what the upstream asked *)

LEMMA StoreStepKeepsBindings ==
  ASSUME StoreTypeOK, BindingsMatchTheAsk, StoreStep
  PROVE  BindingsMatchTheAsk'
<1>1. CASE UNCHANGED storeVars
  BY <1>1 DEF BindingsMatchTheAsk, storeVars
<1>2. ASSUME NEW S \in SUBSET Overdue, requests' = RequestsWithout(S)
      PROVE  BindingsMatchTheAsk'
  BY <1>2 DEF BindingsMatchTheAsk, RequestsWithout
<1>3. ASSUME NEW i \in Ids, Remember(i, TypeOf[i], AskerOf[i])
      PROVE  BindingsMatchTheAsk'
  <2>1. SUFFICES ASSUME NEW j \in Ids, requests'[j] # None
                 PROVE  requests'[j].interrupt_type = TypeOf[j]
                        /\ requests'[j].identity = AskerOf[j]
    BY DEF BindingsMatchTheAsk
  <2>2. CASE j = i
    BY <1>3, <2>2 DEF Remember, RequestsWithout
  <2>3. CASE j # i
    <3>1. requests'[j] = RequestsWithout(Swept)[j]
      BY <1>3, <2>3 DEF Remember, RequestsWithout
    <3> QED
      BY <2>1, <3>1 DEF BindingsMatchTheAsk, RequestsWithout
  <2> QED
    BY <2>2, <2>3
<1>4. ASSUME NEW i \in Ids, Discard(i)
      PROVE  BindingsMatchTheAsk'
  BY <1>4 DEF BindingsMatchTheAsk, Discard, StoreTypeOK
<1>5. CASE Reload
  BY <1>5 DEF BindingsMatchTheAsk, Reload, storeVars
<1> QED
  BY <1>1, <1>2, <1>3, <1>4, <1>5 DEF StoreStep, Bury

LEMMA StepKeepsCallbacks ==
  ASSUME TypeOK, BindingsMatchTheAsk, CallbacksMatchTheAsk, [Next]_vars
  PROVE  CallbacksMatchTheAsk'
<1> DEFINE Matches(d) ==
      d.phase \in {"replying", "discarding"} =>
        d.type = TypeOf[d.id] /\ ~Differs(AskerOf[d.id], d.identity)
<1>0. (\A c \in Callers : Matches(calls[c])) <=> CallbacksMatchTheAsk
  BY DEF CallbacksMatchTheAsk
<1>1. SUFFICES ASSUME NEW d \in Callers
               PROVE  Matches(calls'[d])
  BY DEF CallbacksMatchTheAsk
<1>2. CASE calls' = calls
  BY <1>0, <1>2
<1>3. ASSUME NEW c \in Callers, NEW answer, Finish(c, answer)
      PROVE  Matches(calls'[d])
  BY <1>0, <1>3 DEF Finish, Idle, TypeOK
<1>4. ASSUME NEW c \in Callers, NEW answer, calls[c].phase = "replying",
             calls' = [calls EXCEPT ![c].phase = "discarding", ![c].answer = answer]
      PROVE  Matches(calls'[d])
  <2>1. calls[c] \in Calls
    BY DEF TypeOK
  <2>2. CASE d # c
    BY <1>0, <1>4, <2>2 DEF TypeOK
  <2>3. CASE d = c
    <3>1. calls'[c] = [calls[c] EXCEPT !.phase = "discarding", !.answer = answer]
      BY <1>4 DEF TypeOK
    <3>2. calls'[c].type = calls[c].type /\ calls'[c].id = calls[c].id
          /\ calls'[c].identity = calls[c].identity
      BY <2>1, <3>1 DEF Calls
    <3> QED
      BY <1>0, <1>4, <2>3, <3>2
  <2> QED
    BY <2>2, <2>3
<1>5. ASSUME NEW c \in Callers, NEW i \in Ids, NEW type \in Types,
             NEW identity \in Identities \cup {None},
             CallResolves(c, i, type, identity)
      PROVE  Matches(calls'[d])
  <2>1. PICK w \in BOOLEAN :
           IF Verdict(i, type, identity, w) # "none"
             THEN Finish(c, Verdict(i, type, identity, w))
             ELSE calls' = [calls EXCEPT ![c] =
                   [phase |-> "replying", id |-> i, type |-> type,
                    identity |-> identity, answer |-> "none"]]
    BY <1>5 DEF CallResolves
  <2>2. CASE Verdict(i, type, identity, w) # "none"
    BY <1>3, <2>1, <2>2
  <2>3. CASE Verdict(i, type, identity, w) = "none"
    <3>1. /\ requests[i] # None
          /\ requests[i].interrupt_type = type
          /\ ~Differs(requests[i].identity, identity)
      BY <2>3 DEF Verdict, Answer
    <3>2. type = TypeOf[i] /\ ~Differs(AskerOf[i], identity)
      BY <3>1 DEF BindingsMatchTheAsk
    <3>3. calls' = [calls EXCEPT ![c] =
                   [phase |-> "replying", id |-> i, type |-> type,
                    identity |-> identity, answer |-> "none"]]
      BY <2>1, <2>3
    <3> QED
      BY <1>0, <3>2, <3>3 DEF TypeOK
  <2> QED
    BY <2>2, <2>3
<1>6. CASE Restart
  BY <1>6 DEF Restart, Idle
<1>7. \/ calls' = calls
      \/ Restart
      \/ \E c \in Callers :
            \/ \E answer : Finish(c, answer)
            \/ /\ calls[c].phase = "replying"
               /\ \E answer : calls' = [calls EXCEPT ![c].phase = "discarding",
                                                    ![c].answer = answer]
            \/ \E i \in Ids, type \in Types, identity \in Identities \cup {None} :
                  CallResolves(c, i, type, identity)
  BY DEF Next, vars, streamVars, Ask, SettleElsewhere, StreamStarts, StreamAsked,
         StreamReplied, StreamEmits, StreamWriteFails, StreamBreaks,
         StreamReconnects, StreamEnds, CallReplies, CallNotFound, CallFails,
         CallDiscards, CallDatabaseFails, ListInterrupts, Tick
<1> QED
  BY <1>2, <1>3, <1>4, <1>5, <1>6, <1>7

(***************************************************************************)
(* No callback relays a reply of another type than was asked, or of        *)
(* another known identity than asked: the registry hands out what the      *)
(* consumer put in, so the check at the lookup is good for the relay.      *)
(***************************************************************************)
THEOREM CallbackSafety == Spec => []CallbacksMatchTheAsk
<1>1. Init => BindingsMatchTheAsk /\ CallbacksMatchTheAsk
  BY DEF Init, StoreInit, BindingsMatchTheAsk, CallbacksMatchTheAsk, Idle
<1>2. TypeOK /\ BindingsMatchTheAsk /\ [Next]_vars => BindingsMatchTheAsk'
  BY StepTypes, StoreStepKeepsBindings DEF TypeOK
<1>3. TypeOK /\ BindingsMatchTheAsk /\ CallbacksMatchTheAsk /\ [Next]_vars
        => CallbacksMatchTheAsk'
  BY StepKeepsCallbacks
<1> QED
  BY <1>1, <1>2, <1>3, TypeSafety, PTL DEF Spec

-----------------------------------------------------------------------------
(* What the client was told of is kept *)

(* The upstream never reopens a question, and publishes "replied" only     *)
(* when it closes one.                                                     *)
StaysClosed == \A i \in Ids : upstream[i] = "closed" => upstream'[i] = "closed"
QueueMove ==
    \/ events' = events \/ events' = <<>>
    \/ events # <<>> /\ events' = Tail(events)
    \/ \E i \in Ids :
          \/ Publish("asked", i)
          \/ Publish("replied", i) /\ upstream'[i] = "closed"

LEMMA QueueStep ==
  ASSUME TypeOK, [Next]_vars
  PROVE  StaysClosed /\ QueueMove
<1> USE DEF StaysClosed, QueueMove
<1>1. ASSUME NEW i \in Ids, Ask(i) \/ SettleElsewhere(i)
      PROVE  StaysClosed /\ QueueMove
  BY <1>1 DEF Ask, SettleElsewhere, TypeOK
<1>2. ASSUME NEW c \in Callers, CallReplies(c) \/ CallFails(c)
      PROVE  StaysClosed /\ QueueMove
  <2>1. calls[c].id \in Ids
    BY <1>2, BusyCall DEF CallReplies, CallFails
  <2> QED
    BY <1>2, <2>1 DEF CallReplies, CallFails, TypeOK
<1>3. \/ UNCHANGED <<upstream, events>>
      \/ upstream' = upstream /\ events' = <<>>
      \/ upstream' = upstream /\ events # <<>> /\ events' = Tail(events)
      \/ \E i \in Ids : Ask(i) \/ SettleElsewhere(i)
      \/ \E c \in Callers : CallReplies(c) \/ CallFails(c)
  BY DEF Next, vars, streamVars, StreamStarts, StreamAsked, StreamReplied,
         CanRead, StreamEmits, StreamWriteFails, StreamBreaks, StreamReconnects,
         StreamEnds, CallResolves, CallNotFound, CallDiscards,
         CallDatabaseFails, ListInterrupts, Restart, Tick
<1> QED
  BY <1>1, <1>2, <1>3

LEMMA StepKeepsDiscardOrder ==
  ASSUME TypeOK, DiscardsComeAfter, [Next]_vars
  PROVE  DiscardsComeAfter'
<1> DEFINE Told(e) == e.kind = "replied" => upstream'[e.id] = "closed"
<1>1. StaysClosed /\ QueueMove
  BY QueueStep
<1>2. ASSUME NEW k \in 1..Len(events)
      PROVE  Told(events[k])
  <2>1. events[k] \in Event
    BY DEF TypeOK
  <2> QED
    BY <1>1, <2>1 DEF DiscardsComeAfter, StaysClosed, Event
<1>3. \A k \in 1..Len(events') : Told(events'[k])
  <2>1. CASE events' = events
    BY <1>2, <2>1
  <2>2. CASE events' = <<>>
    BY <2>2
  <2>3. CASE events # <<>> /\ events' = Tail(events)
    BY <1>2, <2>3, HeadAndTail
  <2>4. ASSUME NEW i \in Ids, Publish("asked", i)
        PROVE  \A k \in 1..Len(events') : Told(events'[k])
    <3>1. Told([kind |-> "asked", id |-> i])
      OBVIOUS
    <3>2. \A k \in 1..Len(events') :
             \/ k \in 1..Len(events) /\ events'[k] = events[k]
             \/ events'[k] = [kind |-> "asked", id |-> i]
      BY <2>4, PublishType
    <3> HIDE DEF Told
    <3> QED
      BY <1>2, <3>1, <3>2
  <2>5. ASSUME NEW i \in Ids, Publish("replied", i), upstream'[i] = "closed"
        PROVE  \A k \in 1..Len(events') : Told(events'[k])
    <3>1. Told([kind |-> "replied", id |-> i])
      BY <2>5
    <3>2. \A k \in 1..Len(events') :
             \/ k \in 1..Len(events) /\ events'[k] = events[k]
             \/ events'[k] = [kind |-> "replied", id |-> i]
      BY <2>5, PublishType
    <3> HIDE DEF Told
    <3> QED
      BY <1>2, <3>1, <3>2
  <2> QED
    BY <1>1, <2>1, <2>2, <2>3, <2>4, <2>5 DEF QueueMove
<1>4. ASSUME NEW d \in Callers, calls'[d].phase = "discarding"
      PROVE  upstream'[calls'[d].id] = "closed"
  <2>1. CASE calls'[d] = calls[d]
    <3>1. calls[d].id \in Ids /\ upstream[calls[d].id] = "closed"
      BY <1>4, <2>1, BusyCall DEF DiscardsComeAfter
    <3> QED
      BY <1>1, <2>1, <3>1 DEF StaysClosed
  <2>2. CASE CallReplies(d) \/ CallNotFound(d)
    <3>1. calls[d].id \in Ids /\ calls[d] \in Calls
      BY <2>2, BusyCall DEF CallReplies, CallNotFound, TypeOK
    <3>2. calls'[d].id = calls[d].id
      BY <2>2, <3>1 DEF CallReplies, CallNotFound, TypeOK, Calls
    <3> QED
      BY <2>2, <3>1, <3>2 DEF CallReplies, CallNotFound, TypeOK
  <2>3. \/ calls'[d] = calls[d]
        \/ CallReplies(d) \/ CallNotFound(d)
    <3>1. ASSUME NEW c \in Callers, CallReplies(c) \/ CallNotFound(c)
          PROVE  calls'[d] = calls[d] \/ CallReplies(d) \/ CallNotFound(d)
      BY <3>1 DEF CallReplies, CallNotFound, TypeOK
    <3>2. ASSUME NEW c \in Callers, NEW answer, Finish(c, answer)
          PROVE  calls'[d] = calls[d]
      BY <1>4, <3>2 DEF Finish, Idle, TypeOK
    <3>3. ASSUME NEW c \in Callers, NEW i \in Ids, NEW type \in Types,
                 NEW identity \in Identities \cup {None},
                 CallResolves(c, i, type, identity)
          PROVE  calls'[d] = calls[d]
      <4>1. \/ \E answer : Finish(c, answer)
            \/ calls' = [calls EXCEPT ![c] =
                   [phase |-> "replying", id |-> i, type |-> type,
                    identity |-> identity, answer |-> "none"]]
        BY <3>3 DEF CallResolves
      <4> QED
        BY <1>4, <3>2, <4>1 DEF TypeOK
    <3>4. CASE Restart
      BY <1>4, <3>4 DEF Restart, Idle
    <3>5. \/ calls' = calls
          \/ Restart
          \/ \E c \in Callers :
                \/ \E answer : Finish(c, answer)
                \/ CallReplies(c) \/ CallNotFound(c)
                \/ \E i \in Ids, type \in Types,
                      identity \in Identities \cup {None} :
                      CallResolves(c, i, type, identity)
      BY DEF Next, vars, streamVars, Ask, SettleElsewhere, StreamStarts,
             StreamAsked, StreamReplied, StreamEmits, StreamWriteFails,
             StreamBreaks, StreamReconnects, StreamEnds, CallFails,
             CallDiscards, CallDatabaseFails, ListInterrupts, Tick
    <3> QED
      BY <3>1, <3>2, <3>3, <3>4, <3>5
  <2> QED
    BY <2>1, <2>2, <2>3
<1> QED
  BY <1>3, <1>4 DEF DiscardsComeAfter

(* The steps that can make the registry forget, and those that tell. *)
LEMMA StepKeepsTold ==
  ASSUME TypeOK, DiscardsComeAfter, ToldAreKept, [Next]_vars
  PROVE  ToldAreKept'
<1> DEFINE Told(i) == status[i] = "asked" \/ emitting = [id |-> i, state |-> "asked"]
<1>1. SUFFICES ASSUME NEW j \in Ids, upstream'[j] # "closed",
                      \/ status'[j] = "asked"
                      \/ emitting' = [id |-> j, state |-> "asked"]
               PROVE  due'[j] # None
  BY DEF ToldAreKept
<1>2. upstream[j] # "closed"
  BY <1>1, QueueStep DEF StaysClosed
<1>3. Told(j) => due[j] # None
  BY <1>2 DEF ToldAreKept
<1>4. CASE UNCHANGED <<status, emitting, due>>
  BY <1>1, <1>3, <1>4
<1>5. CASE UNCHANGED <<status, due>> /\ emitting' = None
  BY <1>1, <1>3, <1>5, NoneIsNoStatus
<1>6. ASSUME NEW i \in Ids, Remember(i, TypeOf[i], AskerOf[i]), status' = status,
             emitting' \in {emitting, [id |-> i, state |-> "asked"]}
      PROVE  due'[j] # None
  <2>1. now + RequestTTL # None /\ due \in [Ids -> Nat \cup {None}]
    BY TTLAssumption, NoneIsOutside DEF TypeOK, StoreTypeOK
  <2>2. CASE j = i
    BY <1>6, <2>1, <2>2 DEF Remember
  <2>3. CASE j # i
    BY <1>1, <1>3, <1>6, <2>1, <2>3 DEF Remember
  <2> QED
    BY <2>2, <2>3
<1>7. ASSUME NEW i \in Ids, Discard(i), status' = status, upstream[i] = "closed",
             emitting' \in {emitting, None, [id |-> i, state |-> "resolved"]}
      PROVE  due'[j] # None
  <2>1. j # i
    BY <1>2, <1>7
  <2>2. Told(j)
    BY <1>1, <1>7, <2>1, NoneIsNoStatus
  <2> QED
    BY <1>3, <1>7, <2>1, <2>2 DEF Discard, TypeOK, StoreTypeOK
<1>8. CASE StreamEmits
  <2>1. emitting' # [id |-> j, state |-> "asked"]
    BY <1>8, NoneIsNoStatus DEF StreamEmits
  <2>2. status'[j] = "asked" /\ emitting \in [id : Ids, state : {"asked", "resolved"}]
    BY <1>1, <1>8, <2>1 DEF StreamEmits, TypeOK
  <2>3. Told(j)
    BY <1>8, <2>2 DEF StreamEmits, TypeOK
  <2> QED
    BY <1>3, <1>8, <2>3 DEF StreamEmits, storeVars
<1>9. CASE Restart
  <2>1. emitting' # [id |-> j, state |-> "asked"]
    BY <1>9, NoneIsNoStatus DEF Restart
  <2>2. status'[j] = "asked"
    BY <1>1, <2>1
  <2>3. Backend = "database"
    BY <1>9, <2>2 DEF Restart
  <2> QED
    BY <1>3, <1>9, <2>2, <2>3 DEF Restart, Reload, storeVars
<1>10. CASE StreamAsked
  <2> DEFINE i == Head(events).id
  <2>1. i \in Ids
    BY <1>10, HeadAndTail DEF StreamAsked, CanRead
  <2>2. \/ UNCHANGED <<status, emitting, due>>
        \/ /\ Remember(i, TypeOf[i], AskerOf[i]) /\ status' = status
           /\ emitting' = [id |-> i, state |-> "asked"]
    BY <1>10 DEF StreamAsked, storeVars
  <2> QED
    BY <1>4, <1>6, <2>1, <2>2
<1>11. ASSUME CanRead("replied")
       PROVE  /\ Head(events).id \in Ids
              /\ upstream[Head(events).id] = "closed"
  BY <1>11, HeadAndTail DEF CanRead, DiscardsComeAfter
<1>12. CASE StreamReplied
  <2> DEFINE i == Head(events).id
  <2>1. i \in Ids /\ upstream[i] = "closed"
    BY <1>11, <1>12 DEF StreamReplied
  <2>2. /\ Discard(i) /\ status' = status
        /\ emitting' \in {None, [id |-> i, state |-> "resolved"]}
    BY <1>12 DEF StreamReplied
  <2> QED
    BY <1>7, <2>1, <2>2
<1>13. CASE StreamWriteFails
  <2> DEFINE i == Head(events).id
  <2>1. i \in Ids
    BY <1>13, HeadAndTail DEF StreamWriteFails, CanRead
  <2>2. status' = status /\ emitting' = emitting
    BY <1>13 DEF StreamWriteFails
  <2>3. \/ UNCHANGED storeVars
        \/ Remember(i, TypeOf[i], AskerOf[i])
        \/ CanRead("replied") /\ Discard(i)
    BY <1>13 DEF StreamWriteFails
  <2>4. CASE UNCHANGED storeVars
    BY <1>4, <2>2, <2>4 DEF storeVars
  <2>5. CASE Remember(i, TypeOf[i], AskerOf[i])
    BY <1>6, <2>1, <2>2, <2>5
  <2>6. CASE CanRead("replied") /\ Discard(i)
    BY <1>7, <1>11, <2>1, <2>2, <2>6
  <2> QED
    BY <2>3, <2>4, <2>5, <2>6
<1>14. ASSUME NEW c \in Callers, CallDiscards(c) \/ CallDatabaseFails(c)
       PROVE  due'[j] # None
  <2>1. calls[c].id \in Ids /\ upstream[calls[c].id] = "closed"
    BY <1>14, BusyCall DEF CallDiscards, CallDatabaseFails, DiscardsComeAfter
  <2>2. status' = status /\ emitting' = emitting
    BY <1>14 DEF CallDiscards, CallDatabaseFails, streamVars
  <2>3. UNCHANGED storeVars \/ Discard(calls[c].id)
    BY <1>14 DEF CallDiscards, CallDatabaseFails
  <2> QED
    BY <1>4, <1>7, <2>1, <2>2, <2>3 DEF storeVars
<1>15. \/ UNCHANGED <<status, emitting, due>>
       \/ UNCHANGED <<status, due>> /\ emitting' = None
       \/ StreamEmits \/ Restart \/ StreamAsked \/ StreamReplied
       \/ StreamWriteFails
       \/ \E c \in Callers : CallDiscards(c) \/ CallDatabaseFails(c)
  BY DEF Next, vars, streamVars, storeVars, Ask, SettleElsewhere, StreamStarts,
         StreamBreaks, StreamReconnects, StreamEnds, CallResolves, Resolve,
         CallReplies, CallNotFound, CallFails, ListInterrupts, ListPending, Tick
<1> QED
  BY <1>4, <1>5, <1>8, <1>9, <1>10, <1>12, <1>13, <1>14, <1>15

(***************************************************************************)
(* A question the client was told of stays answerable: nothing but the end *)
(* of its TTL, the upstream's own answer or (in memory) a restart takes it *)
(* out of the registry.                                                    *)
(***************************************************************************)
THEOREM AnnouncedSafety == Spec => []AnnouncedAreAnswerable
<1>1. Init => DiscardsComeAfter /\ ToldAreKept
  BY NoneIsNoStatus
  DEF Init, StoreInit, DiscardsComeAfter, ToldAreKept, Idle
<1>2. TypeOK /\ DiscardsComeAfter /\ [Next]_vars => DiscardsComeAfter'
  BY StepKeepsDiscardOrder
<1>3. TypeOK /\ DiscardsComeAfter /\ ToldAreKept /\ [Next]_vars => ToldAreKept'
  BY StepKeepsTold
<1>4. ToldAreKept /\ TombstoneWindow => AnnouncedAreAnswerable
  BY DEF ToldAreKept, TombstoneWindow, AnnouncedAreAnswerable
<1> QED
  BY <1>1, <1>2, <1>3, <1>4, TypeSafety, WindowSafety, PTL DEF Spec

-----------------------------------------------------------------------------
(* What was answered stays forgotten *)

(* The registry takes up an id only from an event about it. *)
LEMMA RememberedFromEvent ==
  ASSUME TypeOK, [Next]_vars, NEW j \in Ids, due[j] = None, due'[j] # None
  PROVE  /\ StreamAsked \/ StreamWriteFails
         /\ CanRead("asked") /\ Head(events).id = j /\ j \notin pending
<1>1. ASSUME NEW i, Discard(i) PROVE FALSE
  BY <1>1 DEF Discard, TypeOK, StoreTypeOK
<1>2. ASSUME NEW i, Remember(i, TypeOf[i], AskerOf[i]) PROVE i = j
  BY <1>2 DEF Remember, TypeOK, StoreTypeOK
<1>3. ~Restart
  BY DEF Restart, Reload, storeVars
<1>4. \/ StreamAsked \/ StreamReplied \/ StreamWriteFails
      \/ \E c \in Callers : CallDiscards(c) \/ CallDatabaseFails(c)
  BY <1>3
  DEF Next, vars, streamVars, storeVars, Ask, SettleElsewhere, StreamStarts,
      StreamEmits, StreamBreaks, StreamReconnects, StreamEnds, CallResolves, Resolve,
      CallReplies, CallNotFound, CallFails, ListInterrupts, ListPending, Tick
<1>5. ~StreamReplied /\ \A c \in Callers : ~CallDiscards(c) /\ ~CallDatabaseFails(c)
  BY <1>1 DEF StreamReplied, CallDiscards, CallDatabaseFails, storeVars
<1>6. CASE StreamAsked
  BY <1>2, <1>6 DEF StreamAsked, storeVars
<1>7. CASE StreamWriteFails
  BY <1>1, <1>2, <1>7 DEF StreamWriteFails, storeVars
<1> QED
  BY <1>4, <1>5, <1>6, <1>7

(* A callback takes up an id only if the registry has it. *)
LEMMA CalledFromBinding ==
  ASSUME TypeOK, [Next]_vars, NEW j \in Ids, NEW d \in Callers,
         calls[d].id # j, calls'[d].id = j
  PROVE  requests[j] # None
<1>1. j # None
  BY NoneIsOutside
<1>2. ASSUME NEW c \in Callers, NEW answer, Finish(c, answer) PROVE FALSE
  BY <1>1, <1>2 DEF Finish, Idle, TypeOK
<1>3. ASSUME NEW c \in Callers, CallReplies(c) \/ CallNotFound(c) PROVE FALSE
  <2>1. calls[c] \in Calls /\ calls[c].id \in Ids
    BY <1>3, BusyCall DEF CallReplies, CallNotFound, TypeOK
  <2>2. calls'[d] = calls[d] \/ (calls'[d].id = calls[c].id /\ c = d)
    BY <1>3, <2>1 DEF CallReplies, CallNotFound, TypeOK, Calls
  <2> QED
    BY <2>2
<1>4. ~Restart
  BY <1>1 DEF Restart, Idle
<1>5. ASSUME NEW c \in Callers, NEW i \in Ids, NEW type \in Types,
             NEW identity \in Identities \cup {None},
             CallResolves(c, i, type, identity)
      PROVE  requests[j] # None
  <2>1. PICK wellFormed \in BOOLEAN :
          /\ Verdict(i, type, identity, wellFormed) = "none"
          /\ calls' = [calls EXCEPT ![c] =
                [phase |-> "replying", id |-> i, type |-> type,
                 identity |-> identity, answer |-> "none"]]
    BY <1>2, <1>5 DEF CallResolves
  <2>2. i = j
    BY <2>1 DEF TypeOK
  <2>3. Answer(i) = "active"
    BY <2>1 DEF Verdict, Answer
  <2> QED
    BY <2>2, <2>3 DEF Answer
<1>6. \/ calls' = calls \/ Restart
      \/ \E c \in Callers :
            \/ \E answer : Finish(c, answer)
            \/ CallReplies(c) \/ CallNotFound(c)
            \/ \E i \in Ids, type \in Types, identity \in Identities \cup {None} :
                  CallResolves(c, i, type, identity)
  BY DEF Next, vars, streamVars, Ask, SettleElsewhere, StreamStarts,
         StreamAsked, StreamReplied, StreamEmits, StreamWriteFails,
         StreamBreaks, StreamReconnects, StreamEnds, CallFails,
         CallDiscards, CallDatabaseFails, ListInterrupts, Tick
<1> QED
  BY <1>2, <1>3, <1>4, <1>5, <1>6

LEMMA AckedAreDiscarded ==
  ASSUME TypeOK, [Next]_vars, NEW j \in acked' \ acked
  PROVE  /\ \E c \in Callers : calls[c].id = j
         /\ j \in Ids /\ due'[j] = None
<1>1. PICK c \in Callers : CallDiscards(c)
  BY DEF Next, vars, streamVars, Ask, SettleElsewhere, StreamStarts, StreamAsked,
         StreamReplied, StreamEmits, StreamWriteFails, StreamBreaks, StreamReconnects,
         StreamEnds, CallResolves, CallReplies, CallNotFound, CallFails,
         CallDatabaseFails, ListInterrupts, Restart, Tick
<1>2. calls[c].id \in Ids /\ calls[c].id = j
  BY <1>1, BusyCall DEF CallDiscards
<1> QED
  BY <1>1, <1>2 DEF CallDiscards, Discard, TypeOK, StoreTypeOK

(* What is unheard of is heard of by reading the event. *)
UnheardAfter(i) ==
    /\ due'[i] = None /\ i \notin acked'
    /\ \A c \in Callers : calls'[c].id # i

LEMMA HeardFromEvent ==
  ASSUME TypeOK, RowKeepsPromise, [Next]_vars, NEW j \in Ids, Unheard(j), ~UnheardAfter(j)
  PROVE  /\ StreamAsked \/ StreamWriteFails
         /\ CanRead("asked") /\ Head(events).id = j
<1>1. requests[j] = None
  BY DEF RowKeepsPromise, RowKept, Unheard
<1>2. \A c \in Callers : calls'[c].id # j
  BY <1>1, CalledFromBinding DEF Unheard
<1>3. j \notin acked'
  BY AckedAreDiscarded DEF Unheard
<1>4. due'[j] # None
  BY <1>2, <1>3 DEF UnheardAfter
<1> QED
  BY <1>4, RememberedFromEvent DEF Unheard

(* How the queue moves, and the marks with it. *)
QueueMarks ==
    \/ events' = events /\ pending' = pending /\ ~StreamAsked /\ ~StreamWriteFails
    \/ events' = <<>>
    \/ StreamAsked \/ StreamReplied
    \/ pending' = pending /\ \E i \in Ids :
          \/ Publish("asked", i) /\ upstream[i] = "none" /\ upstream'[i] = "open"
          \/ Publish("replied", i)

LEMMA QueueMarksStep ==
  ASSUME TypeOK, [Next]_vars
  PROVE  /\ QueueMarks
         /\ \A i \in Ids : upstream[i] # "none" => upstream'[i] # "none"
<1> USE DEF QueueMarks
<1> DEFINE Goal == /\ QueueMarks
                   /\ \A i \in Ids : upstream[i] # "none" => upstream'[i] # "none"
<1>1. ASSUME NEW i \in Ids, Ask(i) \/ SettleElsewhere(i) PROVE Goal
  BY <1>1 DEF Ask, SettleElsewhere, TypeOK
<1>2. ASSUME NEW c \in Callers, CallReplies(c) \/ CallFails(c) PROVE Goal
  <2>1. calls[c].id \in Ids
    BY <1>2, BusyCall DEF CallReplies, CallFails
  <2>2. \A i \in Ids : upstream[i] # "none" => upstream'[i] # "none"
    BY <1>2, <2>1 DEF CallReplies, CallFails, TypeOK
  <2>3. /\ pending' = pending
        /\ events' = events \/ \E i \in Ids : Publish("replied", i)
    BY <1>2, <2>1 DEF CallReplies, CallFails
  <2>4. calls' # calls
    <3>1. calls[c] \in Calls /\ calls[c].phase = "replying"
      BY <1>2 DEF CallReplies, CallFails, TypeOK
    <3>2. CASE CallReplies(c)
      <4>1. calls'[c].phase = "discarding"
        BY <3>1, <3>2 DEF CallReplies, TypeOK, Calls
      <4> QED
        BY <3>1, <4>1
    <3>3. CASE CallFails(c)
      <4>1. calls'[c].phase = "idle"
        BY <3>3 DEF CallFails, Finish, Idle, TypeOK
      <4> QED
        BY <3>1, <4>1
    <3> QED
      BY <1>2, <3>2, <3>3
  <2>5. ~StreamAsked /\ ~StreamWriteFails
    BY <2>4 DEF StreamAsked, StreamWriteFails
  <2> QED
    BY <2>2, <2>3, <2>5
<1>3. CASE StreamAsked \/ StreamReplied
  BY <1>3 DEF StreamAsked, StreamReplied
<1>4. CASE upstream' = upstream /\ events' = <<>>
  BY <1>4
<1>5. CASE UNCHANGED <<upstream, events, pending>> /\ ~StreamAsked /\ ~StreamWriteFails
  BY <1>5
<1>6. StreamWriteFails => upstream' = upstream /\ events' = <<>>
  BY DEF StreamWriteFails
<1>7. \/ UNCHANGED <<upstream, events, pending>>
      \/ upstream' = upstream /\ events' = <<>>
      \/ StreamAsked \/ StreamReplied
      \/ \E i \in Ids : Ask(i) \/ SettleElsewhere(i)
      \/ \E c \in Callers : CallReplies(c) \/ CallFails(c)
  BY DEF Next, vars, streamVars, StreamStarts, StreamEmits, StreamWriteFails,
         StreamBreaks, StreamReconnects, StreamEnds, CallResolves, CallNotFound,
         CallDiscards, CallDatabaseFails, ListInterrupts, Restart, Tick
<1> QED
  BY <1>1, <1>2, <1>3, <1>4, <1>5, <1>6, <1>7

LEMMA StepKeepsAsks ==
  ASSUME TypeOK, DiscardsComeAfter, RowKeepsPromise, AsksComeFirst, [Next]_vars
  PROVE  AsksComeFirst'
<1>0. /\ QueueMarks
      /\ \A i \in Ids : upstream[i] # "none" => upstream'[i] # "none"
  BY QueueMarksStep
<1>1. ASSUME CanRead("asked")
      PROVE  LET i == Head(events).id
             IN  i \in Ids /\ upstream[i] # "none" /\ (i \in pending \/ Unheard(i))
  BY <1>1, HeadAndTail DEF CanRead, AsksComeFirst
<1>2. ASSUME NEW i \in Ids, upstream'[i] = "none"
      PROVE  UnheardAfter(i)
  <2>1. upstream[i] = "none" /\ Unheard(i)
    BY <1>0, <1>2 DEF AsksComeFirst
  <2> QED
    BY <1>1, <2>1, HeardFromEvent
<1>3. ASSUME NEW i \in acked' PROVE due'[i] = None
  <2>1. CASE i \in acked
    <3>1. i \in Ids /\ due[i] = None /\ ~Unheard(i)
      BY <2>1 DEF AsksComeFirst, TypeOK, Unheard
    <3> QED
      BY <1>1, <3>1, RememberedFromEvent
  <2>2. CASE i \notin acked
    BY <2>2, AckedAreDiscarded
  <2> QED
    BY <2>1, <2>2
(* The queue. *)
<1> DEFINE Fresh(e) == e.kind = "asked" => /\ upstream'[e.id] # "none"
                                           /\ e.id \in pending' \/ UnheardAfter(e.id)
           Apart(d, e) == d.kind = "replied" /\ e.kind = "asked" => d.id # e.id
<1>4. \A k \in 1..Len(events) : events[k] \in Event /\ events[k].id \in Ids
  <2>1. \A k \in 1..Len(events) : events[k] \in Event
    BY DEF TypeOK
  <2> QED
    BY <2>1 DEF Event
<1>5. \A j, k \in 1..Len(events) : j < k => Apart(events[j], events[k])
  BY DEF AsksComeFirst
<1>6. ASSUME NEW k \in 1..Len(events), events[k].kind = "asked"
      PROVE  /\ upstream'[events[k].id] # "none"
             /\ events[k].id \in pending \/ Unheard(events[k].id)
  BY <1>0, <1>4, <1>6 DEF AsksComeFirst
<1>7. ASSUME /\ \A k \in 1..Len(events') : Fresh(events'[k])
             /\ \A j, k \in 1..Len(events') : j < k => Apart(events'[j], events'[k])
      PROVE  AsksComeFirst'
  BY <1>2, <1>3, <1>7 DEF AsksComeFirst, Unheard, UnheardAfter
<1> DEFINE Kept == /\ \A k \in 1..Len(events') : Fresh(events'[k])
                   /\ \A j, k \in 1..Len(events') :
                         j < k => Apart(events'[j], events'[k])
<1>8. ASSUME ~StreamAsked, ~StreamWriteFails, pending' = pending,
             NEW k \in 1..Len(events)
      PROVE  Fresh(events[k])
  BY <1>4, <1>6, <1>8, HeardFromEvent
<1>9. CASE events' = events /\ pending' = pending /\ ~StreamAsked /\ ~StreamWriteFails
  <2> HIDE DEF Fresh, Apart
  <2>1. Kept
    BY <1>5, <1>8, <1>9
  <2> QED
    BY <1>7, <2>1
<1>10. CASE events' = <<>>
  <2>1. Kept
    BY <1>10
  <2> QED
    BY <1>7, <2>1
<1>11. CASE StreamAsked \/ StreamReplied
  <2> DEFINE i == Head(events).id
  <2>1. /\ events # <<>> /\ events' = Tail(events)
        /\ \/ StreamAsked /\ pending' = pending \cup {i}
           \/ CanRead("replied") /\ pending' = pending \ {i}
    BY <1>11 DEF StreamAsked, StreamReplied, CanRead, MarkPending, ClearPending
  <2>2. /\ Head(events) = events[1] /\ 1 \in 1..Len(events)
        /\ \A k \in 1..Len(events') : /\ events'[k] = events[k + 1]
                                      /\ k + 1 \in 1..Len(events)
    BY <2>1, HeadAndTail
  <2>3. ASSUME NEW k \in 1..Len(events') PROVE Fresh(events'[k])
    <3> SUFFICES ASSUME events'[k].kind = "asked" PROVE Fresh(events'[k])
      OBVIOUS
    <3> DEFINE e == events'[k]
    <3>1. /\ e = events[k + 1] /\ k + 1 \in 1..Len(events) /\ 1 < k + 1 /\ e.id \in Ids
      BY <1>4, <2>2
    <3>2. upstream'[e.id] # "none" /\ (e.id \in pending \/ Unheard(e.id))
      BY <1>6, <3>1
    <3>3. CanRead("replied") => e.id # i
      BY <1>5, <2>2, <3>1 DEF CanRead
    <3>4. e.id = i \/ (Unheard(e.id) => UnheardAfter(e.id))
      BY <3>1, HeardFromEvent
    <3> HIDE DEF e, i
    <3>5. e.id \in pending' \/ UnheardAfter(e.id)
      BY <2>1, <3>2, <3>3, <3>4
    <3> QED
      BY <3>2, <3>5 DEF e
  <2>4. ASSUME NEW j \in 1..Len(events'), NEW k \in 1..Len(events'), j < k
        PROVE  Apart(events'[j], events'[k])
    <3>1. j + 1 < k + 1 /\ j + 1 \in 1..Len(events) /\ k + 1 \in 1..Len(events)
      BY <2>2, <2>4
    <3> HIDE DEF Apart
    <3> QED
      BY <1>5, <2>2, <3>1
  <2> HIDE DEF Fresh, Apart
  <2>5. Kept
    BY <2>3, <2>4
  <2> QED
    BY <1>7, <2>5
<1>12. ASSUME NEW i \in Ids, NEW kind \in {"asked", "replied"}, Publish(kind, i),
              pending' = pending, ~StreamAsked, ~StreamWriteFails,
              kind = "asked" => upstream[i] = "none" /\ upstream'[i] = "open"
       PROVE  Kept
  <2> DEFINE e == [kind |-> kind, id |-> i]
  <2>1. /\ events' \in Seq(Event)
        /\ \A k \in 1..Len(events) : k \in 1..Len(events') /\ events'[k] = events[k]
        /\ \A k \in 1..Len(events') : k \notin 1..Len(events) => events'[k] = e
    BY <1>12, PublishType
  <2>2. Fresh(e)
    <3>1. upstream[i] = "none" => UnheardAfter(i)
      BY <1>1, <1>12, HeardFromEvent DEF AsksComeFirst
    <3> QED
      BY <1>12, <3>1
  <2>3. \A k \in 1..Len(events) : Apart(events[k], e)
    BY <1>4, <1>12 DEF DiscardsComeAfter
  <2>4. \A k \in 1..Len(events) : Fresh(events[k])
    BY <1>8, <1>12
  <2>5. Apart(e, e)
    OBVIOUS
  <2> HIDE DEF Fresh, Apart, e
  <2>6. \A k \in 1..Len(events') : Fresh(events'[k])
    BY <2>1, <2>2, <2>4
  <2>7. ASSUME NEW j \in 1..Len(events'), NEW k \in 1..Len(events'), j < k
        PROVE  Apart(events'[j], events'[k])
    <3>1. k \in 1..Len(events) => j \in 1..Len(events)
      BY <2>7, <2>1 DEF TypeOK
    <3> QED
      BY <1>5, <2>1, <2>3, <2>5, <2>7, <3>1
  <2> QED
    BY <2>6, <2>7
<1>13. ASSUME NEW i \in Ids, NEW kind \in {"asked", "replied"}, Publish(kind, i),
              StreamAsked \/ StreamWriteFails
       PROVE  events' = <<>> \/ StreamAsked
  BY <1>13 DEF StreamWriteFails
<1>14. CASE /\ pending' = pending
            /\ \E i \in Ids :
                  \/ Publish("asked", i) /\ upstream[i] = "none" /\ upstream'[i] = "open"
                  \/ Publish("replied", i)
  <2>1. PICK i \in Ids, kind \in {"asked", "replied"} :
           /\ Publish(kind, i)
           /\ kind = "asked" => upstream[i] = "none" /\ upstream'[i] = "open"
    BY <1>14
  <2>2. CASE ~StreamAsked /\ ~StreamWriteFails
    <3> HIDE DEF Kept
    <3>1. Kept
      BY <1>12, <1>14, <2>1, <2>2
    <3> QED
      BY <1>7, <3>1 DEF Kept
  <2> HIDE DEF Fresh, Apart
  <2> QED
    BY <1>10, <1>11, <1>13, <2>1, <2>2
<1> HIDE DEF Fresh, Apart, Kept
<1> QED
  BY <1>0, <1>9, <1>10, <1>11, <1>14 DEF QueueMarks

(***************************************************************************)
(* A reply that was answered "ok" is the end of its question: whatever is  *)
(* delivered twice or late, whichever consumer reads it, whatever fails or *)
(* restarts, a second reply hears "missing".                               *)
(***************************************************************************)
THEOREM AnsweredSafety == Spec => []AnsweredStayForgotten
<1>1. Init => RowKeepsPromise /\ DiscardsComeAfter /\ AsksComeFirst
  BY NoneIsOutside, NoneIsNoStatus
  DEF Init, StoreInit, RowKeepsPromise, RowKept, DiscardsComeAfter, AsksComeFirst,
      Unheard, Idle
<1>2. TypeOK /\ RowKeepsPromise /\ [Next]_vars => RowKeepsPromise'
  BY StepTypes, StoreStepKeepsPromise DEF TypeOK
<1>3. TypeOK /\ DiscardsComeAfter /\ [Next]_vars => DiscardsComeAfter'
  BY StepKeepsDiscardOrder
<1>4. TypeOK /\ RowKeepsPromise /\ DiscardsComeAfter /\ AsksComeFirst /\ [Next]_vars
        => AsksComeFirst'
  BY StepKeepsAsks
<1>5. TypeOK /\ RowKeepsPromise /\ AsksComeFirst => AnsweredStayForgotten
  BY DEF TypeOK, StoreTypeOK, RowKeepsPromise, RowKept, AsksComeFirst,
         AnsweredStayForgotten, Answer, PrunedTombstones
<1> QED
  BY <1>1, <1>2, <1>3, <1>4, <1>5, TypeSafety, PTL DEF Spec

-----------------------------------------------------------------------------
(* What the client is told is resolved *)

LEMMA StepKeepsMarks ==
  ASSUME Backend = "memory", TypeOK, MarksAreAnnounced, [Next]_vars
  PROVE  MarksAreAnnounced'
<1>1. CASE UNCHANGED <<pending, status, emitting>>
  BY <1>1 DEF MarksAreAnnounced
<1>2. CASE pending' = {} /\ emitting' = None
  BY <1>2, NoneIsNoStatus DEF MarksAreAnnounced
<1>3. CASE StreamAsked
  <2> DEFINE i == Head(events).id
  <2>1. i \in Ids /\ emitting = None /\ status' = status /\ pending' = pending \cup {i}
    BY <1>3, HeadAndTail DEF StreamAsked, CanRead, MarkPending
  <2>2. emitting' = IF i \in pending THEN None ELSE [id |-> i, state |-> "asked"]
    BY <1>3, <2>1 DEF StreamAsked
  <2>3. \A j \in pending : status[j] = "asked"
    BY <2>1, NoneIsNoStatus DEF MarksAreAnnounced, TypeOK
  <2> HIDE DEF i
  <2> QED
    BY <2>1, <2>2, <2>3 DEF MarksAreAnnounced
<1>4. CASE StreamReplied
  <2> DEFINE i == Head(events).id
  <2>1. i \in Ids /\ emitting = None /\ status' = status /\ pending' = pending \ {i}
    BY <1>4, HeadAndTail DEF StreamReplied, CanRead, ClearPending
  <2>2. emitting' = IF i \in pending THEN [id |-> i, state |-> "resolved"] ELSE None
    BY <1>4 DEF StreamReplied
  <2>3. \A j \in pending : status[j] = "asked"
    BY <2>1, NoneIsNoStatus DEF MarksAreAnnounced, TypeOK
  <2> HIDE DEF i
  <2> QED
    BY <2>1, <2>2, <2>3 DEF MarksAreAnnounced
<1>5. CASE StreamEmits
  <2>1. /\ emitting \in [id : Ids, state : {"asked", "resolved"}]
        /\ status' = [status EXCEPT ![emitting.id] = emitting.state]
        /\ emitting' = None /\ pending' = pending
    BY <1>5 DEF StreamEmits, TypeOK
  <2>2. ASSUME NEW j \in pending PROVE status'[j] = "asked"
    BY <1>5, <2>1 DEF MarksAreAnnounced, StreamEmits, TypeOK
  <2> QED
    BY <2>1, <2>2 DEF MarksAreAnnounced
<1>6. ~StreamWriteFails
  BY DEF StreamWriteFails
<1> QED
  BY <1>1, <1>2, <1>3, <1>4, <1>5, <1>6
  DEF Next, vars, streamVars, Ask, SettleElsewhere, StreamStarts, StreamBreaks,
      StreamReconnects, StreamEnds, CallResolves, CallReplies, CallNotFound, CallFails,
      CallDiscards, CallDatabaseFails, ListInterrupts, Restart, Tick

(* A question that is over stays over: the upstream reopens none, and asks *)
(* under an id it never used before.                                       *)
Over(i) ==
    /\ upstream[i] = "closed"
    /\ \A k \in 1..Len(events) : events[k].kind = "asked" => events[k].id # i

LEMMA OverStays ==
  ASSUME TypeOK, [Next]_vars, NEW i \in Ids, Over(i)
  PROVE  Over(i)'
<1> DEFINE Other(e) == e.kind = "asked" => e.id # i
<1>1. upstream'[i] = "closed" /\ QueueMarks
  BY QueueStep, QueueMarksStep DEF StaysClosed, Over
<1>2. \A k \in 1..Len(events) : Other(events[k])
  BY DEF Over
<1>3. ASSUME NEW j \in Ids, Publish("asked", j), upstream[j] = "none"
      PROVE  \A k \in 1..Len(events') : Other(events'[k])
  <2>1. Other([kind |-> "asked", id |-> j])
    BY <1>3 DEF Over
  <2>2. \A k \in 1..Len(events') : \/ k \in 1..Len(events) /\ events'[k] = events[k]
                                   \/ events'[k] = [kind |-> "asked", id |-> j]
    BY <1>3, PublishType
  <2> HIDE DEF Other
  <2> QED
    BY <1>2, <2>1, <2>2
<1>4. ASSUME NEW j \in Ids, Publish("replied", j)
      PROVE  \A k \in 1..Len(events') : Other(events'[k])
  <2>1. Other([kind |-> "replied", id |-> j])
    OBVIOUS
  <2>2. \A k \in 1..Len(events') : \/ k \in 1..Len(events) /\ events'[k] = events[k]
                                   \/ events'[k] = [kind |-> "replied", id |-> j]
    BY <1>4, PublishType
  <2> HIDE DEF Other
  <2> QED
    BY <1>2, <2>1, <2>2
<1>5. CASE StreamAsked \/ StreamReplied
  <2>1. events # <<>> /\ events' = Tail(events)
    BY <1>5 DEF StreamAsked, StreamReplied, CanRead
  <2> HIDE DEF Other
  <2>2. \A k \in 1..Len(events') : Other(events'[k])
    BY <1>2, <2>1, HeadAndTail
  <2> QED
    BY <1>1, <2>2 DEF Over, Other
<1>6. CASE ~StreamAsked /\ ~StreamReplied
  <2> HIDE DEF Other
  <2>1. \A k \in 1..Len(events') : Other(events'[k])
    <3>1. CASE events' = <<>>
      BY <3>1
    <3> QED
      BY <1>1, <1>2, <1>3, <1>4, <1>6, <3>1 DEF QueueMarks
  <2> QED
    BY <1>1, <2>1 DEF Over, Other
<1> QED
  BY <1>5, <1>6

(* What the client sees changes by the consumer, or a restart forgets it. *)
LEMMA StatusStep ==
  ASSUME [Next]_vars
  PROVE  \/ UNCHANGED <<status, emitting>>
         \/ status' = status /\ emitting' = None
         \/ StreamAsked \/ StreamReplied \/ StreamEmits \/ Restart
  BY
  DEF Next, vars, streamVars, Ask, SettleElsewhere, StreamStarts, StreamBreaks,
      StreamReconnects, StreamEnds, StreamWriteFails, CallResolves, CallReplies,
      CallNotFound, CallFails, CallDiscards, CallDatabaseFails, ListInterrupts, Tick

LEMMA StepKeepsResolved ==
  ASSUME Backend = "memory", TypeOK, DiscardsComeAfter, AsksComeFirst, ResolvedAreOver,
         [Next]_vars
  PROVE  ResolvedAreOver'
<1> DEFINE Ends(i) == status[i] = "resolved" \/ emitting = [id |-> i, state |-> "resolved"]
           Begins(i) == emitting = [id |-> i, state |-> "asked"]
<1>1. \A i \in Ids : (Ends(i) => Over(i)) /\ (Begins(i) => status[i] # "resolved")
  BY DEF ResolvedAreOver, Over
<1>2. ASSUME \A i \in Ids : Ends(i)' => Ends(i) \/ Over(i)',
             \A i \in Ids : Begins(i)' => status'[i] # "resolved"
      PROVE  ResolvedAreOver'
  <2>1. \A i \in Ids : Ends(i)' => Over(i)'
    <3> HIDE DEF Ends
    <3> QED
      BY <1>1, <1>2, OverStays
  <2> QED
    BY <1>2, <2>1 DEF ResolvedAreOver, Over
<1>3. CASE UNCHANGED <<status, emitting>>
  BY <1>1, <1>2, <1>3
<1>4. CASE status' = status /\ emitting' = None
  BY <1>1, <1>2, <1>4, NoneIsNoStatus
<1>5. CASE StreamAsked
  <2> DEFINE h == Head(events).id
  <2>1. h \in Ids /\ ~Over(h)
    BY <1>5, HeadAndTail DEF StreamAsked, CanRead, Over
  <2>2. status' = status /\ emitting' \in {emitting, [id |-> h, state |-> "asked"]}
    BY <1>5 DEF StreamAsked
  <2> HIDE DEF h
  <2>3. \A i \in Ids : Ends(i)' => Ends(i)
    BY <2>2
  <2>4. \A i \in Ids : Begins(i)' => i = h \/ Begins(i)
    BY <2>2
  <2>5. status[h] # "resolved"
    BY <1>1, <2>1
  <2> QED
    BY <1>1, <1>2, <2>2, <2>3, <2>4, <2>5
<1>6. CASE StreamReplied
  <2>0. PICK h \in Ids : h = Head(events).id
    BY <1>6, HeadAndTail DEF StreamReplied, CanRead
  <2>1. /\ upstream[h] = "closed" /\ events' = Tail(events)
        /\ upstream' = upstream
    BY <1>6, <2>0, HeadAndTail DEF StreamReplied, CanRead, DiscardsComeAfter
  <2>2. status' = status /\ emitting' \in {None, [id |-> h, state |-> "resolved"]}
    BY <1>6, <2>0 DEF StreamReplied
  <2>3. \A k \in 1..Len(events') : events'[k].kind = "asked" => events'[k].id # h
    <3>1. /\ events # <<>> /\ Head(events) = events[1] /\ events[1].kind = "replied"
          /\ 1 \in 1..Len(events)
          /\ \A k \in 1..Len(events') : /\ events'[k] = events[k + 1]
                                        /\ k + 1 \in 1..Len(events)
      BY <1>6, <2>1, HeadAndTail DEF StreamReplied, CanRead
    <3>2. \A k \in 1..Len(events) : 1 < k /\ events[k].kind = "asked" => events[k].id # h
      BY <2>0, <3>1 DEF AsksComeFirst
    <3>3. \A k \in 1..Len(events') : 1 < k + 1
      OBVIOUS
    <3> QED
      BY <3>1, <3>2, <3>3
  <2>4. Over(h)'
    BY <2>1, <2>3 DEF Over
  <2>5. \A i \in Ids : Ends(i)' => Ends(i) \/ i = h
    BY <2>2, NoneIsNoStatus
  <2>6. \A i \in Ids : ~Begins(i)'
    BY <2>2, NoneIsNoStatus
  <2> HIDE DEF Ends, Begins
  <2>7. \A i \in Ids : Ends(i)' => Ends(i) \/ Over(i)'
    BY <2>4, <2>5
  <2> QED
    BY <1>2, <2>6, <2>7
<1>7. CASE StreamEmits
  <2>1. /\ emitting \in [id : Ids, state : {"asked", "resolved"}]
        /\ status' = [status EXCEPT ![emitting.id] = emitting.state]
        /\ emitting' = None
    BY <1>7 DEF StreamEmits, TypeOK
  <2>2. \A i \in Ids : ~Begins(i)'
    BY <2>1, NoneIsNoStatus
  <2>3. \A i \in Ids : Ends(i)' => Ends(i)
    BY <2>1, NoneIsNoStatus DEF TypeOK
  <2> QED
    BY <1>2, <2>2, <2>3
<1>8. CASE Restart
  <2>1. emitting' = None /\ status' = [i \in Ids |-> "none"]
    BY <1>8 DEF Restart
  <2> QED
    BY <1>2, <2>1, NoneIsNoStatus
<1> QED
  BY <1>3, <1>4, <1>5, <1>6, <1>7, <1>8, StatusStep

(***************************************************************************)
(* With the memory registry, where no write fails, the client hears        *)
(* "resolved" only of a question it was asked and that has not been        *)
(* resolved since: duplicated events are suppressed.                       *)
(***************************************************************************)
THEOREM ResolvedIsAnnounced ==
  ASSUME Backend = "memory"
  PROVE  Spec => ResolvedFollowsAsked
<1> DEFINE IInv == /\ RowKeepsPromise /\ DiscardsComeAfter /\ AsksComeFirst
                   /\ MarksAreAnnounced /\ ResolvedAreOver
<1>1. Init => IInv
  BY NoneIsOutside, NoneIsNoStatus
  DEF Init, StoreInit, RowKeepsPromise, RowKept, DiscardsComeAfter, AsksComeFirst,
      Unheard, Idle, MarksAreAnnounced, ResolvedAreOver
<1>2. TypeOK /\ IInv /\ [Next]_vars => IInv'
  BY StepTypes, StoreStepKeepsPromise, StepKeepsDiscardOrder, StepKeepsAsks,
     StepKeepsMarks, StepKeepsResolved
  DEF TypeOK
<1>3. TypeOK /\ IInv /\ [Next]_vars
        => [\A i \in Ids : emitting # None /\ emitting' = None /\ emitting.id = i
                           /\ status'[i] = "resolved"
                             => status[i] = "asked"]_vars
  <2> SUFFICES ASSUME TypeOK, IInv, [Next]_vars, NEW i \in Ids,
                      emitting # None, emitting' = None, emitting.id = i,
                      status'[i] = "resolved"
               PROVE  status[i] = "asked"
    OBVIOUS
  <2>1. emitting \in [id : Ids, state : {"asked", "resolved"}]
    BY DEF TypeOK
  <2>2. CASE emitting.state = "resolved"
    BY <2>2 DEF MarksAreAnnounced
  <2>3. CASE emitting.state = "asked"
    <3>1. emitting = [id |-> i, state |-> "asked"] /\ status[i] # "resolved"
      BY <2>1, <2>3 DEF ResolvedAreOver
    <3>2. status' # status /\ ~StreamEmits
      BY <2>3, <3>1 DEF StreamEmits, TypeOK
    <3>3. Restart
      BY <3>2, StatusStep DEF StreamAsked, StreamReplied
    <3> QED
      BY <3>3 DEF Restart
  <2> QED
    BY <2>1, <2>2, <2>3
<1> HIDE DEF IInv
<1> QED
  BY <1>1, <1>2, <1>3, TypeSafety, PTL DEF Spec, ResolvedFollowsAsked
=============================================================================
